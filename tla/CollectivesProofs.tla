-------------------------- MODULE CollectivesProofs --------------------------
(***************************************************************************)
(* Proofs about Collectives, for every number of ranks and every program:  *)
(* a tensor that a kernel has allocated for itself is not used on the      *)
(* stream any more when the kernel has returned; the counts of a send and  *)
(* its receive, and of the parts of a collective, match; types are kept.   *)
(***************************************************************************)
EXTENDS CollectivesInvariant

HasTemp(groups) == \E e \in UNION ToSet(groups) : e.op.temp

NoTemps(ops) == \A n \in DOMAIN ops : ~ops[n].temp

LEMMA FlattenedNoTemps ==
  ASSUME NEW n \in Nat \ {0}, NEW seqs, seqs = [k \in 1..n |-> seqs[k]],
         \A k \in 1..n : IsSeq(seqs[k]) /\ NoTemps(seqs[k])
  PROVE  NoTemps(FlattenSeq(seqs))
<1> DEFINE S == UNION {ToSet(seqs[k]) : k \in 1..n}
<1>1. ASSUME NEW k \in 1..n PROVE seqs[k] \in Seq(S)
  <2>1. seqs[k] \in Seq(ToSet(seqs[k])) /\ ToSet(seqs[k]) \subseteq S
    BY DEF IsSeq
  <2> HIDE DEF S
  <2> QED BY <2>1, SeqMonotonic
<1>2. ASSUME NEW x \in S PROVE ~x.temp
  <2>1. PICK k \in 1..n : x \in ToSet(seqs[k])
    OBVIOUS
  <2> QED BY <2>1 DEF ToSet, NoTemps
<1> HIDE DEF S
<1>3. FlattenSeq(seqs) \in Seq(S)
  BY <1>1, FlattenedElements
<1>4. \A i \in DOMAIN FlattenSeq(seqs) : FlattenSeq(seqs)[i] \in S
  BY <1>3, LenProperties, ElementOfSeq
<1> QED BY <1>2, <1>4 DEF NoTemps
-----------------------------------------------------------------------------
\* The rows of one call, before they are put one behind the other.
LEMMA RowsNoTemps ==
  ASSUME NEW s, NEW t, IsSeq(s), IsSeq(t), NoTemps(s), NoTemps(t)
  PROVE  IsSeq(s \o t) /\ NoTemps(s \o t)
<1>1. IsSeq(s \o t) /\ ToSet(s \o t) = ToSet(s) \cup ToSet(t)
  BY ConcatIsSeq
<1>2. \A x \in ToSet(s \o t) : ~x.temp
  BY <1>1 DEF ToSet, NoTemps
<1> QED BY <1>1, <1>2 DEF ToSet, NoTemps

LEMMA NoneOrOne ==
  /\ IsSeq(<<>>) /\ NoTemps(<<>>)
  /\ \A x : ~x.temp => IsSeq(<<x>>) /\ NoTemps(<<x>>)
  /\ \A x, y : ~x.temp /\ ~y.temp => IsSeq(<<x, y>>) /\ NoTemps(<<x, y>>)
BY DEF IsSeq, NoTemps, ToSet

\* Launching operations on tensors of the framework leaves no temporary one in use.
LEMMA LaunchedIsQuiet ==
  ASSUME NEW r, IsSeq(stream[r]), ~HasTemp(stream[r]), NEW ops, NoTemps(ops)
  PROVE  IsSeq(Launched(r, ops)) /\ ~HasTemp(Launched(r, ops))
<1>1. CASE ops = <<>>
  BY <1>1 DEF Launched
<1>2. CASE ops # <<>>
  <2> DEFINE group == {[n |-> n, op |-> ops[n]] : n \in DOMAIN ops}
  <2>1. \A e \in group : ~e.op.temp
    BY DEF NoTemps
  <2>2. Launched(r, ops) = Append(stream[r], group)
    BY <1>2 DEF Launched
  <2> HIDE DEF group
  <2>3. IsSeq(Append(stream[r], group))
        /\ ToSet(Append(stream[r], group)) = ToSet(stream[r]) \cup {group}
    BY AppendIsSeq
  <2> QED BY <2>1, <2>2, <2>3 DEF HasTemp
<1> QED BY <1>1, <1>2

LEMMA LaunchedIsSeq ==
  ASSUME NEW r, IsSeq(stream[r]), NEW ops
  PROVE  IsSeq(Launched(r, ops))
BY AppendIsSeq DEF Launched

LEMMA ConcatIsQuiet ==
  ASSUME NEW s, NEW t, IsSeq(s), IsSeq(t), ~HasTemp(s), ~HasTemp(t)
  PROVE  IsSeq(s \o t) /\ ~HasTemp(s \o t)
BY ConcatIsSeq DEF HasTemp

\* What MCCL and the stream have done is pending no more.
LEMMA TailShrinks ==
  ASSUME NEW s, IsSeq(s), s # <<>>
  PROVE  IsSeq(Tail(s)) /\ (HasTemp(Tail(s)) => HasTemp(s))
BY TailIsSeq DEF HasTemp

LEMMA WithoutShrinks ==
  ASSUME NEW s, IsSeq(s), s # <<>>, NEW done
  PROVE  IsSeq(Without(s, done)) /\ (HasTemp(Without(s, done)) => HasTemp(s))
<1> DEFINE rest == Head(s) \ done
<1>1. IsSeq(Tail(s)) /\ ToSet(Tail(s)) \subseteq ToSet(s) /\ Head(s) \in ToSet(s)
  BY TailIsSeq
<1>2. IsSeq(<<rest>>) /\ ToSet(<<rest>>) = {rest}
  BY OneIsSeq
<1>3. rest \subseteq Head(s)
  OBVIOUS
<1>4. Without(s, done) = IF rest = {} THEN Tail(s) ELSE <<rest>> \o Tail(s)
  BY DEF Without
<1> HIDE DEF rest
<1>5. IsSeq(<<rest>> \o Tail(s)) /\ ToSet(<<rest>> \o Tail(s)) = {rest} \cup ToSet(Tail(s))
  BY <1>1, <1>2, ConcatIsSeq
<1> QED BY <1>1, <1>3, <1>4, <1>5 DEF HasTemp
-----------------------------------------------------------------------------
(***************************************************************************)
(* The invariant: the streams are queues of groups, and where a temporary  *)
(* tensor is used, its kernel has not returned.                            *)
(***************************************************************************)
InKernel(r) ==
  /\ ~Finished(r)
  /\ Call(r).op \in {"p_send", "p_recv", "c_scatter"}
  /\ step[r] > 0

TempInv ==
  /\ DOMAIN stream = Rank /\ stream = [r \in Rank |-> stream[r]]
  /\ call \in [Rank -> Nat]
  /\ step \in [Rank -> Nat]
  /\ \A r \in Rank : IsSeq(stream[r]) /\ (HasTemp(stream[r]) => InKernel(r))

LEMMA TempsAliveFollows == TempInv => TempsAlive
BY DEF TempInv, TempsAlive, InKernel, HasTemp, Pending

\* A kernel that is not between its own temporary tensors finds none in use.
LEMMA NoTempBefore ==
  ASSUME TempInv, NEW r \in Rank,
         Drained(r) \/ step[r] = 0
           \/ Call(r).op \notin {"p_send", "p_recv", "c_scatter"}
  PROVE  IsSeq(stream[r]) /\ ~HasTemp(stream[r])
<1>1. CASE Drained(r)
  <2>1. ToSet(<<>>) = {}
    BY DEF ToSet
  <2> QED BY <1>1, <2>1 DEF Drained, HasTemp, TempInv
<1>2. CASE ~Drained(r)
  BY <1>2 DEF TempInv, InKernel
<1> QED BY <1>1, <1>2

\* The steps of a host thread, by what they leave on its stream: nothing temporary ...
LEMMA QuietStep ==
  ASSUME TempInv, NEW r \in Rank, NEW s, IsSeq(s), ~HasTemp(s),
         stream' = [stream EXCEPT ![r] = s],
         Return(r) \/ \E k \in Nat : Goto(r, k)
  PROVE  TempInv'
<1>1. program' = program
  BY DEF Return, Goto
<1>2. call' \in [Rank -> Nat] /\ step' \in [Rank -> Nat]
  BY DEF Return, Goto, TempInv
<1>3. \A q \in Rank : q # r => call'[q] = call[q] /\ step'[q] = step[q]
  BY DEF Return, Goto, TempInv
<1>4. /\ DOMAIN stream' = Rank /\ stream' = [q \in Rank |-> stream'[q]]
      /\ \A q \in Rank : stream'[q] = IF q = r THEN s ELSE stream[q]
  BY DEF TempInv
<1>5. ASSUME NEW q \in Rank PROVE IsSeq(stream'[q]) /\ (HasTemp(stream'[q]) => InKernel(q)')
  <2>1. CASE q = r
    BY <1>4, <2>1
  <2>2. CASE q # r
    <3>1. IsSeq(stream[q]) /\ (HasTemp(stream[q]) => InKernel(q))
      BY DEF TempInv
    <3>2. InKernel(q)' <=> InKernel(q)
      BY <1>1, <1>3, <2>2 DEF InKernel, Finished, Call
    <3> QED BY <1>4, <2>2, <3>1, <3>2
  <2> QED BY <2>1, <2>2
<1> QED BY <1>2, <1>4, <1>5 DEF TempInv

\* ... or temporary tensors, in a kernel that goes on ...
LEMMA TempStep ==
  ASSUME TempInv, NEW r \in Rank, NEW s, IsSeq(s),
         stream' = [stream EXCEPT ![r] = s],
         ~Finished(r), Call(r).op \in {"p_send", "p_recv", "c_scatter"},
         NEW k \in Nat \ {0}, Goto(r, k)
  PROVE  TempInv'
<1>1. program' = program /\ call' = call /\ step' = [step EXCEPT ![r] = k]
  BY DEF Goto
<1>2. call' \in [Rank -> Nat] /\ step' \in [Rank -> Nat]
  BY <1>1 DEF TempInv
<1>3. /\ DOMAIN stream' = Rank /\ stream' = [q \in Rank |-> stream'[q]]
      /\ \A q \in Rank : stream'[q] = IF q = r THEN s ELSE stream[q]
  BY DEF TempInv
<1>4. \A q \in Rank : step'[q] = IF q = r THEN k ELSE step[q]
  BY <1>1 DEF TempInv
<1>5. ASSUME NEW q \in Rank PROVE IsSeq(stream'[q]) /\ (HasTemp(stream'[q]) => InKernel(q)')
  <2>1. CASE q = r
    BY <1>1, <1>3, <1>4, <2>1 DEF InKernel, Finished, Call
  <2>2. CASE q # r
    <3>1. IsSeq(stream[q]) /\ (HasTemp(stream[q]) => InKernel(q))
      BY DEF TempInv
    <3>2. InKernel(q)' <=> InKernel(q)
      BY <1>1, <1>4, <2>2 DEF InKernel, Finished, Call
    <3> QED BY <1>3, <2>2, <3>1, <3>2
  <2> QED BY <2>1, <2>2
<1> QED BY <1>2, <1>3, <1>5 DEF TempInv

\* ... and a step of MCCL or of a stream only takes away.
LEMMA DoneStep ==
  ASSUME TempInv, UNCHANGED <<program, call, step>>,
         DOMAIN stream' = Rank, stream' = [q \in Rank |-> stream'[q]],
         \A q \in Rank : IsSeq(stream'[q]) /\ (HasTemp(stream'[q]) => HasTemp(stream[q]))
  PROVE  TempInv'
<1>1. \A q \in Rank : InKernel(q)' <=> InKernel(q)
  BY DEF InKernel, Finished, Call
<1> QED BY <1>1 DEF TempInv

LEMMA TransferKeeps ==
  ASSUME TempInv, NEW s \in Rank, NEW d \in Rank, Transfer(s, d),
         UNCHANGED <<program, call, step>>
  PROVE  TempInv'
<1>1. PICK out \in NextWith(s, "send", d), in \in NextWith(d, "recv", s) :
        stream' = [r \in Rank |->
                    IF r \notin {s, d} THEN stream[r]
                    ELSE Without(stream[r], (IF r = s THEN {out} ELSE {})
                                            \cup (IF r = d THEN {in} ELSE {}))]
  BY DEF Transfer
<1>2. stream[s] # <<>> /\ stream[d] # <<>>
  BY DEF NextWith, Running, Drained
<1>3. ASSUME NEW q \in Rank
      PROVE IsSeq(stream'[q]) /\ (HasTemp(stream'[q]) => HasTemp(stream[q]))
  <2> DEFINE done == (IF q = s THEN {out} ELSE {}) \cup (IF q = d THEN {in} ELSE {})
  <2>1. IsSeq(stream[q])
    BY DEF TempInv
  <2>2. stream'[q] = IF q \notin {s, d} THEN stream[q] ELSE Without(stream[q], done)
    BY <1>1
  <2> HIDE DEF done
  <2>3. CASE q \in {s, d}
    BY <1>2, <2>1, <2>2, <2>3, WithoutShrinks
  <2>4. CASE q \notin {s, d}
    BY <2>1, <2>2, <2>4
  <2> QED BY <2>3, <2>4
<1>4. DOMAIN stream' = Rank /\ stream' = [q \in Rank |-> stream'[q]]
  BY <1>1
<1> QED BY <1>3, <1>4, DoneStep

\* Where all ranks meet, none has an empty stream.
LEMMA MeetKeeps ==
  ASSUME TempInv, NEW kind, Meet(kind), stream' = [r \in Rank |-> Tail(stream[r])],
         UNCHANGED <<program, call, step>>
  PROVE  TempInv'
<1>1. \A q \in Rank : stream[q] # <<>> /\ IsSeq(stream[q])
  BY DEF Meet, Running, Drained, TempInv
<1>2. \A q \in Rank : IsSeq(stream'[q]) /\ (HasTemp(stream'[q]) => HasTemp(stream[q]))
  BY <1>1, TailShrinks
<1>3. DOMAIN stream' = Rank /\ stream' = [q \in Rank |-> stream'[q]]
  OBVIOUS
<1> QED BY <1>2, <1>3, DoneStep

LEMMA FirstDoneKeeps ==
  ASSUME TempInv, NEW r \in Rank, Running(r) # {}, stream' = [stream EXCEPT ![r] = Tail(@)],
         UNCHANGED <<program, call, step>>
  PROVE  TempInv'
<1>1. stream[r] # <<>> /\ \A q \in Rank : IsSeq(stream[q])
  BY DEF Running, Drained, TempInv
<1>2. /\ DOMAIN stream' = Rank /\ stream' = [q \in Rank |-> stream'[q]]
      /\ \A q \in Rank : stream'[q] = IF q = r THEN Tail(stream[r]) ELSE stream[q]
  BY DEF TempInv
<1>3. \A q \in Rank : IsSeq(stream'[q]) /\ (HasTemp(stream'[q]) => HasTemp(stream[q]))
  BY <1>1, <1>2, TailShrinks
<1> QED BY <1>2, <1>3, DoneStep

LEMMA ProgressKeeps ==
  ASSUME TempInv, Progress, UNCHANGED <<program, call, step>> PROVE TempInv'
<1>1. CASE \E s, d \in Rank : Transfer(s, d)
  BY <1>1, TransferKeeps
<1>2. CASE RunAllGather \/ RunBroadcast \/ RunAllReduce \/ RunReduceScatter
           \/ RunAllReduceInPlace
  BY <1>2, MeetKeeps
     DEF RunAllGather, RunBroadcast, RunAllReduce, RunReduceScatter, RunAllReduceInPlace
<1>3. CASE \E r \in Rank : RunRearrange(r)
  BY <1>3, FirstDoneKeeps DEF RunRearrange
<1> QED BY <1>1, <1>2, <1>3 DEF Progress

LEMMA RunKernelKeeps ==
  ASSUME TempInv, NEW r \in Rank, RunKernel(r) PROVE TempInv'
BY FirstDoneKeeps DEF RunKernel
-----------------------------------------------------------------------------
\* The kernels that launch operations on tensors of the framework only.
LEMMA LaunchKeeps ==
  ASSUME TempInv, NEW r \in Rank, NEW ops, NoTemps(ops),
         stream' = [stream EXCEPT ![r] = Launched(r, ops)],
         Drained(r) \/ step[r] = 0
           \/ Call(r).op \notin {"p_send", "p_recv", "c_scatter"},
         Return(r) \/ \E k \in Nat : Goto(r, k)
  PROVE  TempInv'
<1>1. IsSeq(stream[r]) /\ ~HasTemp(stream[r])
  BY NoTempBefore
<1>2. IsSeq(Launched(r, ops)) /\ ~HasTemp(Launched(r, ops))
  BY <1>1, LaunchedIsQuiet
<1> QED BY <1>2, QuietStep

LEMMA ConcatKeeps ==
  ASSUME TempInv, NEW r \in Rank, NEW t, IsSeq(t), ~HasTemp(t),
         stream' = [stream EXCEPT ![r] = @ \o t],
         Drained(r) \/ step[r] = 0
           \/ Call(r).op \notin {"p_send", "p_recv", "c_scatter"},
         Return(r) \/ \E k \in Nat : Goto(r, k)
  PROVE  TempInv'
<1>1. IsSeq(stream[r]) /\ ~HasTemp(stream[r])
  BY NoTempBefore
<1>2. IsSeq(stream[r] \o t) /\ ~HasTemp(stream[r] \o t)
  BY <1>1, ConcatIsQuiet
<1>3. stream' = [stream EXCEPT ![r] = stream[r] \o t]
  BY DEF TempInv
<1> QED BY <1>2, <1>3, QuietStep

LEMMA SameKeeps ==
  ASSUME TempInv, NEW r \in Rank, UNCHANGED stream,
         Drained(r) \/ step[r] = 0
           \/ Call(r).op \notin {"p_send", "p_recv", "c_scatter"},
         Return(r) \/ \E k \in Nat : Goto(r, k)
  PROVE  TempInv'
<1>1. IsSeq(stream[r]) /\ ~HasTemp(stream[r])
  BY NoTempBefore
<1>2. stream' = [stream EXCEPT ![r] = stream[r]]
  BY DEF TempInv
<1> QED BY <1>1, <1>2, QuietStep

LEMMA GlobalScatterKeeps ==
  ASSUME TempInv, NEW r \in Rank, NEW i \in 0..step[r], GlobalScatter(r, i)
  PROVE  TempInv'
<1> DEFINE c == Call(r)
           rows == [k \in 1..NRanks |->
                      LET idx == i + (k - 1) * c.experts IN SendRows(c, r, idx) \o RecvRows(c, r, idx)]
<1>1. ASSUME NEW idx
      PROVE  IsSeq(SendRows(c, r, idx)) /\ NoTemps(SendRows(c, r, idx))
             /\ IsSeq(RecvRows(c, r, idx)) /\ NoTemps(RecvRows(c, r, idx))
  BY NoneOrOne DEF SendRows, RecvRows, Send, Recv
<1>2. \A k \in 1..NRanks : IsSeq(rows[k]) /\ NoTemps(rows[k])
  <2> SUFFICES ASSUME NEW k \in 1..NRanks PROVE IsSeq(rows[k]) /\ NoTemps(rows[k])
    OBVIOUS
  <2> DEFINE idx == i + (k - 1) * c.experts
  <2>1. rows[k] = SendRows(c, r, idx) \o RecvRows(c, r, idx)
    OBVIOUS
  <2> HIDE DEF idx, c, rows
  <2> QED BY <1>1, <2>1, RowsNoTemps
<1>3. ExpertGroup(c, r, i) = FlattenSeq(rows)
  BY DEF ExpertGroup
<1>4. rows = [k \in 1..NRanks |-> rows[k]]
  OBVIOUS
<1> HIDE DEF rows
<1>5. NoTemps(ExpertGroup(c, r, i))
  BY <1>2, <1>3, <1>4, FlattenedNoTemps, NRanksAssumption
<1>6. stream' = [stream EXCEPT ![r] = Launched(r, ExpertGroup(c, r, i))]
  BY DEF GlobalScatter, Post
<1>7. c.op = "global_scatter"
  BY DEF GlobalScatter, At
<1>8. Return(r) \/ \E k \in Nat : Goto(r, k)
  BY DEF GlobalScatter, TempInv
<1> QED BY <1>5, <1>6, <1>7, <1>8, LaunchKeeps

LEMMA AllToAllKeeps ==
  ASSUME TempInv, NEW r \in Rank, AllToAll(r) PROVE TempInv'
<1> DEFINE n == Call(r).numel \div NRanks
           rows == [k \in 1..NRanks |->
                      <<Send(k - 1, Part(r, (k - 1) * n, n), FALSE),
                        Recv(k - 1, call[r], (k - 1) * n, n, FALSE)>>]
<1>1. \A k \in 1..NRanks : IsSeq(rows[k]) /\ NoTemps(rows[k])
  BY NoneOrOne DEF Send, Recv
<1>2. rows = [k \in 1..NRanks |-> rows[k]]
  OBVIOUS
<1>3. stream' = [stream EXCEPT ![r] = Launched(r, FlattenSeq(rows))]
  BY DEF AllToAll, Post
<1> HIDE DEF rows
<1>4. NoTemps(FlattenSeq(rows))
  BY <1>1, <1>2, FlattenedNoTemps, NRanksAssumption
<1>5. step[r] = 0 /\ Return(r)
  BY DEF AllToAll, At
<1> QED BY <1>3, <1>4, <1>5, LaunchKeeps

LEMMA McclAll2AllKeeps ==
  ASSUME TempInv, NEW r \in Rank, McclAll2All(r) PROVE TempInv'
<1> DEFINE count == Call(r).count
           out(j) == IF count[r][j] = 0 THEN <<>>
                     ELSE <<Send(j, Part(r, Sum(count[r], j), count[r][j]), FALSE)>>
           in(j)  == IF count[j][r] = 0 THEN <<>>
                     ELSE <<Recv(j, call[r], Sum([s \in Rank |-> count[s][r]], j),
                                 count[j][r], FALSE)>>
           rows == [k \in 1..NRanks |-> out(k - 1) \o in(k - 1)]
<1>1. ASSUME NEW j
      PROVE  IsSeq(out(j)) /\ NoTemps(out(j)) /\ IsSeq(in(j)) /\ NoTemps(in(j))
  BY NoneOrOne DEF Send, Recv
<1>2. stream' = [stream EXCEPT ![r] = Launched(r, FlattenSeq(rows))]
  BY DEF McclAll2All, Post
<1>3. \A k \in 1..NRanks : rows[k] = out(k - 1) \o in(k - 1)
  OBVIOUS
<1>4. rows = [k \in 1..NRanks |-> rows[k]]
  OBVIOUS
<1> HIDE DEF rows, out, in
<1>5. \A k \in 1..NRanks : IsSeq(rows[k]) /\ NoTemps(rows[k])
  BY <1>1, <1>3, RowsNoTemps
<1>6. NoTemps(FlattenSeq(rows))
  BY <1>4, <1>5, FlattenedNoTemps, NRanksAssumption
<1>7. step[r] = 0 /\ Return(r)
  BY DEF McclAll2All, At
<1> QED BY <1>2, <1>6, <1>7, LaunchKeeps

\* One operation on the whole tensor or a part of it.
LEMMA WholeTensorKeeps ==
  ASSUME TempInv, NEW r \in Rank, step[r] = 0, Return(r), NEW how, NEW op, ~op.temp,
         PostOrRaise(r, how, op)
  PROVE  TempInv'
<1>1. NoTemps(<<op>>)
  BY NoneOrOne
<1>2. stream' = [stream EXCEPT ![r] = Launched(r, <<op>>)] \/ UNCHANGED stream
  BY DEF PostOrRaise, Post
<1>3. step[r] = 0 /\ Return(r)
  OBVIOUS
<1> QED BY <1>1, <1>2, <1>3, LaunchKeeps, SameKeeps

LEMMA GathersKeep ==
  ASSUME TempInv, NEW r \in Rank,
         \/ PartialAllGather(r) \/ AllGatherKernel(r) \/ AllReduceKernel(r)
         \/ MpAllReduceSumKernel(r) \/ ReduceScatterKernel(r) \/ BroadcastKernel(r)
  PROVE  TempInv'
<1>1. CASE PartialAllGather(r)
  <2> DEFINE n == Call(r).numel \div NRanks
             op == AllGather(Part(r, n * r, n), call[r])
  <2>1. stream' = [stream EXCEPT ![r] = Launched(r, <<op>>)] /\ step[r] = 0 /\ Return(r)
    BY <1>1 DEF PartialAllGather, Post, At
  <2>2. ~op.temp
    BY DEF AllGather
  <2> HIDE DEF op
  <2>3. NoTemps(<<op>>)
    BY <2>2, NoneOrOne
  <2> QED BY <2>1, <2>3, LaunchKeeps
<1>2. CASE AllGatherKernel(r)
  BY <1>2, WholeTensorKeeps DEF AllGatherKernel, AllGather, At
<1>3. CASE AllReduceKernel(r)
  BY <1>3, WholeTensorKeeps DEF AllReduceKernel, AllReduce, At
<1>4. CASE MpAllReduceSumKernel(r)
  BY <1>4, WholeTensorKeeps DEF MpAllReduceSumKernel, AllReduce, At
<1>5. CASE ReduceScatterKernel(r)
  BY <1>5, WholeTensorKeeps DEF ReduceScatterKernel, ReduceScatter, At
<1>6. CASE BroadcastKernel(r)
  BY <1>6, WholeTensorKeeps DEF BroadcastKernel, Broadcast, At
<1> QED BY <1>1, <1>2, <1>3, <1>4, <1>5, <1>6

\* Two groups of one operation each.
LEMMA TwoGroups ==
  ASSUME NEW op1, NEW op2
  PROVE  LET t == <<{[n |-> 1, op |-> op1]}, {[n |-> 1, op |-> op2]}>>
         IN  IsSeq(t) /\ (~op1.temp /\ ~op2.temp => ~HasTemp(t))
BY DEF IsSeq, HasTemp, ToSet

LEMMA CConcatKeeps ==
  ASSUME TempInv, NEW r \in Rank, CConcat(r) PROVE TempInv'
<1> DEFINE rows  == Call(r).rows
           cols  == Call(r).cols
           width == cols * NRanks
           from  == [k \in 1..(rows * width) |->
                       LET row == (k - 1) \div width
                           col == (k - 1) % width
                       IN  (col \div cols) * rows * cols + row * cols + (col % cols) + 1]
           op1 == AllGather(Part(r, 0, rows * cols), call[r])
           op2 == Rearrange(call[r], from, FALSE)
           t == <<{[n |-> 1, op |-> op1]}, {[n |-> 1, op |-> op2]}>>
<1>1. stream' = [stream EXCEPT ![r] = @ \o t] /\ step[r] = 0 /\ Return(r)
  BY DEF CConcat, At
<1>2. ~op1.temp /\ ~op2.temp
  BY DEF AllGather, Rearrange
<1> HIDE DEF op1, op2
<1>3. IsSeq(t) /\ ~HasTemp(t)
  BY <1>2, TwoGroups
<1> HIDE DEF t
<1> QED BY <1>1, <1>3, ConcatKeeps

LEMMA CScatterKeeps ==
  ASSUME TempInv, NEW r \in Rank, CScatter(r) PROVE TempInv'
<1> DEFINE n == Call(r).numel \div NRanks
           op1 == Broadcast(Call(r).root, Part(r, 0, Call(r).numel), call[r], TRUE)
           op2 == Rearrange(call[r], [k \in 1..n |-> n * r + k], TRUE)
           t == <<{[n |-> 1, op |-> op1]}, {[n |-> 1, op |-> op2]}>>
<1>1. stream' = [stream EXCEPT ![r] = @ \o t]
  BY DEF CScatter
<1>2. /\ ~Finished(r) /\ Call(r).op \in {"p_send", "p_recv", "c_scatter"}
      /\ Goto(r, 1) /\ 1 \in Nat \ {0}
  BY DEF CScatter, At
<1> HIDE DEF op1, op2
<1>3. IsSeq(t) /\ IsSeq(stream[r])
  BY TwoGroups DEF TempInv
<1> HIDE DEF t
<1>4. IsSeq(stream[r] \o t)
  BY <1>3, ConcatIsSeq
<1>5. stream' = [stream EXCEPT ![r] = stream[r] \o t]
  BY <1>1 DEF TempInv
<1> DEFINE s == stream[r] \o t
<1>6. IsSeq(s) /\ stream' = [stream EXCEPT ![r] = s]
  BY <1>4, <1>5
<1> HIDE DEF s
<1> QED BY <1>2, <1>6, TempStep

\* Kernels and reductions, each a group of its own.
LEMMA UngroupedKeeps ==
  ASSUME TempInv, NEW r \in Rank, NEW N \in Nat, NEW ops, DOMAIN ops = 1..N, NoTemps(ops),
         stream' = [stream EXCEPT ![r] = Ungrouped(r, ops)],
         Drained(r) \/ step[r] = 0
           \/ Call(r).op \notin {"p_send", "p_recv", "c_scatter"},
         Return(r) \/ \E k \in Nat : Goto(r, k)
  PROVE  TempInv'
<1> DEFINE t == [n \in DOMAIN ops |-> {[n |-> 1, op |-> ops[n]]}]
<1>1. IsSeq(t)
  BY DEF IsSeq, ToSet
<1>2. ~HasTemp(t)
  BY DEF HasTemp, ToSet, NoTemps
<1>3. stream' = [stream EXCEPT ![r] = @ \o t]
  BY DEF Ungrouped, TempInv
<1> HIDE DEF t
<1> QED BY <1>1, <1>2, <1>3, ConcatKeeps

LEMMA CSoftmaxKeeps ==
  ASSUME TempInv, NEW r \in Rank, CSoftmax(r) PROVE TempInv'
<1> DEFINE ops == <<Kernel("maxima", call[r]),  AllReduceInPlace("max", "logits_max", call[r]),
                    Kernel("targets", call[r]), AllReduceInPlace("sum", "predicted_logits", call[r]),
                    Kernel("sums", call[r]),    AllReduceInPlace("sum", "sum_exp_logits", call[r]),
                    Kernel("losses", call[r])>>
<1>1. stream' = [stream EXCEPT ![r] = Ungrouped(r, ops)] /\ Return(r)
  BY DEF CSoftmax
<1>2. Call(r).op \notin {"p_send", "p_recv", "c_scatter"}
  BY DEF CSoftmax, CrossEntropies
<1>3. DOMAIN ops = 1..7 /\ NoTemps(ops)
  <2>1. \A name, how, tensor : /\ ~Kernel(name, call[r]).temp
                              /\ ~AllReduceInPlace(how, tensor, call[r]).temp
    BY DEF Kernel, AllReduceInPlace
  <2>2. DOMAIN ops = 1..7
    OBVIOUS
  <2>3. \A n \in 1..7 : ~ops[n].temp
    BY <2>1
  <2> HIDE DEF ops
  <2> QED BY <2>2, <2>3 DEF NoTemps
<1> HIDE DEF ops
<1> QED BY <1>1, <1>2, <1>3, UngroupedKeeps

LEMMA ClassCenterSampleKeeps ==
  ASSUME TempInv, NEW r \in Rank, ClassCenterSampleDims(r) \/ ClassCenterSampleKernel(r)
  PROVE  TempInv'
<1> DEFINE op == AllReduceInPlace("sum", "num_classes_per_device", call[r])
<1>1. CASE ClassCenterSampleDims(r)
  <2>1. DOMAIN <<op>> = 1..1 /\ NoTemps(<<op>>)
    BY DEF NoTemps, AllReduceInPlace
  <2>2. stream' = [stream EXCEPT ![r] = Ungrouped(r, <<op>>)] \/ UNCHANGED stream
    BY <1>1 DEF ClassCenterSampleDims
  <2>3. step[r] = 0 /\ \E k \in Nat : Goto(r, k)
    BY <1>1 DEF ClassCenterSampleDims, At
  <2> HIDE DEF op
  <2> QED BY <2>1, <2>2, <2>3, UngroupedKeeps, SameKeeps
<1>2. CASE ClassCenterSampleKernel(r)
  BY <1>2, SameKeeps DEF ClassCenterSampleKernel
<1> QED BY <1>1, <1>2

LEMMA CScatterCopiedKeeps ==
  ASSUME TempInv, NEW r \in Rank, CScatterCopied(r) PROVE TempInv'
BY SameKeeps DEF CScatterCopied, mcclVars

\* A shape that is sent or received through temporary tensors.
LEMMA ShapeKeeps ==
  ASSUME TempInv, NEW r \in Rank, NEW ops, ~Finished(r), Call(r).op \in {"p_send", "p_recv"},
         Post(r, ops), NEW k \in {1, 2}, Goto(r, k)
  PROVE  TempInv'
<1>1. IsSeq(Launched(r, ops))
  BY LaunchedIsSeq DEF TempInv
<1>2. stream' = [stream EXCEPT ![r] = Launched(r, ops)]
  BY DEF Post
<1>3. k \in Nat \ {0} /\ Call(r).op \in {"p_send", "p_recv", "c_scatter"}
  OBVIOUS
<1> QED BY <1>1, <1>2, <1>3, TempStep

\* The tensor itself: the kernel has waited before, if it had temporary tensors.
LEMMA TensorKeeps ==
  ASSUME TempInv, NEW r \in Rank, NEW op, ~op.temp, Post(r, <<op>>),
         \/ (Call(r).dynamic => Drained(r)) /\ step[r] = (IF Call(r).dynamic THEN 2 ELSE 0)
         \/ Call(r).op \in {"p_send_array", "p_recv_array"},
         Return(r) \/ \E k \in Nat : Goto(r, k)
  PROVE  TempInv'
<1>1. NoTemps(<<op>>)
  BY NoneOrOne
<1>2. stream' = [stream EXCEPT ![r] = Launched(r, <<op>>)]
  BY DEF Post
<1>3. Drained(r) \/ step[r] = 0 \/ Call(r).op \notin {"p_send", "p_recv", "c_scatter"}
  OBVIOUS
<1> QED BY <1>1, <1>2, <1>3, LaunchKeeps

LEMMA PointToPointKeeps ==
  ASSUME TempInv, NEW r \in Rank,
         SendShapeSize(r) \/ SendShape(r) \/ PSend(r)
           \/ RecvShapeSize(r) \/ RecvShape(r) \/ PRecv(r)
  PROVE  TempInv'
<1>1. CASE SendShapeSize(r)
  BY <1>1, ShapeKeeps DEF SendShapeSize, At
<1>2. CASE SendShape(r)
  BY <1>2, ShapeKeeps DEF SendShape, At
<1>3. CASE PSend(r)
  <2> DEFINE op == Send(Call(r).peer, Part(r, 0, Product(Call(r).shape)), FALSE)
  <2>1. /\ Post(r, <<op>>) /\ Return(r)
        /\ (Call(r).dynamic => Drained(r)) /\ step[r] = (IF Call(r).dynamic THEN 2 ELSE 0)
    BY <1>3 DEF PSend
  <2>2. ~op.temp
    BY DEF Send
  <2> HIDE DEF op
  <2> QED BY <2>1, <2>2, TensorKeeps
<1>4. CASE RecvShapeSize(r)
  BY <1>4, ShapeKeeps DEF RecvShapeSize, At
<1>5. CASE RecvShape(r)
  BY <1>5, ShapeKeeps DEF RecvShape, At
<1>6. CASE PRecv(r)
  <2> DEFINE shape == IF Call(r).dynamic THEN [d \in DOMAIN received[r][0] |-> received[r][0][d][1]]
                      ELSE Call(r).shape
             op == Recv(Call(r).peer, call[r], 0, Product(shape), FALSE)
  <2>1. /\ Post(r, <<op>>) /\ Return(r)
        /\ (Call(r).dynamic => Drained(r)) /\ step[r] = (IF Call(r).dynamic THEN 2 ELSE 0)
    BY <1>6 DEF PRecv
  <2>2. ~op.temp
    BY DEF Recv
  <2> HIDE DEF op
  <2> QED BY <2>1, <2>2, TensorKeeps
<1> QED BY <1>1, <1>2, <1>3, <1>4, <1>5, <1>6

LEMMA ArraysKeep ==
  ASSUME TempInv, NEW r \in Rank, NEW i \in 0..step[r], PSendArray(r, i) \/ PRecvArray(r, i)
  PROVE  TempInv'
<1> DEFINE numel == Call(r).numels
           out == Send(Call(r).peer, Part(r, Sum(numel, i), numel[i]), FALSE)
           in  == Recv(Call(r).peer, call[r], Sum(numel, i), numel[i], FALSE)
<1>1. i + 1 \in Nat
  BY DEF TempInv
<1>2. CASE PSendArray(r, i)
  <2>1. /\ Post(r, <<out>>) /\ Call(r).op \in {"p_send_array", "p_recv_array"}
        /\ Return(r) \/ Goto(r, i + 1)
    BY <1>2 DEF PSendArray, At
  <2>2. ~out.temp
    BY DEF Send
  <2> HIDE DEF out
  <2> QED BY <1>1, <2>1, <2>2, TensorKeeps
<1>3. CASE PRecvArray(r, i)
  <2>1. /\ Post(r, <<in>>) /\ Call(r).op \in {"p_send_array", "p_recv_array"}
        /\ Return(r) \/ Goto(r, i + 1)
    BY <1>3 DEF PRecvArray, At
  <2>2. ~in.temp
    BY DEF Recv
  <2> HIDE DEF in
  <2> QED BY <1>1, <2>1, <2>2, TensorKeeps
<1> QED BY <1>2, <1>3
-----------------------------------------------------------------------------
LEMMA HostKeeps ==
  ASSUME TempInv, NEW r \in Rank, Host(r) PROVE TempInv'
BY GlobalScatterKeeps, ArraysKeep, AllToAllKeeps, McclAll2AllKeeps, GathersKeep, CConcatKeeps,
   CScatterKeeps, CScatterCopiedKeeps, PointToPointKeeps, CSoftmaxKeeps, ClassCenterSampleKeeps
   DEF Host

LEMMA TempInit == Init => TempInv
<1> SUFFICES ASSUME Init PROVE TempInv
  OBVIOUS
<1>1. \A r \in Rank : stream[r] = <<>>
  BY DEF Init
<1>2. IsSeq(<<>>) /\ ~HasTemp(<<>>)
  BY DEF IsSeq, HasTemp, ToSet
<1>3. /\ DOMAIN stream = Rank /\ stream = [r \in Rank |-> stream[r]]
      /\ call \in [Rank -> Nat] /\ step \in [Rank -> Nat]
  BY DEF Init
<1> QED BY <1>1, <1>2, <1>3 DEF TempInv

LEMMA TempStuttering ==
  ASSUME TempInv, UNCHANGED vars PROVE TempInv'
<1>1. \A q \in Rank : IsSeq(stream'[q]) /\ (HasTemp(stream'[q]) => HasTemp(stream[q]))
  BY DEF vars, TempInv
<1>2. /\ DOMAIN stream' = Rank /\ stream' = [q \in Rank |-> stream'[q]]
      /\ UNCHANGED <<program, call, step>>
  BY DEF vars, TempInv
<1> QED BY <1>1, <1>2, DoneStep

\* The invariant, for every number of ranks and every program of the kernels.
THEOREM TempInvariant == Spec => []TempInv
<1>1. Init => TempInv
  BY TempInit
<1>2. TempInv /\ [Next]_vars => TempInv'
  <2> SUFFICES ASSUME TempInv, [Next]_vars PROVE TempInv'
    OBVIOUS
  <2>1. CASE \E r \in Rank : Host(r)
    BY <2>1, HostKeeps
  <2>2. CASE Progress /\ UNCHANGED <<program, call, step>>
    BY <2>2, ProgressKeeps
  <2>3. CASE \E r \in Rank : RunKernel(r)
    BY <2>3, RunKernelKeeps
  <2>4. CASE UNCHANGED vars
    BY <2>4, TempStuttering
  <2> QED BY <2>1, <2>2, <2>3, <2>4 DEF Next
<1> QED BY <1>1, <1>2, PTL DEF Spec

\* The tensors that send_shape_info, recv_shape_info and c_scatter allocate for
\* themselves are not used on the stream once the function has returned,
\* whichever calls the other ranks are in.
THEOREM NoTempOutlivesItsKernel == Spec => []TempsAlive
BY TempInvariant, TempsAliveFollows, PTL
-----------------------------------------------------------------------------
\* Sums, products and parts: the counts that the kernels compute.

\* The sums of a function of naturals, step by step.
Adds(sum, f, n) == sum = [k \in 0..n |-> IF k = 0 THEN 0 ELSE sum[k - 1] + f[k - 1]]

\* Two functions that add up the same numbers are the same.
LEMMA AddsOnce ==
  ASSUME NEW n \in Nat, NEW f, NEW g, NEW h, Adds(g, f, n), Adds(h, f, n), NEW k \in 0..n
  PROVE  g[k] = h[k]
<1> DEFINE same == [j \in 0..n |-> IF g[j] = h[j] THEN 0 ELSE 1]
<1>1. g[0] = 0 /\ h[0] = 0 /\ \A j \in 1..n : g[j] = g[j - 1] + f[j - 1] /\ h[j] = h[j - 1] + f[j - 1]
  <2>1. 0 \in 0..n /\ \A j \in 1..n : j \in 0..n /\ j # 0
    OBVIOUS
  <2>2. \A j \in 0..n : g[j] = (IF j = 0 THEN 0 ELSE g[j - 1] + f[j - 1])
                        /\ h[j] = (IF j = 0 THEN 0 ELSE h[j - 1] + f[j - 1])
    BY DEF Adds
  <2> QED BY <2>1, <2>2
<1>2. same[0] \in {0}
  <2>1. 0 \in 0..n
    OBVIOUS
  <2> QED BY <1>1, <2>1
<1>3. \A j \in 1..n : same[j - 1] \in {0} => same[j] \in {0}
  <2> SUFFICES ASSUME NEW j \in 1..n, same[j - 1] \in {0} PROVE same[j] \in {0}
    OBVIOUS
  <2>1. j \in 0..n /\ j - 1 \in 0..n
    OBVIOUS
  <2>2. g[j - 1] = h[j - 1]
    BY <2>1
  <2>3. g[j] = h[j]
    BY <1>1, <2>2
  <2> QED BY <2>1, <2>3
<1> DEFINE V == {0}
<1>4. \A j \in 0..n : same[j] \in V
  <2>1. same[0] \in V /\ \A j \in 1..n : same[j - 1] \in V => same[j] \in V
    BY <1>2, <1>3
  <2> HIDE DEF same, V
  <2> QED BY <2>1, StaysIn
<1> HIDE DEF same
<1>5. same[k] = 0 /\ same[k] = (IF g[k] = h[k] THEN 0 ELSE 1)
  BY <1>4 DEF same
<1> QED BY <1>5

\* Sum, one number at a time: a natural number at every length.
LEMMA SumSteps ==
  ASSUME NEW m \in Nat, NEW f, \A k \in 0..(m - 1) : f[k] \in Nat
  PROVE  /\ Sum(f, 0) = 0
         /\ \A n \in 0..m : Sum(f, n) \in Nat
         /\ \A n \in 0..(m - 1) : Sum(f, n + 1) = Sum(f, n) + f[n]
<1> DEFINE add == [p \in Nat \X (1..m) |-> p[1] + f[p[2] - 1]]
<1>1. add \in [Nat \X (1..m) -> Nat]
  OBVIOUS
<1>2. PICK g : Iterates(g, m, Nat, 0, add)
  <2> HIDE DEF add
  <2> QED BY <1>1, Iterated
<1>3. g[0] = 0 /\ \A k \in 0..m : g[k] \in Nat
  <2> HIDE DEF add
  <2> QED BY <1>2 DEF Iterates
<1>4. \A k \in 1..m : g[k] = g[k - 1] + f[k - 1]
  <2> SUFFICES ASSUME NEW k \in 1..m PROVE g[k] = g[k - 1] + f[k - 1]
    OBVIOUS
  <2>1. g[k] = add[<<g[k - 1], k>>]
    <3> HIDE DEF add
    <3> QED BY <1>2 DEF Iterates
  <2>2. g[k - 1] \in Nat
    BY <1>3
  <2> QED BY <2>1, <2>2
<1> HIDE DEF add
<1>5. ASSUME NEW n \in 0..m PROVE Sum(f, n) = g[n]
  <2> DEFINE h == [k \in 0..n |-> g[k]]
             s == CHOOSE sum : Adds(sum, f, n)
  <2>1. Adds(h, f, n)
    <3>1. \A k \in 0..n : h[k] = IF k = 0 THEN 0 ELSE h[k - 1] + f[k - 1]
      BY <1>3, <1>4
    <3> HIDE DEF h
    <3>2. h = [k \in 0..n |-> h[k]]
      BY DEF h
    <3> QED BY <3>1, <3>2 DEF Adds
  <2>2. Adds(s, f, n)
    <3> HIDE DEF h
    <3> QED BY <2>1
  <2>3. Sum(f, n) = s[n]
    BY DEF Sum, Adds
  <2>4. h[n] = g[n]
    OBVIOUS
  <2> HIDE DEF h, s
  <2>5. s[n] = h[n]
    BY <2>1, <2>2, AddsOnce
  <2> QED BY <2>3, <2>4, <2>5
<1>6. \A n \in 0..(m - 1) : n \in 0..m /\ n + 1 \in 0..m /\ n + 1 \in 1..m /\ n + 1 - 1 = n
  OBVIOUS
<1> QED BY <1>3, <1>4, <1>5, <1>6

\* The offsets into a buffer grow with the rows that were counted.
LEMMA SumMonotone ==
  ASSUME NEW m \in Nat, NEW f, \A k \in 0..(m - 1) : f[k] \in Nat,
         NEW i \in 0..m, NEW j \in i..m
  PROVE  Sum(f, i) <= Sum(f, j)
<1> DEFINE g == [k \in 0..(m - i) |-> Sum(f, i + k)]
           V == {s \in Nat : Sum(f, i) <= s}
<1>1. /\ \A n \in 0..m : Sum(f, n) \in Nat
      /\ \A n \in 0..(m - 1) : Sum(f, n + 1) = Sum(f, n) + f[n]
  BY SumSteps
<1>2. g[0] \in V
  <2>1. i + 0 = i /\ i \in 0..m /\ 0 \in 0..(m - i)
    OBVIOUS
  <2> QED BY <1>1, <2>1
<1>3. \A k \in 1..(m - i) : g[k - 1] \in V => g[k] \in V
  <2> SUFFICES ASSUME NEW k \in 1..(m - i), g[k - 1] \in V PROVE g[k] \in V
    OBVIOUS
  <2>1. /\ k \in 0..(m - i) /\ k - 1 \in 0..(m - i) /\ i + (k - 1) \in 0..(m - 1)
        /\ i + (k - 1) + 1 = i + k
    OBVIOUS
  <2>2. g[k] = Sum(f, i + k) /\ g[k - 1] = Sum(f, i + (k - 1))
    BY <2>1
  <2>3. Sum(f, i + k) = Sum(f, i + (k - 1)) + f[i + (k - 1)]
    BY <1>1, <2>1
  <2>4. f[i + (k - 1)] \in Nat
    BY <2>1
  <2>5. Sum(f, i) \in Nat
    BY <1>1
  <2> HIDE DEF g
  <2> QED BY <2>2, <2>3, <2>4, <2>5
<1> HIDE DEF g
<1>4. \A k \in 0..(m - i) : g[k] \in V
  <2>1. m - i \in Nat
    OBVIOUS
  <2> HIDE DEF V
  <2> QED BY <1>2, <1>3, <2>1, StaysIn
<1>5. j - i \in 0..(m - i) /\ i + (j - i) = j
  OBVIOUS
<1> QED BY <1>4, <1>5 DEF g

\* So a part that ends before the end lies within the whole.
LEMMA PartWithinSum ==
  ASSUME NEW m \in Nat, NEW f, \A k \in 0..(m - 1) : f[k] \in Nat, NEW i \in 0..(m - 1)
  PROVE  Sum(f, i) \in Nat /\ Sum(f, i) + f[i] <= Sum(f, m)
<1>1. Sum(f, i) \in Nat /\ Sum(f, i + 1) = Sum(f, i) + f[i]
  BY SumSteps
<1>2. i + 1 \in 0..m /\ m \in (i + 1)..m
  OBVIOUS
<1>3. Sum(f, i + 1) <= Sum(f, m)
  BY <1>2, SumMonotone
<1> QED BY <1>1, <1>3

\* A tensor of every shape has a number of elements.
LEMMA ProductIsNat ==
  ASSUME NEW shape \in Seq(Nat) PROVE Product(shape) \in Nat
<1> DEFINE m == Len(shape)
           add == [p \in Nat \X (1..m) |-> p[1] * shape[p[2]]]
<1>1. m \in Nat /\ \A k \in 1..m : shape[k] \in Nat
  BY LenProperties, ElementOfSeq
<1>2. add \in [Nat \X (1..m) -> Nat]
  <2> HIDE DEF m
  <2>1. \A a, b \in Nat : a * b \in Nat
    OBVIOUS
  <2> QED BY <1>1, <2>1
<1>3. PICK g : Iterates(g, m, Nat, 1, add)
  <2> HIDE DEF add, m
  <2> QED BY <1>1, <1>2, Iterated
<1> DEFINE Multiplies(p) == p = [k \in 0..m |-> IF k = 0 THEN 1 ELSE p[k - 1] * shape[k]]
<1>4. Multiplies(g)
  <2>1. g = [k \in 0..m |-> IF k = 0 THEN 1 ELSE add[<<g[k - 1], k>>]] /\ \A k \in 0..m : g[k] \in Nat
    <3> HIDE DEF add, m
    <3> QED BY <1>3 DEF Iterates
  <2>2. \A k \in 0..m : g[k] = IF k = 0 THEN 1 ELSE g[k - 1] * shape[k]
    <3> HIDE DEF m
    <3> SUFFICES ASSUME NEW k \in 0..m PROVE g[k] = IF k = 0 THEN 1 ELSE g[k - 1] * shape[k]
      OBVIOUS
    <3>1. g[k] = IF k = 0 THEN 1 ELSE add[<<g[k - 1], k>>]
      <4> HIDE DEF add
      <4> QED BY <2>1
    <3>2. k # 0 => k - 1 \in 0..m /\ k \in 1..m
      BY <1>1
    <3>3. k # 0 => <<g[k - 1], k>> \in Nat \X (1..m)
      BY <2>1, <3>2
    <3> QED BY <3>1, <3>3
  <2>3. g = [k \in 0..m |-> g[k]]
    <3> HIDE DEF add, m
    <3> QED BY <2>1
  <2> HIDE DEF add, m
  <2> QED BY <2>2, <2>3
<1> DEFINE p == CHOOSE q : Multiplies(q)
<1>5. Multiplies(p)
  <2> HIDE DEF Multiplies
  <2> QED BY <1>4
<1>6. Product(shape) = p[m]
  BY DEF Product
<1>7. p[0] \in Nat
  <2> HIDE DEF p, m
  <2> QED BY <1>1, <1>5
<1>8. \A k \in 1..m : p[k - 1] \in Nat => p[k] \in Nat
  <2> HIDE DEF p, m
  <2> SUFFICES ASSUME NEW k \in 1..m, p[k - 1] \in Nat PROVE p[k] \in Nat
    OBVIOUS
  <2>1. p[k] = p[k - 1] * shape[k]
    BY <1>1, <1>5
  <2>2. shape[k] \in Nat
    BY <1>1
  <2> HIDE DEF Multiplies
  <2> QED BY <2>1, <2>2
<1> HIDE DEF p, m, Multiplies
<1>9. \A k \in 0..m : p[k] \in Nat
  BY <1>1, <1>7, <1>8, StaysIn
<1> QED BY <1>1, <1>6, <1>9
-----------------------------------------------------------------------------
\* Division, as the loops over experts and ranks use it.
LEMMA Multiples ==
  /\ \A a, b, c \in Nat : a <= b => a * c <= b * c
  /\ \A a, b \in Nat : a * b \in Nat
OBVIOUS

\* Rank and expert of an index into the counts, from the index.
LEMMA DividedBack ==
  ASSUME NEW e \in Nat \ {0}, NEW i \in 0..(e - 1), NEW j \in Nat
  PROVE  (i + j * e) \div e = j /\ (i + j * e) % e = i
<1> DEFINE q == (i + j * e) \div e
           x == (i + j * e) % e
<1>1. j * e \in Nat
  BY Multiples
<1>2. q \in Nat /\ x \in 0..(e - 1) /\ i + j * e = q * e + x
  BY <1>1
<1> HIDE DEF q, x
<1>3. ~(q < j)
  <2> SUFFICES ASSUME q + 1 <= j PROVE FALSE
    BY <1>2
  <2>1. (q + 1) * e <= j * e
    BY <1>2, Multiples
  <2>2. (q + 1) * e = q * e + e
    BY <1>2
  <2> QED BY <1>1, <1>2, <2>1, <2>2
<1>4. ~(j < q)
  <2> SUFFICES ASSUME j + 1 <= q PROVE FALSE
    BY <1>2
  <2>1. (j + 1) * e <= q * e
    BY <1>2, Multiples
  <2>2. (j + 1) * e = j * e + e
    OBVIOUS
  <2> QED BY <1>1, <1>2, <2>1, <2>2
<1>5. q = j
  BY <1>2, <1>3, <1>4
<1> QED BY <1>1, <1>2, <1>5 DEF q, x

\* The part of each rank lies inside a tensor that is divided between the ranks.
LEMMA PartsOf ==
  ASSUME NEW numel \in Nat, NEW k \in 1..NRanks
  PROVE  /\ numel \div NRanks \in Nat
         /\ (k - 1) * (numel \div NRanks) \in Nat
         /\ (k - 1) * (numel \div NRanks) + numel \div NRanks <= numel
<1> DEFINE n == numel \div NRanks
<1>1. NRanks \in Nat \ {0} /\ n \in Nat /\ n * NRanks <= numel
  BY NRanksAssumption
<1> HIDE DEF n
<1>2. k \in Nat /\ k <= NRanks /\ k - 1 \in Nat
  BY <1>1
<1>3. k * n <= NRanks * n /\ (k - 1) * n \in Nat /\ k * n \in Nat
  BY <1>1, <1>2, Multiples
<1>4. (k - 1) * n + n = k * n /\ NRanks * n = n * NRanks
  BY <1>1, <1>2
<1> QED BY <1>1, <1>3, <1>4 DEF n
-----------------------------------------------------------------------------
\* A sum is a number of things, which may be counted in another order.
Units(f, n) == {x \in (0..(n - 1)) \X Nat : x[2] \in 1..f[x[1]]}

\* A sum is the number of its units.
LEMMA UnitsCounted ==
  ASSUME NEW m \in Nat, NEW f, \A k \in 0..(m - 1) : f[k] \in Nat, NEW n \in 0..m
  PROVE  IsFiniteSet(Units(f, n)) /\ Cardinality(Units(f, n)) = Sum(f, n)
<1> DEFINE good(j) == IsFiniteSet(Units(f, j)) /\ Cardinality(Units(f, j)) = Sum(f, j)
           g == [j \in 0..m |-> IF good(j) THEN 0 ELSE 1]
           V == {0}
<1>1. g[0] \in V
  <2>1. Units(f, 0) = {}
    BY DEF Units
  <2>2. good(0)
    BY <2>1, FS_EmptySet, SumSteps
  <2>3. 0 \in 0..m
    OBVIOUS
  <2> QED BY <2>2, <2>3
<1>2. ASSUME NEW j \in 0..(m - 1), good(j) PROVE good(j + 1)
  <2> DEFINE old == Units(f, j)
             new == {j} \X (1..f[j])
  <2>1. Units(f, j + 1) = old \cup new
    BY DEF Units
  <2>2. old \cap new = {}
    BY DEF Units
  <2>3. f[j] \in Nat
    OBVIOUS
  <2>4. IsFiniteSet(1..f[j]) /\ Cardinality(1..f[j]) = f[j]
    <3> DEFINE a == f[j]
    <3>1. a \in Nat /\ 1 \in Int
      BY <2>3
    <3> HIDE DEF a
    <3>2. IsFiniteSet(1..a) /\ Cardinality(1..a) = IF 1 > a THEN 0 ELSE a - 1 + 1
      BY <3>1, FS_Interval
    <3>3. IsFiniteSet(1..a) /\ Cardinality(1..a) = a
      BY <3>1, <3>2
    <3> QED BY <3>3 DEF a
  <2> DEFINE h == [e \in 1..f[j] |-> <<j, e>>]
  <2>5. h \in Surjection(1..f[j], new) /\ h \in Injection(1..f[j], new)
    <3>1. h \in [1..f[j] -> new]
      OBVIOUS
    <3>2. \A t \in new : \E e \in 1..f[j] : h[e] = t
      OBVIOUS
    <3>3. \A a, b \in 1..f[j] : h[a] = h[b] => a = b
      OBVIOUS
    <3> HIDE DEF h, new
    <3> QED BY <3>1, <3>2, <3>3 DEF Surjection, Injection, IsInjective
  <2>6. IsFiniteSet(new) /\ Cardinality(new) = f[j]
    <3> HIDE DEF h, new
    <3> QED BY <2>4, <2>5, FS_Surjection
  <2>7. IsFiniteSet(old) /\ Cardinality(old) = Sum(f, j)
    BY <1>2
  <2>8. Sum(f, j + 1) = Sum(f, j) + f[j] /\ Sum(f, j) \in Nat
    BY SumSteps
  <2> HIDE DEF old, new
  <2>9. /\ IsFiniteSet(old \cup new)
        /\ Cardinality(old \cup new)
             = Cardinality(old) + Cardinality(new) - Cardinality(old \cap new)
    BY <2>6, <2>7, FS_Union
  <2>10. Cardinality(old \cap new) = 0
    BY <2>2, FS_EmptySet
  <2>11. Cardinality(old \cup new) = Sum(f, j + 1)
    BY <2>3, <2>6, <2>7, <2>8, <2>9, <2>10
  <2> QED BY <2>1, <2>9, <2>11
<1>3. \A j \in 1..m : g[j - 1] \in V => g[j] \in V
  <2> SUFFICES ASSUME NEW j \in 1..m, g[j - 1] \in V PROVE g[j] \in V
    OBVIOUS
  <2>1. j \in 0..m /\ j - 1 \in 0..m /\ j - 1 \in 0..(m - 1) /\ (j - 1) + 1 = j
    OBVIOUS
  <2>2. g[j - 1] = (IF good(j - 1) THEN 0 ELSE 1) /\ g[j] = (IF good(j) THEN 0 ELSE 1)
    BY <2>1
  <2>3. good(j - 1)
    <3> HIDE DEF g, good
    <3> QED BY <2>2
  <2>4. good(j)
    <3> HIDE DEF good
    <3> QED BY <1>2, <2>1, <2>3
  <2> HIDE DEF g, good
  <2> QED BY <2>2, <2>4
<1>4. g[n] \in V /\ g[n] = IF good(n) THEN 0 ELSE 1
  <2>1. \A j \in 0..m : g[j] \in V
    <3> HIDE DEF g, V
    <3> QED BY <1>1, <1>3, StaysIn
  <2> QED BY <2>1
<1> HIDE DEF g, good
<1>5. good(n)
  BY <1>4
<1> QED BY <1>5 DEF good

\* A sum in another order is no more; both ways, it is the same.
LEMMA SumRearranged ==
  ASSUME NEW m \in Nat, NEW f, NEW g, \A k \in 0..(m - 1) : f[k] \in Nat /\ g[k] \in Nat,
         NEW p \in [0..(m - 1) -> 0..(m - 1)],
         \A a, b \in 0..(m - 1) : p[a] = p[b] => a = b,
         \A k \in 0..(m - 1) : f[k] = g[p[k]]
  PROVE  Sum(f, m) <= Sum(g, m)
<1> DEFINE h == [x \in Units(f, m) |-> <<p[x[1]], x[2]>>]
<1>1. h \in [Units(f, m) -> Units(g, m)]
  <2> SUFFICES ASSUME NEW x \in Units(f, m) PROVE <<p[x[1]], x[2]>> \in Units(g, m)
    OBVIOUS
  <2>1. x[1] \in 0..(m - 1) /\ x[2] \in Nat /\ x[2] \in 1..f[x[1]]
    BY DEF Units
  <2>2. f[x[1]] = g[p[x[1]]] /\ p[x[1]] \in 0..(m - 1)
    BY <2>1
  <2> QED BY <2>1, <2>2 DEF Units
<1>2. ASSUME NEW x \in Units(f, m), NEW y \in Units(f, m), h[x] = h[y] PROVE x = y
  <2>1. /\ x \in (0..(m - 1)) \X Nat /\ y \in (0..(m - 1)) \X Nat
    BY DEF Units
  <2>2. p[x[1]] = p[y[1]] /\ x[2] = y[2]
    BY <1>2
  <2>3. x[1] = y[1]
    BY <2>1, <2>2
  <2> QED BY <2>1, <2>2, <2>3
<1> HIDE DEF h
<1>3. h \in Injection(Units(f, m), Units(g, m))
  BY <1>1, <1>2 DEF Injection, IsInjective
<1>4. /\ Cardinality(Units(f, m)) = Sum(f, m)
      /\ IsFiniteSet(Units(g, m)) /\ Cardinality(Units(g, m)) = Sum(g, m)
  <2>1. m \in 0..m
    OBVIOUS
  <2> QED BY <2>1, UnitsCounted
<1> QED BY <1>3, <1>4, FS_Injection
-----------------------------------------------------------------------------
\* The counts of global_scatter: what r receives at a place of its table is what
\* another rank sends, and the loops visit each place of the table once.
LEMMA Division ==
  ASSUME NEW k \in Nat, NEW e \in Nat \ {0}
  PROVE  /\ k \div e \in Nat /\ k % e \in 0..(e - 1)
         /\ k = (k \div e) * e + (k % e) /\ (k \div e) * e <= k
<1> DEFINE q == k \div e
           x == k % e
<1>1. q \in Nat /\ x \in 0..(e - 1) /\ k = q * e + x
  OBVIOUS
<1> HIDE DEF q, x
<1>2. q * e \in Nat
  BY <1>1, Multiples
<1> DEFINE a == q * e
<1>3. a <= k
  <2>1. k = a + x /\ a \in Nat /\ x \in Nat
    BY <1>1, <1>2
  <2> HIDE DEF a
  <2> QED BY <2>1
<1>4. q \in Nat /\ x \in 0..(e - 1) /\ k = q * e + x /\ q * e <= k
  BY <1>1, <1>3
<1> QED BY <1>4 DEF q, x

Table(c, r) ==
  /\ c.experts * NRanks \in Nat \ {0}
  /\ \A i \in 0..(c.experts - 1), j \in Rank :
       /\ i + j * c.experts \in 0..(c.experts * NRanks - 1)
       /\ (i + j * c.experts) \div c.experts = j
       /\ (i + j * c.experts) % c.experts = i
       /\ GlobalCount(c, r)[i + j * c.experts] = c.local[j][i + r * c.experts]
  /\ \A k \in 0..(c.experts * NRanks - 1) : GlobalCount(c, r)[k] \in Nat

\* What global_scatter reads of its counts: numbers, as many as its loops visit, and in
\* the order of its loops no more rows than the output has been allocated for.
LEMMA CountsOfScatter ==
  ASSUME NEW c, c.experts \in Nat \ {0},
         c.local \in [Rank -> [0..(c.experts * NRanks - 1) -> Nat]], NEW r \in Rank
  PROVE  Table(c, r)
<1> DEFINE E == c.experts
           M == E * NRanks
<1>1. E \in Nat \ {0} /\ NRanks \in Nat \ {0} /\ Rank = 0..(NRanks - 1)
  BY NRanksAssumption DEF Rank
<1>2. ASSUME NEW i \in 0..(E - 1), NEW j \in Rank
      PROVE /\ i + j * E \in 0..(M - 1)
            /\ (i + j * E) \div E = j
            /\ (i + j * E) % E = i
  <2>1. j \in Nat /\ j + 1 <= NRanks /\ j + 1 \in Nat
    BY <1>1
  <2> HIDE DEF E
  <2>2. (j + 1) * E <= NRanks * E /\ j * E \in Nat
    BY <1>1, <2>1, Multiples
  <2>3. (j + 1) * E = j * E + E /\ NRanks * E = M
    BY <1>1, <2>1
  <2>4. M \in Nat
    BY <1>1, Multiples
  <2>5. i + j * E \in 0..(M - 1)
    <3> DEFINE a == j * E
               b == (j + 1) * E
    <3>1. b <= M /\ a \in Nat /\ b = a + E /\ M \in Nat
      BY <2>2, <2>3, <2>4
    <3> HIDE DEF M, a, b
    <3>2. i + a \in 0..(M - 1)
      BY <1>1, <3>1
    <3> QED BY <3>2 DEF a
  <2> QED BY <1>1, <2>1, <2>5, DividedBack
<1>3. ASSUME NEW k \in 0..(M - 1)
      PROVE  k \div E \in Rank /\ (k % E) \in 0..(E - 1)
  <2> HIDE DEF E
  <2>1. M \in Nat /\ k \in Nat
    BY <1>1, Multiples
  <2> DEFINE q == k \div E
  <2>2. q \in Nat /\ k % E \in 0..(E - 1) /\ q * E <= k
    BY <1>1, <2>1, Division
  <2> HIDE DEF q
  <2>3. ~(NRanks <= q)
    <3> SUFFICES ASSUME NRanks <= q PROVE FALSE
      OBVIOUS
    <3>1. NRanks * E <= q * E
      BY <1>1, <2>2, Multiples
    <3> DEFINE a == q * E
    <3>2. M <= a /\ a <= k /\ a \in Nat
      <4>1. NRanks * E = M
        BY <1>1
      <4> HIDE DEF M
      <4> QED BY <1>1, <2>2, <3>1, <4>1, Multiples
    <3> HIDE DEF M, a
    <3> QED BY <2>1, <3>2
  <2> HIDE DEF M
  <2> QED BY <1>1, <2>2, <2>3 DEF q
<1>4. M \in Nat \ {0}
  <2> HIDE DEF E
  <2> QED BY <1>1
<1>5. GlobalCount(c, r) = [k \in 0..(M - 1) |-> c.local[k \div E][(k % E) + r * E]]
  BY DEF GlobalCount
<1>6. c.local \in [Rank -> [0..(M - 1) -> Nat]]
  OBVIOUS
<1> HIDE DEF E, M
<1>7. ASSUME NEW i \in 0..(E - 1), NEW j \in Rank
      PROVE  GlobalCount(c, r)[i + j * E] = c.local[j][i + r * E]
  <2>1. /\ i + j * E \in 0..(M - 1)
        /\ (i + j * E) \div E = j
        /\ (i + j * E) % E = i
    BY <1>2
  <2>2. GlobalCount(c, r)[i + j * E]
          = c.local[(i + j * E) \div E][((i + j * E) % E) + r * E]
    BY <1>5, <2>1
  <2> QED BY <2>1, <2>2
<1>8. ASSUME NEW k \in 0..(M - 1) PROVE GlobalCount(c, r)[k] \in Nat
  <2> DEFINE a == k \div E
             b == k % E
  <2>1. a \in Rank /\ b \in 0..(E - 1)
    BY <1>3
  <2>2. GlobalCount(c, r)[k] = c.local[a][b + r * E]
    BY <1>5
  <2> HIDE DEF a, b
  <2>3. b + r * E \in 0..(M - 1)
    BY <1>2, <2>1
  <2> QED BY <1>6, <2>1, <2>2, <2>3
<1> QED BY <1>2, <1>4, <1>7, <1>8 DEF E, M, Table
-----------------------------------------------------------------------------
\* Where the rows of global_scatter go in the tensor that receives them.
LEMMA RowsFit ==
  ASSUME NEW c, c.experts \in Nat \ {0},
         c.local \in [Rank -> [0..(c.experts * NRanks - 1) -> Nat]], NEW r \in Rank,
         NEW i \in 0..(c.experts - 1), NEW j \in Rank
  PROVE  /\ RecvPtr(c, r, i, j) \in Nat
         /\ RecvPtr(c, r, i, j) + GlobalCount(c, r)[i + j * c.experts]
              <= Sum(GlobalCount(c, r), c.experts * NRanks)
<1> DEFINE E == c.experts
           M == E * NRanks
           V == Visited(c, r)
           G == GlobalCount(c, r)
           at(k) == (k \div NRanks) + (k % NRanks) * E
           p == [k \in 0..(M - 1) |-> at(k)]
<1>1. E \in Nat \ {0} /\ NRanks \in Nat \ {0} /\ Rank = 0..(NRanks - 1) /\ M \in Nat
  BY NRanksAssumption, CountsOfScatter DEF Rank, Table
<1>2. /\ \A a \in 0..(E - 1), b \in Rank :
              /\ a + b * E \in 0..(M - 1)
              /\ (a + b * E) \div E = b
              /\ (a + b * E) % E = a
      /\ \A k \in 0..(M - 1) : G[k] \in Nat
  <2>1. /\ \A a \in 0..(c.experts - 1), b \in Rank :
              /\ a + b * c.experts \in 0..(c.experts * NRanks - 1)
              /\ (a + b * c.experts) \div c.experts = b
              /\ (a + b * c.experts) % c.experts = a
        /\ \A k \in 0..(c.experts * NRanks - 1) : GlobalCount(c, r)[k] \in Nat
    <3> HIDE DEF E, M, G, V, at, p
    <3>1. Table(c, r)
      BY CountsOfScatter
    <3> QED BY ONLY <3>1 DEF Table
  <2> QED BY <2>1
<1>17. i \in 0..(E - 1)
  OBVIOUS
<1>3. V = [k \in 0..(M - 1) |-> G[at(k)]]
  BY DEF Visited
<1>4. ASSUME NEW k \in 0..(M - 1)
      PROVE  k \div NRanks \in 0..(E - 1) /\ (k % NRanks) \in Rank
             /\ k = (k \div NRanks) * NRanks + (k % NRanks)
  <2> HIDE DEF E
  <2>1. k \in Nat /\ k < E * NRanks
    BY <1>1
  <2> DEFINE q == k \div NRanks
  <2>2. /\ q \in Nat /\ (k % NRanks) \in 0..(NRanks - 1) /\ q * NRanks <= k
        /\ k = q * NRanks + (k % NRanks)
    BY <1>1, <2>1, Division
  <2> HIDE DEF q
  <2>3. ~(E <= q)
    <3> SUFFICES ASSUME E <= q PROVE FALSE
      OBVIOUS
    <3>1. E * NRanks <= q * NRanks
      BY <1>1, <2>2, Multiples
    <3> DEFINE a == q * NRanks
               b == E * NRanks
    <3>2. b <= a /\ a <= k /\ k < b /\ a \in Nat /\ b \in Nat
      BY <1>1, <2>1, <2>2, <3>1, Multiples
    <3> HIDE DEF a, b
    <3> QED BY <2>1, <3>2
  <2> QED BY <1>1, <2>2, <2>3 DEF q
<1> HIDE DEF E, M, V, G
<1>5. p \in [0..(M - 1) -> 0..(M - 1)]
  <2> SUFFICES ASSUME NEW k \in 0..(M - 1) PROVE at(k) \in 0..(M - 1)
    OBVIOUS
  <2> QED BY <1>2, <1>4
<1>6. ASSUME NEW a \in 0..(M - 1), NEW b \in 0..(M - 1), p[a] = p[b] PROVE a = b
  <2>1. at(a) = at(b)
    BY <1>6
  <2> DEFINE qa == a \div NRanks
             xa == a % NRanks
             qb == b \div NRanks
             xb == b % NRanks
  <2>2. qa \in 0..(E - 1) /\ xa \in Rank /\ a = qa * NRanks + xa
    BY ONLY <1>4, a \in 0..(M - 1)
  <2>3. qb \in 0..(E - 1) /\ xb \in Rank /\ b = qb * NRanks + xb
    BY ONLY <1>4, b \in 0..(M - 1)
  <2>4. qa + xa * E = qb + xb * E
    BY <2>1
  <2> HIDE DEF qa, xa, qb, xb
  <2>5. xa = xb /\ qa = qb
    BY <1>2, <2>2, <2>3, <2>4
  <2> QED BY <2>2, <2>3, <2>5
<1>7. \A k \in 0..(M - 1) : V[k] = G[p[k]] /\ p[k] \in 0..(M - 1)
  BY <1>3, <1>5
<1>8. \A k \in 0..(M - 1) : V[k] \in Nat /\ G[k] \in Nat
  BY <1>2, <1>7
<1> HIDE DEF p
<1>9. Sum(V, M) <= Sum(G, M)
  BY <1>1, <1>5, <1>6, <1>7, <1>8, SumRearranged
<1> DEFINE k == j + i * NRanks
<1>10. k \div NRanks = i /\ k % NRanks = j
  <2>1. i \in Nat /\ j \in 0..(NRanks - 1)
    BY <1>1, <1>17
  <2> QED BY ONLY <1>1, <2>1, DividedBack
<1>11. k \in 0..(M - 1) /\ i * NRanks \in Nat
  <2>1. (i + 1) * NRanks <= E * NRanks /\ i * NRanks \in Nat /\ (i + 1) * NRanks \in Nat
    <3>1. i \in Nat /\ i + 1 \in Nat /\ i + 1 <= E /\ E \in Nat /\ NRanks \in Nat
      BY <1>1, <1>17
    <3> QED BY <3>1, Multiples
  <2> DEFINE a == i * NRanks
             b == (i + 1) * NRanks
  <2>2. b = a + NRanks /\ b <= M /\ M \in Nat /\ a \in Nat
    BY <1>1, <2>1 DEF M
  <2> HIDE DEF a, b
  <2>3. j + a \in 0..(M - 1)
    BY <1>1, <2>2
  <2> QED BY <2>1, <2>3 DEF a
<1>12. V[k] = G[i + j * E]
  BY <1>3, <1>10, <1>11
<1>13. Sum(V, k) \in Nat /\ Sum(V, k) + V[k] <= Sum(V, M)
  <2> HIDE DEF k
  <2> QED BY <1>1, <1>8, <1>11, PartWithinSum
<1>14. RecvPtr(c, r, i, j) = Sum(V, k)
  <2>1. i * NRanks + j = k
    BY <1>1, <1>11
  <2> HIDE DEF k
  <2> QED BY <2>1 DEF RecvPtr, V
<1>15. Sum(V, M) \in Nat /\ Sum(G, M) \in Nat /\ V[k] \in Nat
  <2>1. M \in 0..M
    BY <1>1
  <2>2. Sum(V, M) \in Nat
    BY <1>1, <1>8, <2>1, SumSteps
  <2>3. Sum(G, M) \in Nat
    BY <1>1, <1>8, <2>1, SumSteps
  <2> QED BY <1>8, <1>11, <2>2, <2>3
<1>16. Sum(V, k) + V[k] <= Sum(G, M)
  <2> DEFINE a == Sum(V, k)
             b == Sum(V, M)
             d == Sum(G, M)
             e == V[k]
  <2>1. a \in Nat /\ b \in Nat /\ d \in Nat /\ e \in Nat /\ a + e <= b /\ b <= d
    BY <1>9, <1>13, <1>15
  <2> HIDE DEF a, b, d, e, k
  <2>2. a + e <= d
    BY <2>1
  <2> QED BY <2>2 DEF a, d, e
<1> HIDE DEF k
<1> QED BY <1>12, <1>13, <1>14, <1>16 DEF E, M, G
-----------------------------------------------------------------------------
\* Streams and their labels.

\* The elements of two sequences, one behind the other.
LEMMA JoinedAt ==
  ASSUME NEW s, NEW t, IsSeq(s), IsSeq(t)
  PROVE  /\ IsSeq(s \o t) /\ Len(s) \in Nat /\ Len(t) \in Nat /\ Len(s \o t) = Len(s) + Len(t)
         /\ \A i \in 1..Len(s) : (s \o t)[i] = s[i]
         /\ \A i \in 1..Len(t) : (s \o t)[Len(s) + i] = t[i]
<1> DEFINE S == ToSet(s) \cup ToSet(t)
<1>1. s \in Seq(S) /\ t \in Seq(S) /\ IsSeq(s \o t)
  BY ConcatIsSeq DEF IsSeq
<1> HIDE DEF S
<1>2. Len(s) \in Nat /\ Len(t) \in Nat
  BY <1>1, LenProperties
<1>3. /\ Len(s \o t) = Len(s) + Len(t)
      /\ \A i \in 1..Len(s) + Len(t) : (s \o t)[i] = IF i <= Len(s) THEN s[i] ELSE t[i - Len(s)]
  BY <1>1, ConcatProperties
<1>4. ASSUME NEW i \in 1..Len(s) PROVE (s \o t)[i] = s[i]
  BY <1>2, <1>3
<1>5. ASSUME NEW i \in 1..Len(t) PROVE (s \o t)[Len(s) + i] = t[i]
  <2>1. Len(s) + i \in 1..Len(s) + Len(t) /\ ~(Len(s) + i <= Len(s)) /\ Len(s) + i - Len(s) = i
    BY <1>2
  <2> QED BY <1>3, <2>1
<1> QED BY <1>1, <1>2, <1>3, <1>4, <1>5

\* Groups launched later, with labels that come later.
LEMMA AppendLabelled ==
  ASSUME NEW r, NEW groups, NEW labels, Labelled(r, groups, labels),
         NEW t, NEW tl, Labelled(r, t, tl),
         \A i \in 1..Len(groups), j \in 1..Len(t) : Before(labels[i], tl[j])
  PROVE  /\ Labelled(r, groups \o t, labels \o tl)
         /\ \A channel, c, k : InStream(groups \o t, labels \o tl, channel, c, k)
              <=> InStream(groups, labels, channel, c, k) \/ InStream(t, tl, channel, c, k)
<1> DEFINE g2 == groups \o t
           l2 == labels \o tl
           n == Len(groups)
           m == Len(t)
<1>1. IsSeq(groups) /\ IsSeq(t) /\ labels \in Seq(Nat \X Nat) /\ tl \in Seq(Nat \X Nat)
      /\ Len(labels) = n /\ Len(tl) = m
  BY DEF Labelled
<1>2. /\ IsSeq(g2) /\ n \in Nat /\ m \in Nat /\ Len(g2) = n + m
      /\ \A i \in 1..n : g2[i] = groups[i]
      /\ \A i \in 1..m : g2[n + i] = t[i]
  BY <1>1, JoinedAt
<1>3. /\ l2 \in Seq(Nat \X Nat) /\ Len(l2) = n + m
      /\ \A i \in 1..n : l2[i] = labels[i]
      /\ \A i \in 1..m : l2[n + i] = tl[i]
  <2>1. IsSeq(labels) /\ IsSeq(tl)
    BY <1>1, SeqOfSet
  <2>2. labels \o tl \in Seq(Nat \X Nat)
    BY <1>1, ConcatProperties
  <2> QED BY <1>1, <2>1, <2>2, JoinedAt
<1>4. \A i \in 1..n : GroupFits(r, labels[i][1], labels[i][2], groups[i])
  BY DEF Labelled
<1>5. \A i \in 1..m : GroupFits(r, tl[i][1], tl[i][2], t[i])
  BY DEF Labelled
<1>6. \A i, j \in 1..n : i < j => Before(labels[i], labels[j])
  BY DEF Labelled
<1>7. \A i, j \in 1..m : i < j => Before(tl[i], tl[j])
  BY DEF Labelled
<1>8. \A i \in 1..n, j \in 1..m : Before(labels[i], tl[j])
  OBVIOUS
<1> HIDE DEF g2, l2, n, m
<1>9. \A i \in 1..(n + m) : i \in 1..n \/ (\E j \in 1..m : i = n + j)
  <2> SUFFICES ASSUME NEW i \in 1..(n + m), i \notin 1..n PROVE \E j \in 1..m : i = n + j
    OBVIOUS
  <2>1. i - n \in 1..m /\ i = n + (i - n)
    BY <1>2
  <2> QED BY <2>1
<1>10. ASSUME NEW i \in 1..(n + m) PROVE GroupFits(r, l2[i][1], l2[i][2], g2[i])
  <2>1. CASE i \in 1..n
    BY <1>2, <1>3, <1>4, <2>1
  <2>2. ASSUME NEW j \in 1..m, i = n + j PROVE GroupFits(r, l2[i][1], l2[i][2], g2[i])
    BY <1>2, <1>3, <1>5, <2>2
  <2> QED BY <1>9, <2>1, <2>2
<1>11. ASSUME NEW i \in 1..(n + m), NEW j \in 1..(n + m), i < j PROVE Before(l2[i], l2[j])
  <2>1. CASE j \in 1..n
    <3>1. i \in 1..n
      BY <1>2, <1>11, <2>1
    <3> QED BY <1>3, <1>6, <1>11, <2>1, <3>1
  <2>2. ASSUME NEW b \in 1..m, j = n + b PROVE Before(l2[i], l2[j])
    <3>1. CASE i \in 1..n
      BY <1>3, <1>8, <2>2, <3>1
    <3>2. ASSUME NEW a \in 1..m, i = n + a PROVE Before(l2[i], l2[j])
      <4>1. a < b
        BY <1>2, <1>11, <2>2, <3>2
      <4> QED BY <1>3, <1>7, <2>2, <3>2, <4>1
    <3> QED BY <1>9, <3>1, <3>2
  <2> QED BY <1>9, <2>1, <2>2
<1>12. Labelled(r, g2, l2)
  BY <1>2, <1>3, <1>10, <1>11 DEF Labelled
<1>13. ASSUME NEW channel, NEW c, NEW k
       PROVE  InStream(g2, l2, channel, c, k)
                <=> InStream(groups, labels, channel, c, k) \/ InStream(t, tl, channel, c, k)
  <2>1. ASSUME InStream(g2, l2, channel, c, k)
        PROVE  InStream(groups, labels, channel, c, k) \/ InStream(t, tl, channel, c, k)
    <3>1. PICK i \in 1..(n + m) : l2[i] = <<c, k>> /\ \E e \in g2[i] : Channel(e.op) = channel
      BY <1>2, <2>1 DEF InStream
    <3>2. CASE i \in 1..n
      BY <1>2, <1>3, <3>1, <3>2 DEF InStream, n
    <3>3. ASSUME NEW j \in 1..m, i = n + j PROVE InStream(t, tl, channel, c, k)
      <4>1. tl[j] = <<c, k>> /\ \E e \in t[j] : Channel(e.op) = channel
        BY <1>2, <1>3, <3>1, <3>3
      <4> QED BY <4>1 DEF InStream, m
    <3> QED BY <1>9, <3>2, <3>3
  <2>2. ASSUME InStream(groups, labels, channel, c, k) PROVE InStream(g2, l2, channel, c, k)
    <3>1. PICK i \in 1..n : labels[i] = <<c, k>> /\ \E e \in groups[i] : Channel(e.op) = channel
      BY <2>2 DEF InStream, n
    <3>2. i \in 1..(n + m)
      BY <1>2
    <3> QED BY <1>2, <1>3, <3>1, <3>2 DEF InStream
  <2>3. ASSUME InStream(t, tl, channel, c, k) PROVE InStream(g2, l2, channel, c, k)
    <3>1. PICK j \in 1..m : tl[j] = <<c, k>> /\ \E e \in t[j] : Channel(e.op) = channel
      BY <2>3 DEF InStream, m
    <3>2. n + j \in 1..(n + m) /\ l2[n + j] = tl[j] /\ g2[n + j] = t[j]
      <4>1. n + j \in 1..(n + m)
        BY <1>2
      <4> QED BY <1>2, <1>3, <4>1
    <3>3. l2[n + j] = <<c, k>> /\ \E e \in g2[n + j] : Channel(e.op) = channel
      BY <3>1, <3>2
    <3> QED BY <1>2, <3>2, <3>3 DEF InStream
  <2> QED BY <2>1, <2>2, <2>3
<1> QED BY <1>12, <1>13 DEF g2, l2
-----------------------------------------------------------------------------
\* What is left when operations of the first group are done: the group goes when all
\* of its are.
Shifted(groups, labels, done, groups2, labels2, n) ==
  /\ n \in {0, 1} /\ IsSeq(groups2) /\ labels2 \in Seq(Nat \X Nat) /\ Len(labels2) = Len(groups2)
  /\ Len(groups) \in Nat \ {0} /\ Len(groups2) \in Nat /\ Len(groups2) = Len(groups) - n
  /\ \A i \in 1..Len(groups2) :
       /\ labels2[i] = labels[i + n]
       /\ groups2[i] = IF i + n = 1 THEN groups[1] \ done ELSE groups[i + n]
  /\ n = 1 => groups[1] \subseteq done

\* The first group has left the stream.
LEMMA TailShifts ==
  ASSUME NEW r, NEW groups, NEW labels, Labelled(r, groups, labels), groups # <<>>,
         NEW done, groups[1] \subseteq done
  PROVE  Shifted(groups, labels, done, Tail(groups), Tail(labels), 1)
<1>1. groups \in Seq(ToSet(groups)) /\ labels \in Seq(Nat \X Nat) /\ Len(labels) = Len(groups)
  BY DEF Labelled, IsSeq
<1>2. Len(groups) \in Nat \ {0} /\ labels # <<>>
  BY <1>1, EmptySeq
<1>3. /\ IsSeq(Tail(groups)) /\ Tail(groups) \in Seq(ToSet(groups))
      /\ Len(Tail(groups)) = Len(groups) - 1
      /\ \A i \in 1..Len(Tail(groups)) : Tail(groups)[i] = groups[i + 1]
  <2> HIDE DEF ToSet
  <2>1. IsSeq(groups)
    BY DEF Labelled
  <2> QED BY <1>1, <2>1, TailIsSeq, HeadTailProperties
<1>4. /\ Tail(labels) \in Seq(Nat \X Nat) /\ Len(Tail(labels)) = Len(labels) - 1
      /\ \A i \in 1..Len(Tail(labels)) : Tail(labels)[i] = labels[i + 1]
  BY <1>1, <1>2, HeadTailProperties
<1> DEFINE m == Len(groups)
           g2 == Tail(groups)
           l2 == Tail(labels)
<1>5. /\ m \in Nat \ {0} /\ Len(g2) = m - 1 /\ Len(l2) = m - 1 /\ Len(g2) \in Nat
      /\ IsSeq(g2) /\ l2 \in Seq(Nat \X Nat)
      /\ \A i \in 1..Len(g2) : g2[i] = groups[i + 1] /\ l2[i] = labels[i + 1]
  BY <1>1, <1>2, <1>3, <1>4
<1> HIDE DEF g2, l2
<1>6. \A i \in 1..Len(g2) : i + 1 # 1
  BY <1>5
<1> QED BY <1>5, <1>6 DEF Shifted, g2, l2

\* Operations of the first group are done; it may be left with others.
LEMMA WithoutShifts ==
  ASSUME NEW r, NEW groups, NEW labels, Labelled(r, groups, labels), groups # <<>>, NEW done
  PROVE  \E n : Shifted(groups, labels, done, Without(groups, done),
                        IF Head(groups) \ done = {} THEN Tail(labels) ELSE labels, n)
<1>1. groups \in Seq(ToSet(groups)) /\ labels \in Seq(Nat \X Nat) /\ Len(labels) = Len(groups)
  BY DEF Labelled, IsSeq
<1>2. Len(groups) \in Nat \ {0} /\ Head(groups) = groups[1]
  BY <1>1, EmptySeq
<1> DEFINE rest == Head(groups) \ done
<1>3. CASE rest = {}
  <2>1. Shifted(groups, labels, done, Tail(groups), Tail(labels), 1)
    BY <1>2, <1>3, TailShifts
  <2> QED BY <1>3, <2>1 DEF Without
<1>4. CASE rest # {}
  <2> DEFINE g2 == <<rest>> \o Tail(groups)
  <2>1. Without(groups, done) = g2
    BY <1>4 DEF Without
  <2>2. /\ IsSeq(Tail(groups)) /\ Len(Tail(groups)) = Len(groups) - 1
        /\ \A i \in 1..Len(Tail(groups)) : Tail(groups)[i] = groups[i + 1]
    <3> HIDE DEF ToSet
    <3>1. IsSeq(groups)
      BY DEF Labelled
    <3> QED BY <1>1, <3>1, TailIsSeq, HeadTailProperties
  <2>3. IsSeq(<<rest>>) /\ Len(<<rest>>) = 1 /\ <<rest>>[1] = rest
    <3> HIDE DEF rest
    <3> QED BY OneIsSeq
  <2> DEFINE m == Len(groups)
             t == Tail(groups)
             h == <<rest>>
  <2>4. m \in Nat \ {0} /\ Len(t) = m - 1 /\ IsSeq(t) /\ IsSeq(h) /\ Len(h) = 1 /\ h[1] = rest
        /\ \A i \in 1..Len(t) : t[i] = groups[i + 1]
    BY <1>2, <2>2, <2>3
  <2>5. rest = groups[1] \ done
    BY <1>2
  <2> HIDE DEF t, h, rest
  <2>6. /\ IsSeq(h \o t) /\ Len(h \o t) = m /\ (h \o t)[1] = rest
        /\ \A i \in 1..Len(t) : (h \o t)[1 + i] = t[i]
    <3>1. /\ IsSeq(h \o t) /\ Len(h \o t) = Len(h) + Len(t)
          /\ \A i \in 1..Len(h) : (h \o t)[i] = h[i]
          /\ \A i \in 1..Len(t) : (h \o t)[Len(h) + i] = t[i]
      <4>1. IsSeq(h) /\ IsSeq(t)
        BY <2>4
      <4> QED BY ONLY <4>1, JoinedAt
    <3>2. 1 \in 1..Len(h)
      BY <2>4
    <3>3. Len(h \o t) = m
      BY <2>4, <3>1
    <3> QED BY <2>4, <3>1, <3>2, <3>3
  <2>7. ASSUME NEW i \in 1..m
        PROVE  (h \o t)[i] = IF i + 0 = 1 THEN groups[1] \ done ELSE groups[i + 0]
    <3>1. CASE i = 1
      BY <2>5, <2>6, <3>1
    <3>2. CASE i # 1
      <4>1. i - 1 \in 1..Len(t) /\ 1 + (i - 1) = i /\ (i - 1) + 1 = i /\ i + 0 = i
        BY <2>4, <3>2
      <4> QED BY <2>4, <2>6, <3>2, <4>1
    <3> QED BY <3>1, <3>2
  <2>8. \A i \in 1..m : i + 0 = i
    BY <2>4
  <2>9. Shifted(groups, labels, done, h \o t, labels, 0)
    <3> DEFINE gg == h \o t
    <3>1. /\ IsSeq(gg) /\ Len(gg) = m /\ m \in Nat \ {0}
          /\ \A i \in 1..m : gg[i] = IF i + 0 = 1 THEN groups[1] \ done ELSE groups[i + 0]
      BY <2>4, <2>6, <2>7
    <3>2. Len(groups) = m /\ Len(labels) = m /\ m - 0 = m /\ labels \in Seq(Nat \X Nat)
      BY <1>1, <2>4
    <3> HIDE DEF gg, m
    <3>3. \A i \in 1..m : labels[i] = labels[i + 0]
      BY <2>8
    <3>4. Shifted(groups, labels, done, gg, labels, 0)
      BY <3>1, <3>2, <3>3 DEF Shifted
    <3> QED BY <3>4 DEF gg
  <2> QED BY <1>4, <2>1, <2>9 DEF h, t, rest
<1> QED BY <1>3, <1>4
-----------------------------------------------------------------------------
\* What is left of a group is still of the same call and step.
LEMMA FewerFit ==
  ASSUME NEW r, NEW c, NEW k, NEW group, GroupFits(r, c, k, group), NEW part, part \subseteq group
  PROVE  GroupFits(r, c, k, part)
<1>1. /\ c \in DOMAIN program[r] /\ k \in Nat
      /\ \A e \in group : Fits(r, c, k, e.op)
      /\ \A e, f \in group : Channel(e.op) = Channel(f.op) => e = f
      /\ \A e \in group : Channel(e.op)[1] \in {"all", "own"} => group = {e}
  BY DEF GroupFits
<1>2. \A e \in part : Channel(e.op)[1] \in {"all", "own"} => part = {e}
  BY <1>1
<1> QED BY <1>1, <1>2 DEF GroupFits

\* The labels stay those of the groups when a stream moves on.
LEMMA ShiftedLabelled ==
  ASSUME NEW r, NEW groups, NEW labels, Labelled(r, groups, labels),
         NEW done, NEW groups2, NEW labels2, NEW n,
         Shifted(groups, labels, done, groups2, labels2, n)
  PROVE  Labelled(r, groups2, labels2)
<1>1. /\ n \in {0, 1} /\ IsSeq(groups2) /\ labels2 \in Seq(Nat \X Nat) /\ Len(labels2) = Len(groups2)
      /\ Len(groups) \in Nat /\ Len(groups2) \in Nat /\ Len(groups2) = Len(groups) - n
      /\ \A i \in 1..Len(groups2) :
           /\ labels2[i] = labels[i + n]
           /\ groups2[i] = IF i + n = 1 THEN groups[1] \ done ELSE groups[i + n]
  BY DEF Shifted
<1>2. \A i \in 1..Len(groups2) : i + n \in 1..Len(groups)
  BY <1>1
<1>3. ASSUME NEW i \in 1..Len(groups2)
      PROVE  GroupFits(r, labels2[i][1], labels2[i][2], groups2[i])
  <2>1. GroupFits(r, labels[i + n][1], labels[i + n][2], groups[i + n])
    BY <1>2 DEF Labelled
  <2>2. groups2[i] \subseteq groups[i + n]
    BY <1>1, <1>2
  <2> QED BY <1>1, <2>1, <2>2, FewerFit
<1>4. ASSUME NEW i \in 1..Len(groups2), NEW j \in 1..Len(groups2), i < j
      PROVE  Before(labels2[i], labels2[j])
  <2>1. i + n < j + n /\ i + n \in 1..Len(groups) /\ j + n \in 1..Len(groups)
    BY <1>1, <1>2, <1>4
  <2>2. Before(labels[i + n], labels[j + n])
    BY <2>1 DEF Labelled
  <2> QED BY <1>1, <2>2
<1> QED BY <1>1, <1>3, <1>4 DEF Labelled

\* A stream that moves on loses for a channel what was done of it and nothing else.
LEMMA ShiftedInStream ==
  ASSUME NEW r, NEW groups, NEW labels, Labelled(r, groups, labels),
         NEW done, NEW groups2, NEW labels2, NEW n,
         Shifted(groups, labels, done, groups2, labels2, n),
         NEW channel, NEW c, NEW k
  PROVE  InStream(groups2, labels2, channel, c, k)
           <=> /\ InStream(groups, labels, channel, c, k)
               /\ ~(<<c, k>> = labels[1] /\ \E e \in groups[1] \cap done : Channel(e.op) = channel)
<1>1. /\ n \in {0, 1} /\ labels \in Seq(Nat \X Nat) /\ Len(labels) = Len(groups)
      /\ Len(groups) \in Nat \ {0} /\ Len(groups2) \in Nat /\ Len(groups2) = Len(groups) - n
      /\ \A i \in 1..Len(groups2) :
           /\ labels2[i] = labels[i + n]
           /\ groups2[i] = IF i + n = 1 THEN groups[1] \ done ELSE groups[i + n]
      /\ n = 1 => groups[1] \subseteq done
  BY DEF Shifted, Labelled
<1>2. \A i \in 1..Len(groups2) : i + n \in 1..Len(groups)
  BY <1>1
<1>3. \A i \in 1..Len(groups) : labels[i] = labels[1] => i = 1
  <2> SUFFICES ASSUME NEW i \in 1..Len(groups), labels[i] = labels[1], i # 1 PROVE FALSE
    OBVIOUS
  <2>1. 1 < i /\ 1 \in 1..Len(groups)
    BY <1>1
  <2>2. Before(labels[1], labels[i])
    BY <2>1 DEF Labelled
  <2>3. labels[1] \in Nat \X Nat
    BY <1>1, <2>1, ElementOfSeq
  <2> QED BY <2>2, <2>3 DEF Before
<1>4. \A e, f \in groups[1] : Channel(e.op) = Channel(f.op) => e = f
  <2>1. 1 \in 1..Len(groups)
    BY <1>1
  <2> QED BY <2>1 DEF Labelled, GroupFits
<1> DEFINE Gone == <<c, k>> = labels[1] /\ \E e \in groups[1] \cap done : Channel(e.op) = channel
<1>5. ASSUME InStream(groups2, labels2, channel, c, k)
      PROVE  InStream(groups, labels, channel, c, k) /\ ~Gone
  <2>1. PICK i \in 1..Len(groups2) : labels2[i] = <<c, k>>
                                     /\ \E e \in groups2[i] : Channel(e.op) = channel
    BY <1>5 DEF InStream
  <2>2. PICK e \in groups2[i] : Channel(e.op) = channel
    BY <2>1
  <2>3. i + n \in 1..Len(groups) /\ labels[i + n] = <<c, k>> /\ e \in groups[i + n]
    BY <1>1, <1>2, <2>1, <2>2
  <2>4. InStream(groups, labels, channel, c, k)
    BY <2>2, <2>3 DEF InStream
  <2>5. ASSUME Gone PROVE FALSE
    <3>1. i + n = 1
      BY <1>3, <2>3, <2>5
    <3>2. e \in groups[1] /\ e \notin done
      BY <1>1, <2>2, <3>1
    <3> QED BY <1>4, <2>2, <2>5, <3>2
  <2> QED BY <2>4, <2>5
<1>6. ASSUME InStream(groups, labels, channel, c, k), ~Gone
      PROVE  InStream(groups2, labels2, channel, c, k)
  <2>1. PICK i \in 1..Len(groups) : labels[i] = <<c, k>>
                                    /\ \E e \in groups[i] : Channel(e.op) = channel
    BY <1>6 DEF InStream
  <2>2. PICK e \in groups[i] : Channel(e.op) = channel
    BY <2>1
  <2>3. i = 1 => e \notin done
    BY <1>6, <2>1, <2>2
  <2>4. i - n \in 1..Len(groups2) /\ (i - n) + n = i
    BY <1>1, <2>2, <2>3
  <2>5. labels2[i - n] = <<c, k>> /\ e \in groups2[i - n]
    BY <1>1, <2>1, <2>2, <2>3, <2>4
  <2> QED BY <2>2, <2>4, <2>5 DEF InStream
<1> QED BY <1>5, <1>6

\* The first group has what is before all that is pending.
LEMMA FirstIsLeast ==
  ASSUME NEW r, NEW groups, NEW labels, Labelled(r, groups, labels),
         NEW channel, NEW c, NEW k, InStream(groups, labels, channel, c, k)
  PROVE  /\ 1 \in 1..Len(groups) /\ labels[1] \in Nat \X Nat /\ ~Before(<<c, k>>, labels[1])
<1>1. /\ labels \in Seq(Nat \X Nat) /\ Len(labels) = Len(groups) /\ Len(groups) \in Nat
      /\ \A i, j \in 1..Len(groups) : i < j => Before(labels[i], labels[j])
  <2>1. labels \in Seq(Nat \X Nat) /\ Len(labels) = Len(groups)
    BY DEF Labelled
  <2>2. Len(labels) \in Nat
    BY <2>1, LenProperties
  <2> QED BY <2>1, <2>2 DEF Labelled
<1>2. PICK i \in 1..Len(groups) : labels[i] = <<c, k>>
  BY DEF InStream
<1>3. 1 \in 1..Len(groups)
  BY <1>1
<1>4. labels[1] \in Nat \X Nat /\ labels[i] \in Nat \X Nat
  BY <1>1, <1>3, ElementOfSeq
<1>5. i = 1 \/ Before(labels[1], labels[i])
  BY <1>1, <1>3
<1> QED BY <1>2, <1>3, <1>4, <1>5 DEF Before
-----------------------------------------------------------------------------
\* The least of what is left for a channel.
LeastLeft(labels, r, channel, a) ==
  /\ a \in Nat \X Nat
  /\ Left(labels, r, channel, a[1], a[2])
  /\ \A c \in Concerned(r, channel), k \in Nat : Left(labels, r, channel, c, k) => ~Before(<<c, k>>, a)

\* The heart of the argument: the ends of a channel have the same calls and steps left,
\* so the first of one end is paired with the first of the other.
LEMMA LeastMeet ==
  ASSUME NEW r, NEW s, NEW channel1, NEW channel2, NEW labels, NEW a, NEW b,
         Agree(labels, r, channel1, s, channel2),
         LeastLeft(labels, r, channel1, a), LeastLeft(labels, s, channel2, b),
         Concerned(r, channel1) \subseteq Nat, Concerned(s, channel2) \subseteq Nat,
         NEW m \in Pairings(program[r], program[s], Concerned(r, channel1), Concerned(s, channel2))
  PROVE  a[1] \in Concerned(r, channel1) /\ m[a[1]] = b[1] /\ a[2] = b[2]
<1> DEFINE A == Concerned(r, channel1)
           B == Concerned(s, channel2)
<1>1. /\ m \in [A -> B] /\ \A y \in B : \E x \in A : m[x] = y
      /\ \A x, y \in A : x < y => m[x] < m[y]
  BY DEF Pairings
<1>2. \A c \in A, k \in Nat : Left(labels, r, channel1, c, k) <=> Left(labels, s, channel2, m[c], k)
  BY DEF Agree
<1>3. /\ a \in Nat \X Nat /\ b \in Nat \X Nat
      /\ Left(labels, r, channel1, a[1], a[2]) /\ Left(labels, s, channel2, b[1], b[2])
      /\ \A c \in A, k \in Nat : Left(labels, r, channel1, c, k) => ~Before(<<c, k>>, a)
      /\ \A c \in B, k \in Nat : Left(labels, s, channel2, c, k) => ~Before(<<c, k>>, b)
  BY DEF LeastLeft
<1>4. a[1] \in A /\ b[1] \in B
  BY <1>3 DEF Left, Messages
<1> HIDE DEF A, B
<1>5. A \subseteq Nat /\ B \subseteq Nat
  BY DEF A, B
<1>6. PICK x \in A : m[x] = b[1]
  BY <1>1, <1>4
<1>7. a[1] \in Nat /\ a[2] \in Nat /\ b[1] \in Nat /\ b[2] \in Nat /\ x \in Nat /\ m[a[1]] \in Nat
  BY <1>1, <1>3, <1>4, <1>5
<1>8. ~Before(<<x, b[2]>>, a)
  BY <1>2, <1>3, <1>6, <1>7
<1>9. ~Before(<<m[a[1]], a[2]>>, b)
  BY <1>1, <1>2, <1>3, <1>4, <1>7
<1>10. ~(a[1] < x)
  <2> SUFFICES ASSUME a[1] < x PROVE FALSE
    OBVIOUS
  <2>1. m[a[1]] < b[1]
    BY <1>1, <1>4, <1>6
  <2> QED BY <1>9, <2>1 DEF Before
<1>11. ~(x < a[1])
  BY <1>8 DEF Before
<1>12. x = a[1]
  BY <1>7, <1>10, <1>11
<1>13. ~(b[2] < a[2]) /\ ~(a[2] < b[2])
  BY <1>6, <1>8, <1>9, <1>12 DEF Before
<1> QED BY <1>4, <1>6, <1>7, <1>12, <1>13 DEF A

\* The two ends of a channel go on together.
LEMMA AgreeGoesOn ==
  ASSUME NEW r, NEW s, NEW channel1, NEW channel2, NEW labels, NEW labels2,
         NEW a, NEW b, NEW removed \in BOOLEAN,
         Agree(labels, r, channel1, s, channel2), program' = program,
         Concerned(r, channel1) \subseteq Nat, Concerned(s, channel2) \subseteq Nat,
         removed => LeastLeft(labels, r, channel1, a) /\ LeastLeft(labels, s, channel2, b),
         \A c \in Concerned(r, channel1), k \in Nat : Left(labels2, r, channel1, c, k)'
             <=> Left(labels, r, channel1, c, k) /\ ~(removed /\ <<c, k>> = a),
         \A c \in Concerned(s, channel2), k \in Nat : Left(labels2, s, channel2, c, k)'
             <=> Left(labels, s, channel2, c, k) /\ ~(removed /\ <<c, k>> = b)
  PROVE  Agree(labels2, r, channel1, s, channel2)'
<1> DEFINE A == Concerned(r, channel1)
           B == Concerned(s, channel2)
<1>1. A' = A /\ B' = B
  BY DEF Concerned
<1> SUFFICES ASSUME NEW m \in Pairings(program[r], program[s], A, B), NEW c \in A, NEW k \in Nat
             PROVE  Left(labels2, r, channel1, c, k)' <=> Left(labels2, s, channel2, m[c], k)'
  BY <1>1 DEF Agree
<1>2. Left(labels, r, channel1, c, k) <=> Left(labels, s, channel2, m[c], k)
  BY DEF Agree
<1>3. /\ m \in [A -> B] /\ \A x, y \in A : x < y => m[x] < m[y]
  BY DEF Pairings
<1>4. ASSUME removed PROVE <<c, k>> = a <=> <<m[c], k>> = b
  <2>1. a[1] \in A /\ m[a[1]] = b[1] /\ a[2] = b[2] /\ a \in Nat \X Nat /\ b \in Nat \X Nat
    <3>1. LeastLeft(labels, r, channel1, a) /\ LeastLeft(labels, s, channel2, b)
      BY <1>4
    <3>2. a \in Nat \X Nat /\ b \in Nat \X Nat
      BY <3>1 DEF LeastLeft
    <3> QED BY <3>1, <3>2, LeastMeet
  <2>2. m[c] = b[1] => c = a[1]
    <3>1. m[c] \in Nat /\ c \in Nat /\ a[1] \in Nat /\ m[a[1]] \in Nat
      BY <1>3, <2>1
    <3>2. c < a[1] => m[c] < m[a[1]]
      BY <1>3, <2>1
    <3>3. a[1] < c => m[a[1]] < m[c]
      BY <1>3, <2>1
    <3> HIDE DEF A, B
    <3> QED BY <2>1, <3>1, <3>2, <3>3
  <2> HIDE DEF A, B
  <2> QED BY <2>1, <2>2
<1>5. m[c] \in B
  BY <1>3
<1> QED BY <1>2, <1>4, <1>5
-----------------------------------------------------------------------------
\* The invariant, by parts.

Ends(r, channel1, s, channel2) ==
  \/ channel1 = <<"send", s>> /\ channel2 = <<"recv", r>>
  \/ channel1 = <<"all", 0>> /\ channel2 = <<"all", 0>>

\* What is assumed of the programs, of the one that runs.
Framework ==
  /\ \A r \in Rank :
       /\ DOMAIN program[r] = 1..Len(program[r]) /\ Len(program[r]) \in Nat
       /\ \A c \in DOMAIN program[r] : WellFormed(program[r][c])
       /\ \A channel : Concerned(r, channel) \subseteq DOMAIN program[r]
  /\ \A r, s \in Rank : \A channel1, channel2 : Ends(r, channel1, s, channel2) =>
       Pairings(program[r], program[s], Concerned(r, channel1), Concerned(s, channel2)) # {}

\* What ProgramsAssumption says of the programs at hand.
LEMMA FrameworkKept ==
  ASSUME program \in Programs PROVE Framework
<1>1. ASSUME NEW r \in Rank
      PROVE  /\ DOMAIN program[r] = 1..Len(program[r]) /\ Len(program[r]) \in Nat
             /\ \A c \in DOMAIN program[r] : WellFormed(program[r][c])
  <2>1. program[r] \in Seq(Range(program[r])) /\ \A c \in DOMAIN program[r] : WellFormed(program[r][c])
    BY ProgramsAssumption
  <2> QED BY <2>1, LenProperties
<1>2. ASSUME NEW r \in Rank, NEW channel PROVE Concerned(r, channel) \subseteq DOMAIN program[r]
  BY DEF Concerned, Sending, Receiving, Joining
<1>3. ASSUME NEW r \in Rank, NEW s \in Rank, NEW channel1, NEW channel2, Ends(r, channel1, s, channel2)
      PROVE  Pairings(program[r], program[s], Concerned(r, channel1), Concerned(s, channel2)) # {}
  <2>1. /\ Pairings(program[r], program[s], Sending(program[r], s), Receiving(program[s], r)) # {}
        /\ Pairings(program[r], program[s], Joining(program[r]), Joining(program[s])) # {}
    BY ProgramsAssumption
  <2>2. CASE channel1 = <<"send", s>> /\ channel2 = <<"recv", r>>
    <3>1. Concerned(r, channel1) = Sending(program[r], s) /\ Concerned(s, channel2) = Receiving(program[s], r)
      BY <2>2 DEF Concerned
    <3> QED BY <2>1, <3>1
  <2>3. CASE channel1 = <<"all", 0>> /\ channel2 = <<"all", 0>>
    <3>1. Concerned(r, channel1) = Joining(program[r]) /\ Concerned(s, channel2) = Joining(program[s])
      BY <2>3 DEF Concerned
    <3> QED BY <2>1, <3>1
  <2> QED BY <1>3, <2>2, <2>3 DEF Ends
<1> QED BY <1>1, <1>2, <1>3 DEF Framework

\* What the invariant says of one rank, and of two.
OfRank(labels, r) ==
  /\ received[r] = [b \in 0..Len(program[r]) |-> received[r][b]]
  /\ Labelled(r, stream[r], labels[r])
  /\ \A i \in 1..Len(stream[r]) : ~Ahead(r, labels[r][i][1], labels[r][i][2])
  /\ Reductions(r, stream[r], labels[r], received[r])
  /\ Buffers(r) /\ Counters(r) /\ Shapes(r, labels[r])

\* The invariant by ranks and by channels.
LEMMA InvParts ==
  ASSUME NEW labels, CountsInv(labels)
  PROVE  /\ Framework /\ program \in Programs
         /\ DOMAIN stream = Rank /\ DOMAIN received = Rank /\ DOMAIN call = Rank /\ DOMAIN step = Rank
         /\ stream = [r \in Rank |-> stream[r]] /\ received = [r \in Rank |-> received[r]]
         /\ \A r \in Rank : OfRank(labels, r)
         /\ \A r, s \in Rank : \A channel1, channel2 : Ends(r, channel1, s, channel2) =>
              Agree(labels, r, channel1, s, channel2)
<1>1. \A r \in Rank : OfRank(labels, r)
  BY DEF CountsInv, OfRank
<1>2. Framework
  BY FrameworkKept DEF CountsInv
<1>3. \A r, s \in Rank : \A channel1, channel2 : Ends(r, channel1, s, channel2) =>
              Agree(labels, r, channel1, s, channel2)
  BY DEF CountsInv, Ends
<1> QED BY <1>1, <1>2, <1>3 DEF CountsInv

\* And back.
LEMMA PartsInv ==
  ASSUME NEW labels, program \in Programs,
         DOMAIN stream = Rank, DOMAIN received = Rank, DOMAIN call = Rank, DOMAIN step = Rank,
         stream = [r \in Rank |-> stream[r]], received = [r \in Rank |-> received[r]],
         \A r \in Rank : OfRank(labels, r),
         \A r, s \in Rank : \A channel1, channel2 : Ends(r, channel1, s, channel2) =>
              Agree(labels, r, channel1, s, channel2)
  PROVE  CountsInv(labels)
<1>1. \A r, s \in Rank : /\ Agree(labels, r, <<"send", s>>, s, <<"recv", r>>)
                         /\ Agree(labels, r, <<"all", 0>>, s, <<"all", 0>>)
  BY DEF Ends
<1> QED BY <1>1 DEF CountsInv, OfRank

\* Where the programs are, in numbers.
LEMMA Places ==
  ASSUME NEW labels, NEW r \in Rank, OfRank(labels, r), Framework
  PROVE  /\ call[r] \in Nat \ {0} /\ step[r] \in Nat /\ Posted(r) \in Nat
         /\ DOMAIN program[r] = 1..Len(program[r]) /\ Len(program[r]) \in Nat
         /\ IsSeq(stream[r]) /\ Len(stream[r]) \in Nat
         /\ labels[r] \in Seq(Nat \X Nat) /\ Len(labels[r]) = Len(stream[r])
         /\ \A i \in 1..Len(stream[r]) :
              /\ labels[r][i] \in Nat \X Nat
              /\ labels[r][i] = <<labels[r][i][1], labels[r][i][2]>>
              /\ labels[r][i][1] \in DOMAIN program[r] /\ labels[r][i][1] # 0
              /\ WellFormed(program[r][labels[r][i][1]])
<1>1. call[r] \in Nat \ {0} /\ step[r] \in Nat
  BY DEF OfRank, Counters, Framework
<1>2. Posted(r) \in Nat
  BY <1>1 DEF Posted
<1>3. /\ IsSeq(stream[r]) /\ labels[r] \in Seq(Nat \X Nat) /\ Len(labels[r]) = Len(stream[r])
      /\ \A i \in 1..Len(stream[r]) : labels[r][i][1] \in DOMAIN program[r]
  BY DEF OfRank, Labelled, GroupFits
<1>4. Len(labels[r]) \in Nat
  BY <1>3, LenProperties
<1>5. \A i \in 1..Len(stream[r]) : labels[r][i] \in Nat \X Nat
  BY <1>3, ElementOfSeq
<1>6. DOMAIN program[r] = 1..Len(program[r]) /\ Len(program[r]) \in Nat
      /\ \A c \in DOMAIN program[r] : WellFormed(program[r][c])
  BY DEF Framework
<1>7. ASSUME NEW i \in 1..Len(stream[r])
      PROVE  /\ labels[r][i] = <<labels[r][i][1], labels[r][i][2]>>
             /\ labels[r][i][1] # 0
             /\ WellFormed(program[r][labels[r][i][1]])
  <2>1. labels[r][i] \in Nat \X Nat /\ labels[r][i][1] \in DOMAIN program[r]
    BY <1>3, <1>5
  <2>2. labels[r][i] = <<labels[r][i][1], labels[r][i][2]>>
    BY <2>1
  <2>3. labels[r][i][1] # 0 /\ WellFormed(program[r][labels[r][i][1]])
    BY <1>6, <2>1
  <2> QED BY <2>2, <2>3
<1> QED BY <1>1, <1>2, <1>3, <1>4, <1>5, <1>6, <1>7

\* The same of the first group.
LEMMA FirstPlace ==
  ASSUME NEW labels, NEW r \in Rank, OfRank(labels, r), Framework, 1 \in 1..Len(stream[r])
  PROVE  labels[r][1][1] \in DOMAIN program[r] /\ labels[r][1][1] # 0
<1>1. \A i \in 1..Len(stream[r]) : labels[r][i][1] \in DOMAIN program[r] /\ labels[r][i][1] # 0
  BY Places
<1> QED BY <1>1

\* The first group is the least of what is left for its channels.
LEMMA FirstLeastLeft ==
  ASSUME NEW labels, NEW r \in Rank, OfRank(labels, r), Framework, stream[r] # <<>>,
         NEW e \in stream[r][1],
         Messages(r, Channel(e.op), labels[r][1][1], labels[r][1][2]) # {}
  PROVE  LeastLeft(labels, r, Channel(e.op), labels[r][1])
<1> DEFINE a == labels[r][1]
           ch == Channel(e.op)
<1>1. /\ 1 \in 1..Len(stream[r]) /\ a \in Nat \X Nat /\ a = <<a[1], a[2]>>
      /\ call[r] \in Nat /\ Posted(r) \in Nat
  <2>1. Len(stream[r]) \in Nat /\ IsSeq(stream[r])
    BY Places
  <2>2. 1 \in 1..Len(stream[r])
    BY <2>1, EmptySeq DEF IsSeq
  <2> QED BY <2>2, Places
<1>2. InStream(stream[r], labels[r], ch, a[1], a[2])
  BY <1>1 DEF InStream
<1>3. Left(labels, r, ch, a[1], a[2])
  BY <1>2 DEF Left
<1>4. ASSUME NEW c \in Concerned(r, ch), NEW k \in Nat, Left(labels, r, ch, c, k), Before(<<c, k>>, a)
      PROVE  FALSE
  <2>1. c \in Nat
    BY DEF Framework
  <2>2. CASE InStream(stream[r], labels[r], ch, c, k)
    <3>1. Labelled(r, stream[r], labels[r])
      BY DEF OfRank
    <3> QED BY <1>4, <2>2, <3>1, FirstIsLeast
  <2>3. CASE Ahead(r, c, k)
    <3>1. ~Ahead(r, a[1], a[2])
      BY <1>1 DEF OfRank
    <3> QED BY <1>1, <1>4, <2>1, <2>3, <3>1 DEF Ahead, Before
  <2> QED BY <1>4, <2>2, <2>3 DEF Left
<1> QED BY <1>1, <1>3, <1>4 DEF LeastLeft

\* A running operation is of the first group, and has its label.
LEMMA NextIsFirst ==
  ASSUME NEW labels, NEW r \in Rank, OfRank(labels, r), Framework, NEW e \in Running(r)
  PROVE  /\ stream[r] # <<>> /\ e \in stream[r][1] /\ stream[r][1] = Running(r) /\ 1 \in 1..Len(stream[r])
         /\ GroupFits(r, labels[r][1][1], labels[r][1][2], stream[r][1])
         /\ Fits(r, labels[r][1][1], labels[r][1][2], e.op)
         /\ labels[r][1] \in Nat \X Nat
<1>1. stream[r] # <<>> /\ e \in Head(stream[r]) /\ Running(r) = Head(stream[r])
  BY DEF Running, Drained
<1>2. Head(stream[r]) = stream[r][1]
  BY <1>1
<1>3. 1 \in 1..Len(stream[r])
  <2>1. Len(stream[r]) \in Nat /\ IsSeq(stream[r])
    BY Places
  <2> QED BY <1>1, <2>1, EmptySeq DEF IsSeq
<1>4. GroupFits(r, labels[r][1][1], labels[r][1][2], stream[r][1])
  BY <1>3 DEF OfRank, Labelled
<1>5. Fits(r, labels[r][1][1], labels[r][1][2], e.op)
  BY <1>1, <1>2, <1>4 DEF GroupFits
<1> QED BY <1>1, <1>2, <1>3, <1>4, <1>5, Places
-----------------------------------------------------------------------------
\* Paired calls have the same counts for each other, in every step.
LEMMA FittingMessages ==
  ASSUME NEW a, NEW b, Fit(a, b), NEW r, NEW s, NEW k
  PROVE  /\ a.op \in Exchanges \cup {"p_send", "p_send_array"} => Sizes(a, r, s, k) = Sizes(b, r, s, k)
         /\ a.op \in Joint => a = b
<1>1. CASE a.op = "p_send"
  <2>1. b.op = "p_recv" /\ a.dynamic = b.dynamic /\ a.shape = b.shape
    BY <1>1 DEF Fit
  <2>2. a.op \notin Joint
    BY <1>1 DEF Joint, Wholes, CrossEntropies
  <2>3. Sizes(a, r, s, k) = Sizes(b, r, s, k)
    BY <1>1, <2>1 DEF Sizes
  <2> QED BY <2>2, <2>3
<1>2. CASE a.op = "p_send_array"
  <2>1. b.op = "p_recv_array" /\ a.tensors = b.tensors /\ a.numels = b.numels
    BY <1>2 DEF Fit
  <2>2. a.op \notin Joint
    BY <1>2 DEF Joint, Wholes, CrossEntropies
  <2>3. Sizes(a, r, s, k) = Sizes(b, r, s, k)
    BY <1>2, <2>1 DEF Sizes
  <2> QED BY <2>2, <2>3
<1>3. CASE a.op # "p_send" /\ a.op # "p_send_array"
  <2>1. a = b
    BY <1>3 DEF Fit
  <2> QED BY <2>1
<1> QED BY <1>1, <1>2, <1>3

\* What one end of a channel sends is what the other receives.
LEMMA SameMessages ==
  ASSUME NEW r \in Rank, NEW s \in Rank, NEW channel1, NEW channel2, Ends(r, channel1, s, channel2),
         NEW m \in Pairings(program[r], program[s], Concerned(r, channel1), Concerned(s, channel2)),
         NEW c \in Concerned(r, channel1), NEW k
  PROVE  Messages(r, channel1, c, k) = Messages(s, channel2, m[c], k)
<1> DEFINE a == program[r][c]
           b == program[s][m[c]]
<1>1. m[c] \in Concerned(s, channel2) /\ Fit(a, b)
  BY DEF Pairings
<1>2. CASE channel1 = <<"send", s>> /\ channel2 = <<"recv", r>>
  <2>1. c \in Sending(program[r], s)
    BY <1>2 DEF Concerned
  <2>2. a.op \in Exchanges \cup {"p_send", "p_send_array"}
    BY <2>1 DEF Sending
  <2>3. Messages(r, channel1, c, k) = Sizes(a, r, s, k) /\ Messages(s, channel2, m[c], k) = Sizes(b, r, s, k)
    BY <1>1, <1>2 DEF Messages
  <2> HIDE DEF a, b
  <2> QED BY <1>1, <2>2, <2>3, FittingMessages
<1>3. CASE channel1 = <<"all", 0>> /\ channel2 = <<"all", 0>>
  <2>1. c \in Joining(program[r])
    BY <1>3 DEF Concerned
  <2>2. a.op \in Joint
    BY <2>1 DEF Joining
  <2>3. Messages(r, channel1, c, k) = Together(a, k) /\ Messages(s, channel2, m[c], k) = Together(b, k)
    BY <1>1, <1>3 DEF Messages
  <2> HIDE DEF a, b
  <2> QED BY <1>1, <2>2, <2>3, FittingMessages
<1> QED BY <1>2, <1>3 DEF Ends

\* Of the first groups of two ranks, what is for the same channel is of the same calls.
LEMMA HeadsMeet ==
  ASSUME NEW labels, CountsInv(labels), NEW r \in Rank, NEW s \in Rank,
         NEW e \in Running(r), NEW f \in Running(s),
         Ends(r, Channel(e.op), s, Channel(f.op)),
         Messages(r, Channel(e.op), labels[r][1][1], labels[r][1][2]) # {},
         Messages(s, Channel(f.op), labels[s][1][1], labels[s][1][2]) # {}
  PROVE  /\ LeastLeft(labels, r, Channel(e.op), labels[r][1])
         /\ LeastLeft(labels, s, Channel(f.op), labels[s][1])
         /\ labels[r][1][2] = labels[s][1][2]
         /\ Messages(r, Channel(e.op), labels[r][1][1], labels[r][1][2])
              = Messages(s, Channel(f.op), labels[s][1][1], labels[s][1][2])
         /\ Fit(program[r][labels[r][1][1]], program[s][labels[s][1][1]])
<1> DEFINE a == labels[r][1]
           b == labels[s][1]
           ch1 == Channel(e.op)
           ch2 == Channel(f.op)
<1>1. OfRank(labels, r) /\ OfRank(labels, s) /\ Framework /\ Agree(labels, r, ch1, s, ch2)
  BY InvParts
<1>2. stream[r] # <<>> /\ e \in stream[r][1] /\ stream[s] # <<>> /\ f \in stream[s][1]
  BY <1>1, NextIsFirst
<1>3. LeastLeft(labels, r, ch1, a) /\ LeastLeft(labels, s, ch2, b)
  BY <1>1, <1>2, FirstLeastLeft
<1>4. Concerned(r, ch1) \subseteq Nat /\ Concerned(s, ch2) \subseteq Nat
  <2> HIDE DEF ch1, ch2
  <2> QED BY <1>1 DEF Framework
<1>5. PICK m \in Pairings(program[r], program[s], Concerned(r, ch1), Concerned(s, ch2)) : TRUE
  <2> Ends(r, ch1, s, ch2)
    OBVIOUS
  <2> HIDE DEF ch1, ch2
  <2> QED BY <1>1 DEF Framework
<1>6. a[1] \in Concerned(r, ch1) /\ m[a[1]] = b[1] /\ a[2] = b[2]
  BY <1>1, <1>3, <1>4, LeastMeet
<1>7. Messages(r, ch1, a[1], a[2]) = Messages(s, ch2, b[1], b[2])
  <2> Ends(r, ch1, s, ch2)
    OBVIOUS
  <2> HIDE DEF ch1, ch2, a, b
  <2> QED BY <1>6, SameMessages
<1>8. Fit(program[r][a[1]], program[s][b[1]])
  BY <1>6 DEF Pairings
<1> QED BY <1>3, <1>6, <1>7, <1>8

\* The length of a tensor with a shape, or with the length of one.
LEMMA SizesOfShape ==
  ASSUME NEW x, x.op \in {"p_send", "p_recv"}, x.dynamic \in BOOLEAN, x.shape \in Seq(Nat),
         NEW s, NEW d, NEW k \in {0, 1}
  PROVE  /\ x.dynamic => Sizes(x, s, d, k) = {Len(ShapeInfo(x, k))}
         /\ ~x.dynamic => Sizes(x, s, d, k) = {}
         /\ ShapeInfo(x, 0) \in Seq(Seq(Nat)) /\ ShapeInfo(x, 1) \in Seq(Seq(Nat))
         /\ Len(ShapeInfo(x, 0)) = 1 /\ ShapeInfo(x, 0)[1][1] = Len(x.shape)
         /\ Len(ShapeInfo(x, 1)) = Len(x.shape)
         /\ ShapeInfo(x, 1) = [i \in DOMAIN x.shape |-> <<x.shape[i]>>]
<1>1. ShapeInfo(x, 0) = <<<<Len(x.shape)>>>> /\ ShapeInfo(x, 1) = [i \in DOMAIN x.shape |-> <<x.shape[i]>>]
  BY DEF ShapeInfo
<1>2. Len(x.shape) \in Nat /\ DOMAIN x.shape = 1..Len(x.shape) /\ \A i \in DOMAIN x.shape : x.shape[i] \in Nat
  BY LenProperties, ElementOfSeq
<1>3. <<Len(x.shape)>> \in Seq(Nat) /\ \A i \in DOMAIN x.shape : <<x.shape[i]>> \in Seq(Nat)
  BY <1>2
<1>4. ShapeInfo(x, 0) \in Seq(Seq(Nat)) /\ Len(ShapeInfo(x, 0)) = 1 /\ ShapeInfo(x, 0)[1][1] = Len(x.shape)
  <2> DEFINE n == Len(x.shape)
             S == Seq(Nat)
  <2>1. ShapeInfo(x, 0) = <<<<n>>>> /\ <<n>> \in S /\ n \in Nat
    BY <1>1, <1>2, <1>3
  <2> HIDE DEF n, S
  <2>2. <<<<n>>>> \in Seq(S) /\ Len(<<<<n>>>>) = 1 /\ <<<<n>>>>[1][1] = n
    BY <2>1
  <2> QED BY <2>1, <2>2 DEF n, S
<1>5. ShapeInfo(x, 1) \in Seq(Seq(Nat)) /\ Len(ShapeInfo(x, 1)) = Len(x.shape)
  <2> DEFINE n == Len(x.shape)
             g == ShapeInfo(x, 1)
             S == Seq(Nat)
  <2>1. n \in Nat /\ g \in [1..n -> S]
    BY <1>1, <1>2, <1>3
  <2> HIDE DEF n, g, S
  <2>2. g \in Seq(S) /\ Len(g) = n
    BY <2>1
  <2> QED BY <2>2 DEF n, g, S
<1>6. Sizes(x, s, d, k) = IF ~x.dynamic THEN {} ELSE IF k = 0 THEN {1} ELSE {Len(x.shape)}
  <2> DEFINE o == x.op
             y == x.dynamic
  <2>1. k # 2 /\ ~(k > 2)
    OBVIOUS
  <2>2. x.op # "global_scatter" /\ x.op # "all_to_all" /\ x.op # "all2all"
    OBVIOUS
  <2> QED BY <2>1, <2>2 DEF Sizes
<1> QED BY <1>1, <1>4, <1>5, <1>6

\* A call that has launched what it receives has its buffer.
LEMMA ReceivesFit ==
  ASSUME NEW labels, CountsInv(labels), NEW r \in Rank, NEW e \in Pending(r), e.op.kind = "recv"
  PROVE  /\ e.op.peer \in Rank /\ e.op.at \in Nat /\ e.op.count \in Nat
         /\ Len(received[r][e.op.buffer]) \in Nat
         /\ e.op.at + e.op.count <= Len(received[r][e.op.buffer])
<1>1. OfRank(labels, r) /\ Framework
  BY InvParts
<1>2. PICK i \in 1..Len(stream[r]) : e \in stream[r][i]
  <2>1. IsSeq(stream[r])
    BY <1>1, Places
  <2> QED BY <2>1, LenProperties DEF Pending, ToSet, IsSeq
<1> DEFINE c == labels[r][i][1]
           k == labels[r][i][2]
           x == program[r][c]
<1>3. Fits(r, c, k, e.op) /\ c \in Nat \ {0} /\ k \in Nat /\ c \in DOMAIN program[r] /\ WellFormed(x)
      /\ labels[r][i] = <<c, k>>
  <2>1. GroupFits(r, c, k, stream[r][i])
    BY <1>1, <1>2 DEF OfRank, Labelled
  <2>2. Fits(r, c, k, e.op)
    BY <1>2, <2>1 DEF GroupFits
  <2>3. /\ labels[r][i] \in Nat \X Nat /\ labels[r][i] = <<c, k>>
        /\ c \in DOMAIN program[r] /\ c # 0 /\ WellFormed(x)
    BY <1>1, <1>2, Places
  <2>4. c \in Nat /\ k \in Nat
    BY <2>3
  <2> QED BY <2>2, <2>3, <2>4
<1>4. /\ e.op.peer \in Rank /\ e.op.at \in Nat /\ e.op.count \in Nat
      /\ Messages(r, <<"recv", e.op.peer>>, c, k) = {e.op.count}
      /\ IF ToBuffer0(x, k) THEN e.op.buffer = 0 /\ e.op.at = 0
              ELSE e.op.buffer = c /\ e.op.at + e.op.count <= OutSize(x, r)
  BY <1>3 DEF Fits, Channel
<1>5. IsReceiving(x) /\ Sizes(x, e.op.peer, r, k) = {e.op.count}
  <2>1. c \in Concerned(r, <<"recv", e.op.peer>>)
    BY <1>4 DEF Messages
  <2>2. c \in Receiving(program[r], e.op.peer)
    BY <2>1 DEF Concerned
  <2> QED BY <1>4, <2>1, <2>2 DEF Messages, Receiving, IsReceiving
<1>6. ~Ahead(r, c, k) /\ Posted(r) \in Nat /\ call[r] \in Nat
  BY <1>1, <1>2, Places DEF OfRank
<1>7. CASE ToBuffer0(x, k)
  <2>1. e.op.buffer = 0 /\ e.op.at = 0 /\ x.op = "p_recv" /\ k < 2
    BY <1>4, <1>7 DEF ToBuffer0
  <2>2. ~Finished(r) /\ step[r] > 0 /\ labels[r][i] = <<call[r], step[r] - 1>>
    BY <1>1, <1>2, <2>1 DEF OfRank, Shapes
  <2>3. c = call[r] /\ k = step[r] - 1 /\ x = Call(r)
    BY <1>3, <2>2 DEF Call
  <2>4. Sized(received[r][0], Len(ShapeInfo(x, k)))
    BY <1>1, <2>1, <2>2, <2>3 DEF OfRank, Shapes
  <2>5. Len(ShapeInfo(x, k)) = e.op.count
    <3>1. x.shape \in Seq(Nat) /\ x.dynamic \in BOOLEAN
      BY <1>3, <2>1 DEF WellFormed, Exchanges, Wholes, CrossEntropies
    <3> HIDE DEF x, c, k
    <3>2. k \in {0, 1} /\ Sizes(x, e.op.peer, r, k) # {}
      BY <1>3, <1>5, <2>1
    <3>3. /\ x.dynamic => Sizes(x, e.op.peer, r, k) = {Len(ShapeInfo(x, k))}
          /\ ~x.dynamic => Sizes(x, e.op.peer, r, k) = {}
      <4>1. x.op \in {"p_send", "p_recv"}
        BY <2>1
      <4>2. k \in {0, 1} /\ x.shape \in Seq(Nat) /\ x.dynamic \in BOOLEAN
        BY <3>1, <3>2
      <4> QED BY ONLY <4>1, <4>2, SizesOfShape
    <3>4. Sizes(x, e.op.peer, r, k) = {Len(ShapeInfo(x, k))}
      BY <3>2, <3>3
    <3> QED BY <1>5, <3>4
  <2> QED BY <1>4, <2>1, <2>4, <2>5 DEF Sized
<1>8. CASE ~ToBuffer0(x, k)
  <2>1. e.op.buffer = c /\ e.op.at + e.op.count <= OutSize(x, r)
    BY <1>4, <1>8
  <2>2. c < call[r] \/ (c = call[r] /\ k < Posted(r))
    BY <1>3, <1>6 DEF Ahead
  <2>3. ASSUME c = call[r] PROVE step[r] > 0 /\ x.op # "p_recv"
    <3>1. k < Posted(r) /\ Call(r) = x /\ ~Finished(r)
      <4>1. k < Posted(r) /\ Call(r) = x
        BY <1>6, <2>2, <2>3 DEF Call
      <4>2. ~Finished(r)
        BY <1>1, <1>3, <2>3 DEF Finished, Framework
      <4> QED BY <4>1, <4>2
    <3>2. x.op # "c_scatter"
      BY <1>5 DEF IsReceiving, Exchanges
    <3>3. Posted(r) = step[r]
      BY <3>1, <3>2 DEF Posted
    <3>4. step[r] > 0 /\ step[r] < Steps(x)
      BY <1>1, <1>3, <3>1, <3>3, Places DEF OfRank, Counters
    <3>5. x.op # "p_recv"
      <4> SUFFICES ASSUME x.op = "p_recv" PROVE FALSE
        OBVIOUS
      <4>1. Steps(x) = IF x.dynamic THEN 3 ELSE 1
        BY DEF Steps
      <4>2. k < 2
        BY <1>1, <1>3, <3>1, <3>3, <3>4, <4>1, Places
      <4> QED BY <1>8, <4>2 DEF ToBuffer0
    <3> QED BY <3>4, <3>5
  <2>4. Sized(received[r][c], OutSize(x, r))
    BY <1>1, <1>3, <1>5, <2>2, <2>3 DEF OfRank, Buffers
  <2> QED BY <1>4, <2>1, <2>4 DEF Sized
<1> QED BY <1>7, <1>8
-----------------------------------------------------------------------------
\* The invariant gives the type invariant.
LEMMA TypeFollows ==
  ASSUME NEW labels, CountsInv(labels) PROVE TypeOK
<1>1. program \in Programs
  BY DEF CountsInv
<1>2. ASSUME NEW r \in Rank
      PROVE  call[r] \in 1..(Len(program[r]) + 1) /\ step[r] \in Nat
  BY InvParts DEF OfRank, Counters
<1>3. ASSUME NEW r \in Rank, NEW e \in Pending(r), e.op.kind = "recv"
      PROVE  e.op.peer \in Rank /\ e.op.at + e.op.count <= Len(received[r][e.op.buffer])
  BY <1>3, ReceivesFit
<1> QED BY <1>1, <1>2, <1>3 DEF TypeOK

AllKinds == {"all_gather", "all_reduce", "reduce_scatter", "broadcast", "all_reduce_in_place"}

\* The only operation of a group that all ranks run together.
LEMMA TheOperation ==
  ASSUME NEW labels, CountsInv(labels), NEW r \in Rank,
         NEW kind \in AllKinds, \E e \in Running(r) : e.op.kind = kind
  PROVE  \E e \in Running(r) : /\ e.op.kind = kind /\ OpOf(r) = e.op
                               /\ Running(r) = {e} /\ Channel(e.op) = <<"all", 0>>
<1>1. PICK e \in Running(r) : e.op.kind = kind
  OBVIOUS
<1>2. Channel(e.op) = <<"all", 0>>
  BY <1>1 DEF Channel, AllKinds
<1>3. GroupFits(r, labels[r][1][1], labels[r][1][2], Running(r))
  <2>1. OfRank(labels, r) /\ Framework
    BY InvParts
  <2> QED BY <2>1, NextIsFirst
<1>4. Running(r) = {e}
  BY <1>2, <1>3 DEF GroupFits
<1>5. OpOf(r) = e.op
  BY <1>4 DEF OpOf
<1> QED BY <1>1, <1>2, <1>4, <1>5

\* Ranks that all run a collective run that of the same call and step.
LEMMA AlsoMeet ==
  ASSUME NEW labels, CountsInv(labels), NEW kind \in AllKinds, Meet(kind),
         NEW r \in Rank, NEW s \in Rank
  PROVE  \E e \in Running(r), f \in Running(s) :
           /\ e.op.kind = kind /\ f.op.kind = kind /\ OpOf(r) = e.op /\ OpOf(s) = f.op
           /\ Running(r) = {e} /\ Running(s) = {f}
           /\ Channel(e.op) = <<"all", 0>> /\ Channel(f.op) = <<"all", 0>>
           /\ Fits(r, labels[r][1][1], labels[r][1][2], e.op)
           /\ Fits(s, labels[s][1][1], labels[s][1][2], f.op)
           /\ LeastLeft(labels, r, <<"all", 0>>, labels[r][1])
           /\ LeastLeft(labels, s, <<"all", 0>>, labels[s][1])
           /\ labels[r][1][2] = labels[s][1][2]
           /\ Messages(r, <<"all", 0>>, labels[r][1][1], labels[r][1][2])
                = Messages(s, <<"all", 0>>, labels[s][1][1], labels[s][1][2])
           /\ Messages(r, <<"all", 0>>, labels[r][1][1], labels[r][1][2]) # {}
<1>1. PICK e \in Running(r) : /\ e.op.kind = kind /\ OpOf(r) = e.op
                              /\ Running(r) = {e} /\ Channel(e.op) = <<"all", 0>>
  BY TheOperation DEF Meet
<1>2. PICK f \in Running(s) : /\ f.op.kind = kind /\ OpOf(s) = f.op
                              /\ Running(s) = {f} /\ Channel(f.op) = <<"all", 0>>
  BY TheOperation DEF Meet
<1>3. OfRank(labels, r) /\ OfRank(labels, s) /\ Framework
  BY InvParts
<1>4. Fits(r, labels[r][1][1], labels[r][1][2], e.op) /\ Fits(s, labels[s][1][1], labels[s][1][2], f.op)
  BY <1>3, NextIsFirst
<1>5. /\ Messages(r, Channel(e.op), labels[r][1][1], labels[r][1][2]) # {}
      /\ Messages(s, Channel(f.op), labels[s][1][1], labels[s][1][2]) # {}
  BY <1>1, <1>2, <1>4 DEF Fits, AllKinds
<1>6. Ends(r, Channel(e.op), s, Channel(f.op))
  BY <1>1, <1>2 DEF Ends
<1>7. /\ LeastLeft(labels, r, Channel(e.op), labels[r][1])
      /\ LeastLeft(labels, s, Channel(f.op), labels[s][1])
      /\ labels[r][1][2] = labels[s][1][2]
      /\ Messages(r, Channel(e.op), labels[r][1][1], labels[r][1][2])
           = Messages(s, Channel(f.op), labels[s][1][1], labels[s][1][2])
  BY ONLY CountsInv(labels), r \in Rank, s \in Rank, e \in Running(r), f \in Running(s), <1>5, <1>6, HeadsMeet
<1> QED BY <1>1, <1>2, <1>4, <1>5, <1>7

\* The sizes of two equal pairs.
LEMMA OnlySecond ==
  ASSUME NEW k, NEW a, NEW b, {<<k, a>>} = {<<k, b>>} PROVE a = b
<1>1. <<k, a>> = <<k, b>>
  OBVIOUS
<1> QED BY <1>1

\* The invariant gives CountsMatch.
LEMMA CountsFollow ==
  ASSUME NEW labels, CountsInv(labels) PROVE CountsMatch
<1>1. ASSUME NEW s \in Rank, NEW d \in Rank,
             NEW out \in NextWith(s, "send", d), NEW in \in NextWith(d, "recv", s)
      PROVE  Len(out.op.data) = in.op.count
  <2>1. /\ out \in Running(s) /\ out.op.kind = "send" /\ out.op.peer = d
        /\ in \in Running(d) /\ in.op.kind = "recv" /\ in.op.peer = s
    BY DEF NextWith
  <2>2. Channel(out.op) = <<"send", d>> /\ Channel(in.op) = <<"recv", s>>
    BY <2>1 DEF Channel
  <2>3. OfRank(labels, s) /\ OfRank(labels, d) /\ Framework
    BY InvParts
  <2>4. Fits(s, labels[s][1][1], labels[s][1][2], out.op) /\ Fits(d, labels[d][1][1], labels[d][1][2], in.op)
    BY <2>1, <2>3, NextIsFirst
  <2>5. /\ Messages(s, Channel(out.op), labels[s][1][1], labels[s][1][2]) = {Len(out.op.data)}
        /\ Messages(d, Channel(in.op), labels[d][1][1], labels[d][1][2]) = {in.op.count}
    BY <2>1, <2>4 DEF Fits
  <2>6. Ends(s, Channel(out.op), d, Channel(in.op))
    BY <2>2 DEF Ends
  <2>7. Messages(s, Channel(out.op), labels[s][1][1], labels[s][1][2])
          = Messages(d, Channel(in.op), labels[d][1][1], labels[d][1][2])
    <3>1. /\ Messages(s, Channel(out.op), labels[s][1][1], labels[s][1][2]) # {}
          /\ Messages(d, Channel(in.op), labels[d][1][1], labels[d][1][2]) # {}
      BY <2>5
    <3> QED BY ONLY CountsInv(labels), s \in Rank, d \in Rank, <2>1, <3>1, <2>6, HeadsMeet
  <2> QED BY <2>5, <2>7
<1>2. ASSUME NEW kind \in {"all_gather", "all_reduce", "reduce_scatter", "broadcast"}, Meet(kind),
             NEW r \in Rank, NEW s \in Rank
      PROVE  Len(OpOf(r).data) = Len(OpOf(s).data)
  <2>1. kind \in AllKinds
    BY DEF AllKinds
  <2>2. PICK e \in Running(r), f \in Running(s) :
          /\ e.op.kind = kind /\ f.op.kind = kind /\ OpOf(r) = e.op /\ OpOf(s) = f.op
          /\ Channel(e.op) = <<"all", 0>> /\ Channel(f.op) = <<"all", 0>>
          /\ Fits(r, labels[r][1][1], labels[r][1][2], e.op)
          /\ Fits(s, labels[s][1][1], labels[s][1][2], f.op)
          /\ Messages(r, <<"all", 0>>, labels[r][1][1], labels[r][1][2])
               = Messages(s, <<"all", 0>>, labels[s][1][1], labels[s][1][2])
    BY <1>2, <2>1, AlsoMeet
  <2>3. /\ Messages(r, <<"all", 0>>, labels[r][1][1], labels[r][1][2]) = {<<kind, Len(e.op.data)>>}
        /\ Messages(s, <<"all", 0>>, labels[s][1][1], labels[s][1][2]) = {<<kind, Len(f.op.data)>>}
    BY <2>2 DEF Fits
  <2>4. Len(e.op.data) = Len(f.op.data)
    BY <2>2, <2>3, OnlySecond
  <2> QED BY <2>2, <2>4
<1>3. ASSUME Meet("all_reduce_in_place"), NEW r \in Rank, NEW s \in Rank
      PROVE  DOMAIN received[r][OpOf(r).buffer][OpOf(r).tensor]
               = DOMAIN received[s][OpOf(s).buffer][OpOf(s).tensor]
  <2> DEFINE kind == "all_reduce_in_place"
  <2>1. kind \in AllKinds
    BY DEF AllKinds
  <2>2. PICK e \in Running(r), f \in Running(s) :
          /\ e.op.kind = kind /\ f.op.kind = kind /\ OpOf(r) = e.op /\ OpOf(s) = f.op
          /\ Channel(e.op) = <<"all", 0>> /\ Channel(f.op) = <<"all", 0>>
          /\ Fits(r, labels[r][1][1], labels[r][1][2], e.op)
          /\ Fits(s, labels[s][1][1], labels[s][1][2], f.op)
          /\ Messages(r, <<"all", 0>>, labels[r][1][1], labels[r][1][2])
               = Messages(s, <<"all", 0>>, labels[s][1][1], labels[s][1][2])
    BY <1>3, <2>1, AlsoMeet
  <2>3. ASSUME NEW q \in Rank, NEW g \in Running(q), g.op.kind = kind, Channel(g.op) = <<"all", 0>>,
               Fits(q, labels[q][1][1], labels[q][1][2], g.op)
        PROVE  Messages(q, <<"all", 0>>, labels[q][1][1], labels[q][1][2])
                 = {<<kind, DOMAIN received[q][g.op.buffer][g.op.tensor]>>}
    <3>1. /\ Messages(q, <<"all", 0>>, labels[q][1][1], labels[q][1][2])
               = {<<kind, Indices(program[q][labels[q][1][1]], labels[q][1][2])>>}
          /\ g.op.buffer = labels[q][1][1]
      BY <2>3 DEF Fits
    <3>2. OfRank(labels, q) /\ Framework
      BY InvParts
    <3>3. g \in stream[q][1] /\ 1 \in 1..Len(stream[q])
      BY <3>2, NextIsFirst
    <3>4. DOMAIN received[q][g.op.buffer][g.op.tensor] = Indices(program[q][labels[q][1][1]], labels[q][1][2])
      BY <2>3, <3>1, <3>2, <3>3 DEF OfRank, Reductions
    <3> QED BY <3>1, <3>4
  <2>4. /\ Messages(r, <<"all", 0>>, labels[r][1][1], labels[r][1][2])
             = {<<kind, DOMAIN received[r][e.op.buffer][e.op.tensor]>>}
        /\ Messages(s, <<"all", 0>>, labels[s][1][1], labels[s][1][2])
             = {<<kind, DOMAIN received[s][f.op.buffer][f.op.tensor]>>}
    BY <2>2, <2>3
  <2> HIDE DEF kind
  <2>5. DOMAIN received[r][e.op.buffer][e.op.tensor] = DOMAIN received[s][f.op.buffer][f.op.tensor]
    BY <2>2, <2>4, OnlySecond
  <2> QED BY <2>2, <2>5
<1> QED BY <1>1, <1>2, <1>3 DEF CountsMatch
-----------------------------------------------------------------------------
\* A step of the streams.

\* The programs do not change, and so neither does what they have for a channel.
LEMMA SameConcerned ==
  ASSUME program' = program, NEW r, NEW channel PROVE Concerned(r, channel)' = Concerned(r, channel)
BY DEF Concerned

\* And what a call has for a channel in a step.
LEMMA MessagesKept ==
  ASSUME program' = program, NEW r, NEW channel, NEW c, NEW k
  PROVE  Messages(r, channel, c, k)' = Messages(r, channel, c, k)
BY SameConcerned DEF Messages

\* And which operation is of which call and step.
LEMMA FitsKept ==
  ASSUME program' = program, NEW r, NEW c, NEW k, NEW op
  PROVE  Fits(r, c, k, op)' <=> Fits(r, c, k, op)
<1>1. \A channel : Messages(r, channel, c, k)' = Messages(r, channel, c, k)
  BY MessagesKept
<1> QED BY <1>1 DEF Fits

\* The same of a group.
LEMMA GroupFitsKept ==
  ASSUME program' = program, NEW r, NEW c, NEW k, NEW group
  PROVE  GroupFits(r, c, k, group)' <=> GroupFits(r, c, k, group)
<1>1. \A e \in group : Fits(r, c, k, e.op)' <=> Fits(r, c, k, e.op)
  BY FitsKept
<1> QED BY <1>1 DEF GroupFits

\* The same of the groups of a stream.
LEMMA LabelledKept ==
  ASSUME program' = program, NEW r, NEW groups, NEW labels
  PROVE  Labelled(r, groups, labels)' <=> Labelled(r, groups, labels)
<1>1. \A i \in 1..Len(groups) : GroupFits(r, labels[i][1], labels[i][2], groups[i])'
                                <=> GroupFits(r, labels[i][1], labels[i][2], groups[i])
  BY GroupFitsKept
<1> QED BY <1>1 DEF Labelled

\* And where a tensor is reduced in place.
LEMMA ReductionsKept ==
  ASSUME program' = program, NEW r, NEW groups, NEW labels, NEW buffers
  PROVE  Reductions(r, groups, labels, buffers)' <=> Reductions(r, groups, labels, buffers)
BY DEF Reductions

\* A rank that does not call is not ahead of where it was.
LEMMA AheadKept ==
  ASSUME NEW r, program' = program, call'[r] = call[r], step'[r] = step[r], NEW c, NEW k
  PROVE  Ahead(r, c, k)' <=> Ahead(r, c, k)
BY DEF Ahead, Posted, Call

\* Its counters are as they were.
LEMMA CountersKept ==
  ASSUME NEW r, program' = program, call'[r] = call[r], step'[r] = step[r]
  PROVE  Counters(r)' <=> Counters(r)
BY DEF Counters, Call, Finished

\* A rank whose buffers are as they were.
LEMMA BuffersKept ==
  ASSUME NEW r, program' = program, call'[r] = call[r], step'[r] = step[r], received'[r] = received[r]
  PROVE  Buffers(r)' <=> Buffers(r)
BY DEF Buffers

\* The same of the buffer a shape is received into.
LEMMA ShapesKept ==
  ASSUME NEW r, program' = program, call'[r] = call[r], step'[r] = step[r], received'[r] = received[r],
         stream'[r] = stream[r], NEW labels
  PROVE  Shapes(r, labels)' <=> Shapes(r, labels)
BY DEF Shapes, Call, Finished

\* A rank that does nothing keeps its part of the invariant.
LEMMA RankKept ==
  ASSUME NEW labels, NEW labels2, NEW r, OfRank(labels, r), program' = program,
         call'[r] = call[r], step'[r] = step[r], received'[r] = received[r], stream'[r] = stream[r],
         labels2[r] = labels[r]
  PROVE  OfRank(labels2, r)'
<1>1. Labelled(r, stream[r], labels2[r])'
  BY LabelledKept DEF OfRank
<1>2. \A i \in 1..Len(stream'[r]) : ~Ahead(r, labels2[r][i][1], labels2[r][i][2])'
  BY AheadKept DEF OfRank
<1>3. Reductions(r, stream[r], labels2[r], received[r])'
  BY ReductionsKept DEF OfRank
<1>4. Buffers(r)' /\ Counters(r)' /\ Shapes(r, labels2[r])'
  BY BuffersKept, CountersKept, ShapesKept DEF OfRank
<1>5. received'[r] = [b \in 0..Len(program'[r]) |-> received'[r][b]]
  BY DEF OfRank
<1> QED BY <1>1, <1>2, <1>3, <1>4, <1>5 DEF OfRank

\* And what it has left.
LEMMA LeftKept ==
  ASSUME NEW labels, NEW labels2, NEW r, program' = program,
         call'[r] = call[r], step'[r] = step[r], stream'[r] = stream[r], labels2[r] = labels[r],
         NEW channel, NEW c, NEW k
  PROVE  Left(labels2, r, channel, c, k)' <=> Left(labels, r, channel, c, k)
<1>1. Messages(r, channel, c, k)' = Messages(r, channel, c, k)
  BY MessagesKept
<1>2. Ahead(r, c, k)' <=> Ahead(r, c, k)
  BY AheadKept
<1>3. InStream(stream[r], labels2[r], channel, c, k)' <=> InStream(stream[r], labels[r], channel, c, k)
  BY DEF InStream
<1> QED BY <1>1, <1>2, <1>3 DEF Left
-----------------------------------------------------------------------------
\* What a step of MCCL or of a kernel does to the launched groups of one rank.
Moves(groups, labels, done, groups2, labels2) ==
  \/ groups2 = groups /\ labels2 = labels /\ done = {}
  \/ groups # <<>> /\ done \subseteq groups[1] /\ \E n : Shifted(groups, labels, done, groups2, labels2, n)

\* What a rank has left when operations of its stream are done.
LEMMA MovesLeft ==
  ASSUME NEW labels, NEW labels2, NEW r \in Rank, OfRank(labels, r), Framework,
         NEW done, Moves(stream[r], labels[r], done, stream'[r], labels2[r]),
         program' = program, call'[r] = call[r], step'[r] = step[r],
         NEW channel, NEW c \in Concerned(r, channel), NEW k \in Nat
  PROVE  Left(labels2, r, channel, c, k)'
           <=> Left(labels, r, channel, c, k)
               /\ ~((\E e \in done : Channel(e.op) = channel) /\ <<c, k>> = labels[r][1])
<1>1. CASE stream'[r] = stream[r] /\ labels2[r] = labels[r] /\ done = {}
  BY <1>1, LeftKept
<1>2. CASE stream[r] # <<>> /\ done \subseteq stream[r][1]
           /\ \E n : Shifted(stream[r], labels[r], done, stream'[r], labels2[r], n)
  <2>1. PICK n : Shifted(stream[r], labels[r], done, stream'[r], labels2[r], n)
    BY <1>2
  <2>2. Labelled(r, stream[r], labels[r])
    BY DEF OfRank
  <2>3. PICK g2 : g2 = stream'[r]
    OBVIOUS
  <2>4. InStream(stream[r], labels2[r], channel, c, k)'
          <=> /\ InStream(stream[r], labels[r], channel, c, k)
              /\ ~(<<c, k>> = labels[r][1] /\ \E e \in stream[r][1] \cap done : Channel(e.op) = channel)
    <3>1. InStream(g2, labels2[r], channel, c, k)
            <=> /\ InStream(stream[r], labels[r], channel, c, k)
                /\ ~(<<c, k>> = labels[r][1] /\ \E e \in stream[r][1] \cap done : Channel(e.op) = channel)
      <4>1. Shifted(stream[r], labels[r], done, g2, labels2[r], n)
        BY <2>1, <2>3
      <4> QED BY <2>2, <4>1, ShiftedInStream
    <3>2. InStream(stream[r], labels2[r], channel, c, k)' <=> InStream(g2, labels2[r], channel, c, k)
      BY <2>3 DEF InStream
    <3> QED BY <3>1, <3>2
  <2>5. stream[r][1] \cap done = done
    BY <1>2
  <2>6. Messages(r, channel, c, k)' = Messages(r, channel, c, k) /\ (Ahead(r, c, k)' <=> Ahead(r, c, k))
    BY MessagesKept, AheadKept
  <2>7. ASSUME <<c, k>> = labels[r][1] PROVE ~Ahead(r, c, k)
    <3>1. 1 \in 1..Len(stream[r])
      <4>1. Len(stream[r]) \in Nat /\ IsSeq(stream[r])
        BY Places
      <4> QED BY <1>2, <4>1, EmptySeq DEF IsSeq
    <3>2. labels[r][1][1] = c /\ labels[r][1][2] = k
      BY <2>7
    <3> QED BY <3>1, <3>2 DEF OfRank
  <2> QED BY <2>4, <2>5, <2>6, <2>7 DEF Left
<1> QED BY <1>1, <1>2 DEF Moves
-----------------------------------------------------------------------------
\* An operation of a channel is one of the calls that concern the channel.
LEMMA HasMessages ==
  ASSUME NEW r, NEW c, NEW k, NEW op, Fits(r, c, k, op), Channel(op)[1] # "own"
  PROVE  Messages(r, Channel(op), c, k) # {}
BY DEF Fits, Channel

\* The ends of a channel are of two ranks, or of all.
LEMMA EndsNotOwn ==
  ASSUME NEW r, NEW s, NEW channel1, NEW channel2, Ends(r, channel1, s, channel2)
  PROVE  channel1[1] # "own" /\ channel2[1] # "own"
BY DEF Ends

\* Only a running operation can be done.
LEMMA DoneIsRunning ==
  ASSUME NEW r, NEW labels, NEW done, NEW groups2, NEW labels2,
         Moves(stream[r], labels[r], done, groups2, labels2), NEW e \in done
  PROVE  e \in Running(r)
<1>1. stream[r] # <<>> /\ e \in stream[r][1]
  BY DEF Moves
<1>2. Head(stream[r]) = stream[r][1]
  BY <1>1
<1> QED BY <1>1, <1>2 DEF Running, Drained

\* The ends of a channel agree after a step of the streams that does the operations of
\* both ends or of none.
LEMMA MovesAgree ==
  ASSUME NEW labels, CountsInv(labels), NEW labels2, NEW done,
         UNCHANGED <<program, call, step>>,
         \A q \in Rank : Moves(stream[q], labels[q], done[q], stream'[q], labels2[q]),
         NEW r \in Rank, NEW s \in Rank, NEW channel1, NEW channel2, Ends(r, channel1, s, channel2),
         (\E e \in done[r] : Channel(e.op) = channel1) <=> (\E e \in done[s] : Channel(e.op) = channel2)
  PROVE  Agree(labels2, r, channel1, s, channel2)'
<1> DEFINE removed == \E e \in done[r] : Channel(e.op) = channel1
           a == labels[r][1]
           b == labels[s][1]
<1>1. OfRank(labels, r) /\ OfRank(labels, s) /\ Framework /\ Agree(labels, r, channel1, s, channel2)
  BY InvParts
<1>2. ASSUME removed
      PROVE  LeastLeft(labels, r, channel1, a) /\ LeastLeft(labels, s, channel2, b)
  <2>1. PICK e \in done[r] : Channel(e.op) = channel1
    BY <1>2
  <2>2. PICK f \in done[s] : Channel(f.op) = channel2
    BY <1>2
  <2>3. e \in Running(r) /\ f \in Running(s)
    BY <2>1, <2>2, DoneIsRunning
  <2>4. Fits(r, a[1], a[2], e.op) /\ Fits(s, b[1], b[2], f.op)
    BY <1>1, <2>3, NextIsFirst
  <2>5. channel1[1] # "own" /\ channel2[1] # "own"
    BY EndsNotOwn
  <2>6. /\ Messages(r, Channel(e.op), labels[r][1][1], labels[r][1][2]) # {}
        /\ Messages(s, Channel(f.op), labels[s][1][1], labels[s][1][2]) # {}
    BY <2>1, <2>2, <2>4, <2>5, HasMessages
  <2>7. Ends(r, Channel(e.op), s, Channel(f.op))
    BY <2>1, <2>2
  <2>8. LeastLeft(labels, r, Channel(e.op), labels[r][1]) /\ LeastLeft(labels, s, Channel(f.op), labels[s][1])
    BY ONLY CountsInv(labels), r \in Rank, s \in Rank, <2>3, <2>6, <2>7, HeadsMeet
  <2> QED BY <2>1, <2>2, <2>8
<1>3. Concerned(r, channel1) \subseteq Nat /\ Concerned(s, channel2) \subseteq Nat
  BY <1>1 DEF Framework
<1>4. \A c \in Concerned(r, channel1), k \in Nat : Left(labels2, r, channel1, c, k)'
             <=> Left(labels, r, channel1, c, k) /\ ~(removed /\ <<c, k>> = a)
  BY <1>1, MovesLeft
<1>5. \A c \in Concerned(s, channel2), k \in Nat : Left(labels2, s, channel2, c, k)'
             <=> Left(labels, s, channel2, c, k) /\ ~(removed /\ <<c, k>> = b)
  BY <1>1, MovesLeft
<1>6. removed \in BOOLEAN
  OBVIOUS
<1> HIDE DEF removed, a, b
<1> QED BY <1>1, <1>2, <1>3, <1>4, <1>5, <1>6, AgreeGoesOn

\* In which calls there are reductions in place.
LEMMA InPlaceCalls ==
  ASSUME NEW r, NEW c, NEW k, NEW op, Fits(r, c, k, op), op.kind = "all_reduce_in_place"
  PROVE  /\ program[r][c].op \in CrossEntropies \cup {"class_center_sample"}
         /\ program[r][c].op \in CrossEntropies => k \in {1, 3, 5}
         /\ op.buffer = c /\ op.tensor = TensorOf(program[r][c], k)
<1>1. Messages(r, <<"all", 0>>, c, k) = {<<"all_reduce_in_place", Indices(program[r][c], k)>>}
      /\ op.buffer = c /\ op.tensor = TensorOf(program[r][c], k)
  BY DEF Fits, Channel
<1>2. <<"all_reduce_in_place", Indices(program[r][c], k)>> \in Together(program[r][c], k)
  BY <1>1 DEF Messages
<1> DEFINE x == program[r][c]
           i == Indices(x, k)
<1>3. <<"all_reduce_in_place", i>> \in Together(x, k)
  BY <1>2
<1> HIDE DEF x, i
<1>4. x.op \in CrossEntropies \cup {"class_center_sample"}
  <2> SUFFICES ASSUME x.op \notin CrossEntropies, x.op # "class_center_sample" PROVE FALSE
    OBVIOUS
  <2>1. \A y \in Together(x, k) : y[1] \in {"all_gather", "broadcast", "all_reduce", "reduce_scatter"}
    BY DEF Together, Wholes
  <2> QED BY <1>3, <2>1
<1>5. x.op \in CrossEntropies => k \in {1, 3, 5}
  BY <1>3 DEF Together, CrossEntropies, Wholes
<1> QED BY <1>1, <1>4, <1>5 DEF x
-----------------------------------------------------------------------------
\* What is in a stream that has moved on was in it before.
LEMMA WasPending ==
  ASSUME NEW groups, NEW labels, NEW done, NEW groups2, NEW labels2,
         Moves(groups, labels, done, groups2, labels2), NEW i \in 1..Len(groups2)
  PROVE  \E j \in 1..Len(groups) : labels2[i] = labels[j] /\ groups2[i] \subseteq groups[j]
<1>1. CASE groups2 = groups /\ labels2 = labels /\ done = {}
  BY <1>1
<1>2. CASE \E n : Shifted(groups, labels, done, groups2, labels2, n)
  <2>1. PICK n : Shifted(groups, labels, done, groups2, labels2, n)
    BY <1>2
  <2>2. /\ n \in {0, 1} /\ Len(groups) \in Nat /\ Len(groups2) = Len(groups) - n
        /\ \A h \in 1..Len(groups2) :
             /\ labels2[h] = labels[h + n]
             /\ groups2[h] = IF h + n = 1 THEN groups[1] \ done ELSE groups[h + n]
    BY <2>1 DEF Shifted
  <2>3. i + n \in 1..Len(groups) /\ labels2[i] = labels[i + n]
    BY <2>2
  <2>4. groups2[i] \subseteq groups[i + n]
    BY <2>2
  <2> QED BY <2>3, <2>4
<1> QED BY <1>1, <1>2 DEF Moves

\* And what was not done is still in it.
LEMMA StaysPending ==
  ASSUME NEW groups, NEW labels, NEW done, NEW groups2, NEW labels2,
         Moves(groups, labels, done, groups2, labels2),
         NEW j \in 1..Len(groups), NEW e \in groups[j], e \notin done
  PROVE  \E i \in 1..Len(groups2) : e \in groups2[i]
<1>1. CASE groups2 = groups /\ labels2 = labels /\ done = {}
  BY <1>1
<1>2. CASE \E n : Shifted(groups, labels, done, groups2, labels2, n)
  <2>1. PICK n : Shifted(groups, labels, done, groups2, labels2, n)
    BY <1>2
  <2>2. /\ n \in {0, 1} /\ Len(groups) \in Nat /\ Len(groups2) = Len(groups) - n
        /\ \A i \in 1..Len(groups2) : groups2[i] = IF i + n = 1 THEN groups[1] \ done ELSE groups[i + n]
        /\ n = 1 => groups[1] \subseteq done
    BY <2>1 DEF Shifted
  <2>3. j - n \in 1..Len(groups2) /\ (j - n) + n = j
    BY <2>2
  <2>4. e \in groups2[j - n]
    BY <2>2, <2>3
  <2> QED BY <2>3, <2>4
<1> QED BY <1>1, <1>2 DEF Moves

\* What no kernel has done leaves the reductions their tensors.
KeepsTensors(buffer, buffer2) ==
  \A t \in DOMAIN buffer : t \in DOMAIN buffer2 /\ DOMAIN buffer2[t] = DOMAIN buffer[t]
TensorsKept(r, buffers, buffers2) ==
  \A c \in DOMAIN program[r] : program[r][c].op \in CrossEntropies \cup {"class_center_sample"} =>
    KeepsTensors(buffers[c], buffers2[c])

\* Reductions in place find what they reduce while others go on.
LEMMA ReductionsMove ==
  ASSUME NEW r, NEW groups, NEW labels, Labelled(r, groups, labels), NEW buffers,
         Reductions(r, groups, labels, buffers),
         NEW done, NEW groups2, NEW labels2, Moves(groups, labels, done, groups2, labels2),
         \A e \in done : e.op.kind # "kernel",
         NEW buffers2,
         TensorsKept(r, buffers, buffers2)
  PROVE  Reductions(r, groups2, labels2, buffers2)
<1> SUFFICES ASSUME NEW i \in 1..Len(groups2), NEW e \in groups2[i], e.op.kind = "all_reduce_in_place"
             PROVE  LET c == labels2[i][1]
                        k == labels2[i][2]
                    IN  /\ i = 1 \/ program[r][c].op = "class_center_sample"
                             => /\ e.op.tensor \in DOMAIN buffers2[c]
                                /\ DOMAIN buffers2[c][e.op.tensor] = Indices(program[r][c], k)
                        /\ i # 1 /\ program[r][c].op \in CrossEntropies
                             => labels2[i - 1] = <<c, k - 1>> /\ \E f \in groups2[i - 1] : f.op.kind = "kernel"
  BY DEF Reductions
<1>0. CASE groups2 = groups /\ labels2 = labels
  <2>1. labels[i][1] \in DOMAIN program[r] /\ Fits(r, labels[i][1], labels[i][2], e.op)
    BY <1>0 DEF Labelled, GroupFits
  <2>2. program[r][labels[i][1]].op \in CrossEntropies \cup {"class_center_sample"}
    BY <2>1, InPlaceCalls
  <2>3. KeepsTensors(buffers[labels[i][1]], buffers2[labels[i][1]])
    BY <2>1, <2>2 DEF TensorsKept
  <2> QED BY <1>0, <2>3 DEF Reductions, KeepsTensors
<1>1. CASE \E n : Shifted(groups, labels, done, groups2, labels2, n)
  <2>1. PICK n : Shifted(groups, labels, done, groups2, labels2, n)
    BY <1>1
  <2>2. /\ n \in {0, 1} /\ Len(groups) \in Nat /\ Len(groups2) = Len(groups) - n
        /\ \A h \in 1..Len(groups2) :
             /\ labels2[h] = labels[h + n]
             /\ groups2[h] = IF h + n = 1 THEN groups[1] \ done ELSE groups[h + n]
        /\ n = 1 => groups[1] \subseteq done
    BY <2>1 DEF Shifted
  <2>3. PICK h \in 1..Len(groups) : h = i + n /\ e \in groups[h] /\ labels2[i] = labels[h]
    BY <2>2
  <2> DEFINE c == labels[h][1]
             k == labels[h][2]
  <2>4. c \in DOMAIN program[r] /\ Fits(r, c, k, e.op)
    BY <2>3 DEF Labelled, GroupFits
  <2>5. program[r][c].op \in CrossEntropies \cup {"class_center_sample"}
    BY <2>4, InPlaceCalls
  <2>6. /\ h = 1 \/ program[r][c].op = "class_center_sample"
             => /\ e.op.tensor \in DOMAIN buffers[c]
                /\ DOMAIN buffers[c][e.op.tensor] = Indices(program[r][c], k)
        /\ h # 1 /\ program[r][c].op \in CrossEntropies
             => labels[h - 1] = <<c, k - 1>> /\ \E f \in groups[h - 1] : f.op.kind = "kernel"
    BY <2>3 DEF Reductions
  <2>7. ASSUME i = 1, n = 1, program[r][c].op \in CrossEntropies PROVE FALSE
    <3>1. h # 1 /\ h - 1 = 1
      BY <2>3, <2>7
    <3>2. \E f \in groups[1] : f.op.kind = "kernel"
      BY <2>6, <2>7, <3>1
    <3> QED BY <2>2, <2>7, <3>2
  <2>8. i = 1 \/ program[r][c].op = "class_center_sample"
             => /\ e.op.tensor \in DOMAIN buffers2[c]
                /\ DOMAIN buffers2[c][e.op.tensor] = Indices(program[r][c], k)
    <3> SUFFICES ASSUME i = 1 \/ program[r][c].op = "class_center_sample"
                 PROVE  /\ e.op.tensor \in DOMAIN buffers2[c]
                        /\ DOMAIN buffers2[c][e.op.tensor] = Indices(program[r][c], k)
      OBVIOUS
    <3>1. h = 1 \/ program[r][c].op = "class_center_sample"
      BY <2>2, <2>3, <2>5, <2>7
    <3>2. KeepsTensors(buffers[c], buffers2[c])
      BY <2>4, <2>5 DEF TensorsKept
    <3> HIDE DEF c, k
    <3> QED BY <2>6, <3>1, <3>2 DEF KeepsTensors
  <2>9. ASSUME i # 1, program[r][c].op \in CrossEntropies
        PROVE  labels2[i - 1] = <<c, k - 1>> /\ \E f \in groups2[i - 1] : f.op.kind = "kernel"
    <3>1. i - 1 \in 1..Len(groups2) /\ (i - 1) + n = h - 1 /\ h # 1
      BY <2>2, <2>3, <2>9
    <3>2. labels2[i - 1] = labels[h - 1]
          /\ groups2[i - 1] = IF h - 1 = 1 THEN groups[1] \ done ELSE groups[h - 1]
      BY <2>2, <3>1
    <3>3. labels[h - 1] = <<c, k - 1>>
      BY <2>6, <2>9, <3>1
    <3>4. PICK f \in groups[h - 1] : f.op.kind = "kernel"
      BY <2>6, <2>9, <3>1
    <3>5. f \notin done
      BY <3>4
    <3>6. f \in groups2[i - 1]
      BY <3>2, <3>4, <3>5
    <3> QED BY <3>2, <3>3, <3>4, <3>6
  <2> QED BY <2>3, <2>8, <2>9
<1> QED BY <1>0, <1>1 DEF Moves
-----------------------------------------------------------------------------
ToZero(op) == op.kind = "recv" /\ op.buffer = 0

\* The shape is received, or its receive is still in the stream.
LEMMA ShapesMove ==
  ASSUME NEW labels, NEW labels2, NEW r \in Rank, OfRank(labels, r), Framework,
         NEW done, Moves(stream[r], labels[r], done, stream'[r], labels2[r]),
         UNCHANGED <<program, call, step>>,
         \/ received'[r][0] = received[r][0] /\ \A e \in done : ~ToZero(e.op)
         \/ received'[r][0] = ShapeInfo(Call(r), step[r] - 1)
  PROVE  Shapes(r, labels2[r])'
<1>1. Call(r)' = Call(r) /\ (Finished(r)' <=> Finished(r)) /\ step'[r] = step[r] /\ call'[r] = call[r]
  BY DEF Call, Finished
<1>2. ASSUME NEW i \in 1..Len(stream'[r]), NEW e \in stream'[r][i], ToZero(e.op)
      PROVE  ~Finished(r) /\ step[r] > 0 /\ labels2[r][i] = <<call[r], step[r] - 1>>
  <2>1. PICK j \in 1..Len(stream[r]) : labels2[r][i] = labels[r][j] /\ stream'[r][i] \subseteq stream[r][j]
    BY WasPending
  <2>2. ~Finished(r) /\ step[r] > 0 /\ labels[r][j] = <<call[r], step[r] - 1>>
    BY <1>2, <2>1 DEF OfRank, Shapes, ToZero
  <2> QED BY <2>1, <2>2
<1>3. ASSUME ~Finished(r), Call(r).op = "p_recv", step[r] > 0
      PROVE  /\ Sized(received'[r][0], Len(ShapeInfo(Call(r), step[r] - 1)))
             /\ \/ received'[r][0] = ShapeInfo(Call(r), step[r] - 1)
                \/ \E i \in 1..Len(stream'[r]) : \E e \in stream'[r][i] : ToZero(e.op)
  <2>1. /\ Sized(received[r][0], Len(ShapeInfo(Call(r), step[r] - 1)))
        /\ \/ received[r][0] = ShapeInfo(Call(r), step[r] - 1)
           \/ \E i \in 1..Len(stream[r]) : \E e \in stream[r][i] : ToZero(e.op)
    BY <1>3 DEF OfRank, Shapes, ToZero
  <2>2. CASE received'[r][0] = received[r][0] /\ \A e \in done : ~ToZero(e.op)
    <3>1. ASSUME NEW i \in 1..Len(stream[r]), NEW e \in stream[r][i], ToZero(e.op)
          PROVE  \E j \in 1..Len(stream'[r]) : \E f \in stream'[r][j] : ToZero(f.op)
      <4>1. e \notin done
        BY <2>2, <3>1
      <4>2. \E j \in 1..Len(stream'[r]) : e \in stream'[r][j]
        BY <4>1, StaysPending
      <4> QED BY <3>1, <4>2
    <3> QED BY <2>1, <2>2, <3>1
  <2>3. CASE received'[r][0] = ShapeInfo(Call(r), step[r] - 1)
    <3> DEFINE x == Call(r)
               k == step[r] - 1
    <3>1. call[r] \in DOMAIN program[r] /\ WellFormed(x) /\ step[r] \in Nat /\ step[r] < Steps(x)
      BY <1>3, Places DEF OfRank, Counters, Framework, Finished, Call
    <3>2. x.shape \in Seq(Nat) /\ x.dynamic \in BOOLEAN
      BY <1>3, <3>1 DEF WellFormed, Exchanges, Wholes, CrossEntropies
    <3>3. k \in {0, 1}
      <4>1. Steps(x) = IF x.dynamic THEN 3 ELSE 1
        BY <1>3 DEF Steps
      <4> QED BY <1>3, <3>1, <3>2, <4>1
    <3>4. ShapeInfo(x, k) \in Seq(Seq(Nat))
      <4> x.op \in {"p_send", "p_recv"}
        BY <1>3
      <4> HIDE DEF x, k
      <4>1. ShapeInfo(x, 0) \in Seq(Seq(Nat)) /\ ShapeInfo(x, 1) \in Seq(Seq(Nat))
        BY <3>2, SizesOfShape
      <4> QED BY <3>3, <4>1
    <3>5. Sized(ShapeInfo(x, k), Len(ShapeInfo(x, k)))
      BY <3>4, SeqOfSet, LenProperties DEF Sized
    <3> QED BY <2>3, <3>5
  <2> QED BY <2>2, <2>3
<1> QED BY <1>1, <1>2, <1>3 DEF Shapes, ToZero

\* A rank's part of the invariant, when operations of its stream are done.
LEMMA RankMoves ==
  ASSUME NEW labels, NEW labels2, NEW r \in Rank, OfRank(labels, r), Framework,
         NEW done, Moves(stream[r], labels[r], done, stream'[r], labels2[r]),
         UNCHANGED <<program, call, step>>,
         received'[r] = [b \in 0..Len(program[r]) |-> received'[r][b]],
         Reductions(r, stream'[r], labels2[r], received'[r]),
         \A c \in DOMAIN program[r] :
           /\ IsReceiving(program[r][c]) =>
                \A n : Sized(received[r][c], n) => Sized(received'[r][c], n)
           /\ program[r][c].op \in CrossEntropies => DOMAIN received[r][c] \subseteq DOMAIN received'[r][c],
         \/ received'[r][0] = received[r][0] /\ \A e \in done : ~ToZero(e.op)
         \/ received'[r][0] = ShapeInfo(Call(r), step[r] - 1)
  PROVE  OfRank(labels2, r)'
<1>1. Labelled(r, stream[r], labels2[r])'
  <2>1. Labelled(r, stream[r], labels[r])
    BY DEF OfRank
  <2>2. Labelled(r, stream'[r], labels2[r])
    <3>1. CASE stream'[r] = stream[r] /\ labels2[r] = labels[r]
      BY <2>1, <3>1
    <3>2. CASE \E n : Shifted(stream[r], labels[r], done, stream'[r], labels2[r], n)
      BY <2>1, <3>2, ShiftedLabelled
    <3> QED BY <3>1, <3>2 DEF Moves
  <2> QED BY <2>2, LabelledKept
<1>2. ASSUME NEW i \in 1..Len(stream'[r]) PROVE ~Ahead(r, labels2[r][i][1], labels2[r][i][2])'
  <2>1. PICK j \in 1..Len(stream[r]) : labels2[r][i] = labels[r][j]
    BY WasPending
  <2>2. ~Ahead(r, labels[r][j][1], labels[r][j][2])
    BY DEF OfRank
  <2>3. ~Ahead(r, labels[r][j][1], labels[r][j][2])'
    BY <2>2, AheadKept
  <2> QED BY <2>1, <2>3
<1>3. Reductions(r, stream[r], labels2[r], received[r])'
  BY ReductionsKept
<1>4. Buffers(r)'
  BY DEF OfRank, Buffers
<1>5. Counters(r)'
  BY CountersKept DEF OfRank
<1>6. Shapes(r, labels2[r])'
  BY ShapesMove
<1> QED BY <1>1, <1>2, <1>3, <1>4, <1>5, <1>6 DEF OfRank

\* A step of MCCL or of a kernel, of all ranks.
LEMMA MovesInv ==
  ASSUME NEW labels, CountsInv(labels), NEW labels2, NEW done,
         UNCHANGED <<program, call, step>>,
         DOMAIN stream' = Rank, DOMAIN received' = Rank,
         stream' = [r \in Rank |-> stream'[r]], received' = [r \in Rank |-> received'[r]],
         \A q \in Rank : Moves(stream[q], labels[q], done[q], stream'[q], labels2[q]),
         \A q \in Rank : OfRank(labels2, q)',
         \A r, s \in Rank : \A channel1, channel2 : Ends(r, channel1, s, channel2) =>
           ((\E e \in done[r] : Channel(e.op) = channel1) <=> (\E e \in done[s] : Channel(e.op) = channel2))
  PROVE  CountsInv(labels2)'
<1>1. \A r, s \in Rank : \A channel1, channel2 : Ends(r, channel1, s, channel2) =>
              Agree(labels2, r, channel1, s, channel2)'
  BY MovesAgree
<1>2. program \in Programs /\ DOMAIN call = Rank /\ DOMAIN step = Rank
  BY DEF CountsInv
<1>3. \A r, s \in Rank : /\ Agree(labels2, r, <<"send", s>>, s, <<"recv", r>>)'
                         /\ Agree(labels2, r, <<"all", 0>>, s, <<"all", 0>>)'
  BY <1>1 DEF Ends
<1> QED BY <1>2, <1>3 DEF CountsInv, OfRank
-----------------------------------------------------------------------------
\* Buffers as functions.
LEMMA FunctionSized ==
  ASSUME NEW n \in Nat, NEW f, f = [k \in 1..n |-> f[k]]
  PROVE  Sized(f, n)
<1> DEFINE S == ToSet(f)
<1>1. f \in [1..n -> S]
  BY DEF ToSet
<1> HIDE DEF S
<1>2. f \in Seq(S) /\ Len(f) = n
  BY <1>1
<1>3. IsSeq(f)
  BY <1>2, SeqOfSet
<1> QED BY <1>2, <1>3 DEF Sized

\* Writing into a buffer leaves its size.
LEMMA WriteSized ==
  ASSUME NEW buffer, NEW n, Sized(buffer, n), NEW at, NEW data
  PROVE  Sized(Write(buffer, at, data), n)
<1>1. n \in Nat /\ DOMAIN buffer = 1..n
  BY LenProperties DEF Sized, IsSeq
<1> DEFINE w == Write(buffer, at, data)
<1>2. w = [k \in 1..n |-> w[k]]
  BY <1>1 DEF Write
<1> HIDE DEF w
<1> QED BY <1>1, <1>2, FunctionSized DEF w

\* Writing all of a buffer.
LEMMA WriteWhole ==
  ASSUME NEW buffer, NEW data, NEW S, data \in Seq(S), Sized(buffer, Len(data))
  PROVE  Write(buffer, 0, data) = data
<1> DEFINE n == Len(data)
           w == Write(buffer, 0, data)
<1>1. n \in Nat /\ DOMAIN buffer = 1..n /\ data = [k \in 1..n |-> data[k]]
  BY LenProperties DEF Sized, IsSeq
<1>2. \A k \in 1..n : k \in (0 + 1)..(0 + Len(data)) /\ k - 0 = k
  BY <1>1
<1> QED BY <1>1, <1>2 DEF Write

\* What a receive of the first group writes to.
LEMMA RecvBuffer ==
  ASSUME NEW labels, CountsInv(labels), NEW r \in Rank, NEW e \in Running(r), e.op.kind = "recv"
  PROVE  /\ labels[r][1][1] \in DOMAIN program[r] /\ labels[r][1][1] # 0
         /\ IsReceiving(program[r][labels[r][1][1]])
         /\ \/ /\ e.op.buffer = 0 /\ e.op.at = 0 /\ ToBuffer0(program[r][labels[r][1][1]], labels[r][1][2])
               /\ ~Finished(r) /\ step[r] > 0 /\ labels[r][1] = <<call[r], step[r] - 1>>
            \/ e.op.buffer = labels[r][1][1]
<1>1. OfRank(labels, r) /\ Framework
  BY InvParts
<1>2. /\ e \in stream[r][1] /\ 1 \in 1..Len(stream[r])
      /\ Fits(r, labels[r][1][1], labels[r][1][2], e.op)
  BY <1>1, NextIsFirst
<1>3. labels[r][1][1] \in DOMAIN program[r] /\ labels[r][1][1] # 0
  BY <1>1, <1>2, FirstPlace
<1>4. /\ Messages(r, <<"recv", e.op.peer>>, labels[r][1][1], labels[r][1][2]) = {e.op.count}
      /\ IF ToBuffer0(program[r][labels[r][1][1]], labels[r][1][2]) THEN e.op.buffer = 0 /\ e.op.at = 0
         ELSE e.op.buffer = labels[r][1][1]
  BY <1>2 DEF Fits, Channel
<1>5. IsReceiving(program[r][labels[r][1][1]])
  <2>1. labels[r][1][1] \in Concerned(r, <<"recv", e.op.peer>>)
    BY <1>4 DEF Messages
  <2> QED BY <2>1 DEF Concerned, Receiving, IsReceiving
<1>6. e.op.buffer = 0 => ~Finished(r) /\ step[r] > 0 /\ labels[r][1] = <<call[r], step[r] - 1>>
  BY <1>1, <1>2 DEF OfRank, Shapes
<1> QED BY <1>3, <1>4, <1>5, <1>6

\* A tensor with a shape, or with its length, arrives whole.
LEMMA ShapeArrives ==
  ASSUME NEW labels, CountsInv(labels), NEW s \in Rank, NEW d \in Rank,
         NEW out \in NextWith(s, "send", d), NEW in \in NextWith(d, "recv", s), in.op.buffer = 0
  PROVE  Write(received[d][0], in.op.at, out.op.data) = ShapeInfo(Call(d), step[d] - 1)
<1>1. /\ out \in Running(s) /\ out.op.kind = "send" /\ out.op.peer = d
      /\ in \in Running(d) /\ in.op.kind = "recv" /\ in.op.peer = s
  BY DEF NextWith
<1> DEFINE a == program[s][labels[s][1][1]]
           x == program[d][labels[d][1][1]]
           k == labels[d][1][2]
<1>2. /\ in.op.at = 0 /\ ToBuffer0(x, k) /\ ~Finished(d) /\ step[d] > 0
      /\ labels[d][1] = <<call[d], step[d] - 1>>
  BY <1>1, RecvBuffer
<1>3. x = Call(d) /\ k = step[d] - 1 /\ x.op = "p_recv" /\ k < 2
  BY <1>2 DEF Call, ToBuffer0
<1>4. OfRank(labels, s) /\ OfRank(labels, d) /\ Framework
  BY InvParts
<1>5. Fits(s, labels[s][1][1], labels[s][1][2], out.op) /\ Fits(d, labels[d][1][1], labels[d][1][2], in.op)
  BY <1>1, <1>4, NextIsFirst
<1>6. Channel(out.op) = <<"send", d>> /\ Channel(in.op) = <<"recv", s>>
  BY <1>1 DEF Channel
<1>7. /\ Messages(s, Channel(out.op), labels[s][1][1], labels[s][1][2]) # {}
      /\ Messages(d, Channel(in.op), labels[d][1][1], labels[d][1][2]) # {}
      /\ Ends(s, Channel(out.op), d, Channel(in.op))
  BY <1>5, <1>6, HasMessages DEF Ends
<1>8. labels[s][1][2] = k /\ Fit(a, x)
  BY ONLY CountsInv(labels), s \in Rank, d \in Rank, <1>1, <1>7, HeadsMeet
<1>9. labels[s][1][1] \in Sending(program[s], d)
  <2>1. labels[s][1][1] \in Concerned(s, <<"send", d>>)
    BY <1>6, <1>7 DEF Messages
  <2> QED BY <2>1 DEF Concerned
<1>10. a.op = "p_send" /\ a.shape = x.shape
  <2>1. a.op \in Exchanges \cup {"p_send", "p_send_array"}
    BY <1>9 DEF Sending
  <2> HIDE DEF a, x
  <2> QED BY <1>3, <1>8, <2>1 DEF Fit, Exchanges
<1>11. out.op.data = ShapeInfo(x, k)
  <2>1. out.op.data = ShapeInfo(a, labels[s][1][2])
    BY <1>1, <1>3, <1>5, <1>8, <1>10 DEF Fits
  <2>2. ShapeInfo(a, k) = ShapeInfo(x, k)
    <3> HIDE DEF a, x
    <3> QED BY <1>10 DEF ShapeInfo
  <2> QED BY <1>8, <2>1, <2>2
<1>12. Sized(received[d][0], Len(ShapeInfo(x, k)))
  BY <1>2, <1>3, <1>4 DEF OfRank, Shapes
<1>13. ShapeInfo(x, k) \in Seq(Seq(Nat))
  <2>1. WellFormed(x) /\ k \in Nat
    <3>1. 1 \in 1..Len(stream[d])
      BY <1>1, <1>4, NextIsFirst
    <3> QED BY <1>4, <3>1, Places
  <2>2. x.shape \in Seq(Nat) /\ x.dynamic \in BOOLEAN
    BY <1>3, <2>1 DEF WellFormed, Exchanges, Wholes, CrossEntropies
  <2>3. k < 2 /\ x.op \in {"p_send", "p_recv"}
    BY <1>3
  <2> HIDE DEF x, k
  <2>5. k \in {0, 1}
    BY <2>1, <2>3
  <2>4. ShapeInfo(x, 0) \in Seq(Seq(Nat)) /\ ShapeInfo(x, 1) \in Seq(Seq(Nat))
    BY <2>2, <2>3, SizesOfShape
  <2> QED BY <2>4, <2>5
<1> QED
  <2>1. x = Call(d) /\ k = step[d] - 1 /\ in.op.at = 0
    BY <1>2, <1>3
  <2> HIDE DEF x, k
  <2>2. Write(received[d][0], 0, ShapeInfo(x, k)) = ShapeInfo(x, k)
    BY <1>12, <1>13, WriteWhole
  <2> QED BY <1>11, <2>1, <2>2
-----------------------------------------------------------------------------
KeepsBuffer(x, buffer, buffer2) ==
  /\ IsReceiving(x) => \A n : Sized(buffer, n) => Sized(buffer2, n)
  /\ x.op \in CrossEntropies \cup {"class_center_sample"} => KeepsTensors(buffer, buffer2)

\* A buffer that is not written.
LEMMA SameBuffer ==
  ASSUME NEW x, NEW buffer PROVE KeepsBuffer(x, buffer, buffer)
BY DEF KeepsBuffer, KeepsTensors

\* The same for operations other than the kernels of a cross entropy.
LEMMA PlainMove ==
  ASSUME NEW labels, NEW labels2, NEW r \in Rank, OfRank(labels, r), Framework,
         NEW done, Moves(stream[r], labels[r], done, stream'[r], labels2[r]),
         UNCHANGED <<program, call, step>>,
         received'[r] = [b \in 0..Len(program[r]) |-> received'[r][b]],
         \A e \in done : e.op.kind # "kernel",
         \A c \in DOMAIN program[r] : KeepsBuffer(program[r][c], received[r][c], received'[r][c]),
         \/ received'[r][0] = received[r][0] /\ \A e \in done : ~ToZero(e.op)
         \/ received'[r][0] = ShapeInfo(Call(r), step[r] - 1)
  PROVE  OfRank(labels2, r)'
<1>1. Labelled(r, stream[r], labels[r]) /\ Reductions(r, stream[r], labels[r], received[r])
  BY DEF OfRank
<1>2. TensorsKept(r, received[r], received'[r])
  BY DEF KeepsBuffer, TensorsKept
<1>3. Reductions(r, stream'[r], labels2[r], received'[r])
  BY <1>1, <1>2, ReductionsMove
<1>4. \A c \in DOMAIN program[r] :
           /\ IsReceiving(program[r][c]) =>
                \A n : Sized(received[r][c], n) => Sized(received'[r][c], n)
           /\ program[r][c].op \in CrossEntropies => DOMAIN received[r][c] \subseteq DOMAIN received'[r][c]
  BY DEF KeepsBuffer, KeepsTensors
<1> QED BY <1>3, <1>4, RankMoves

\* A send and its receive keep the invariant.
LEMMA TransferInv ==
  ASSUME NEW labels, CountsInv(labels), NEW s \in Rank, NEW d \in Rank, Transfer(s, d),
         UNCHANGED <<program, call, step>>
  PROVE  \E labels2 : CountsInv(labels2)'
<1>1. PICK out \in NextWith(s, "send", d), in \in NextWith(d, "recv", s) :
        /\ received' = [received EXCEPT ![d][in.op.buffer] = Write(@, in.op.at, out.op.data)]
        /\ stream' = [r \in Rank |->
                    IF r \notin {s, d} THEN stream[r]
                    ELSE Without(stream[r], (IF r = s THEN {out} ELSE {})
                                            \cup (IF r = d THEN {in} ELSE {}))]
  BY DEF Transfer
<1>2. /\ out \in Running(s) /\ out.op.kind = "send" /\ out.op.peer = d
      /\ in \in Running(d) /\ in.op.kind = "recv" /\ in.op.peer = s
  BY DEF NextWith
<1>3. Channel(out.op) = <<"send", d>> /\ Channel(in.op) = <<"recv", s>>
  BY <1>2 DEF Channel
<1>4. PICK done : done = [q \in Rank |-> (IF q = s THEN {out} ELSE {}) \cup (IF q = d THEN {in} ELSE {})]
  OBVIOUS
<1>5. PICK labels2 : labels2 = [q \in Rank |->
        IF q \notin {s, d} THEN labels[q]
        ELSE IF Head(stream[q]) \ done[q] = {} THEN Tail(labels[q]) ELSE labels[q]]
  OBVIOUS
<1>6. /\ Framework /\ \A q \in Rank : OfRank(labels, q)
      /\ received = [q \in Rank |-> received[q]]
  BY InvParts
<1>7. ASSUME NEW q \in Rank PROVE Moves(stream[q], labels[q], done[q], stream'[q], labels2[q])
  <2>1. CASE q \notin {s, d}
    BY <1>1, <1>4, <1>5, <2>1 DEF Moves
  <2>2. CASE q \in {s, d}
    <3>1. stream'[q] = Without(stream[q], done[q])
      BY <1>1, <1>4, <2>2
    <3>2. labels2[q] = IF Head(stream[q]) \ done[q] = {} THEN Tail(labels[q]) ELSE labels[q]
      BY <1>5, <2>2
    <3>3. stream[q] # <<>> /\ done[q] \subseteq stream[q][1]
      BY <1>2, <1>4, <1>6, <2>2, NextIsFirst
    <3>4. Labelled(q, stream[q], labels[q])
      BY <1>6 DEF OfRank
    <3>5. \E n : Shifted(stream[q], labels[q], done[q], stream'[q], labels2[q], n)
      BY <3>1, <3>2, <3>3, <3>4, WithoutShifts
    <3> QED BY <3>3, <3>5 DEF Moves
  <2> QED BY <2>1, <2>2
<1> DEFINE b == in.op.buffer
           w == Write(received[d][b], in.op.at, out.op.data)
<1>8. /\ received' = [q \in Rank |-> received'[q]]
      /\ received'[d] = [received[d] EXCEPT ![b] = w]
      /\ \A q \in Rank : q # d => received'[q] = received[q]
  BY <1>1, <1>6
<1>9. /\ labels[d][1][1] \in DOMAIN program[d] /\ labels[d][1][1] # 0
      /\ IsReceiving(program[d][labels[d][1][1]])
      /\ b = 0 \/ b = labels[d][1][1]
  BY <1>2, RecvBuffer
<1>10. b = 0 => w = ShapeInfo(Call(d), step[d] - 1)
  BY ShapeArrives
<1>11. \A n : Sized(received[d][b], n) => Sized(w, n)
  BY WriteSized
<1> HIDE DEF b, w
<1>12. ASSUME NEW q \in Rank PROVE OfRank(labels2, q)'
  <2>1. /\ OfRank(labels, q) /\ Framework
        /\ Moves(stream[q], labels[q], done[q], stream'[q], labels2[q])
        /\ received[q] = [x \in 0..Len(program[q]) |-> received[q][x]]
    BY <1>6, <1>7 DEF OfRank
  <2>2. \A e \in done[q] : e.op.kind # "kernel"
    BY <1>2, <1>4
  <2>3. received'[q] = [x \in 0..Len(program[q]) |-> received'[q][x]]
    BY <1>8, <2>1
  <2>4. ASSUME NEW c \in DOMAIN program[q]
        PROVE  KeepsBuffer(program[q][c], received[q][c], received'[q][c])
    <3>1. CASE q = d /\ c = b
      <4>1. b \in 0..Len(program[d])
        BY <1>9, <3>1 DEF Framework, b
      <4>2. received'[d][b] = w
        BY <1>8, <2>1, <3>1, <4>1
      <4>3. program[d][b].op \notin CrossEntropies \cup {"class_center_sample"}
        <5>1. b = labels[d][1][1]
          BY <1>6, <1>9, <3>1 DEF Framework
        <5> QED BY <1>9, <5>1 DEF IsReceiving, Exchanges, CrossEntropies
      <4> QED BY <1>11, <3>1, <4>2, <4>3 DEF KeepsBuffer
    <3>2. CASE ~(q = d /\ c = b)
      <4>1. c \in 0..Len(program[q])
        BY <2>1 DEF Framework
      <4>2. received'[q][c] = received[q][c]
        BY <1>8, <2>1, <3>2, <4>1
      <4> QED BY <4>2, SameBuffer
    <3> QED BY <3>1, <3>2
  <2>5. \/ received'[q][0] = received[q][0] /\ \A e \in done[q] : ~ToZero(e.op)
        \/ received'[q][0] = ShapeInfo(Call(q), step[q] - 1)
    <3>1. CASE q = d /\ b = 0
      <4>1. 0 \in 0..Len(program[d])
        BY <1>6 DEF Framework
      <4>2. received'[d][0] = w
        BY <1>8, <2>1, <3>1, <4>1
      <4> QED BY <1>10, <3>1, <4>2
    <3>2. CASE ~(q = d /\ b = 0)
      <4>3. 0 \in 0..Len(program[q])
        BY <2>1 DEF Framework
      <4>1. received'[q][0] = received[q][0]
        BY <1>8, <2>1, <3>2, <4>3
      <4>2. \A e \in done[q] : ~ToZero(e.op)
        BY <1>2, <1>4, <3>2 DEF ToZero, b
      <4> QED BY <4>1, <4>2
    <3> QED BY <3>1, <3>2
  <2> QED BY <2>1, <2>2, <2>3, <2>4, <2>5, PlainMove
<1>13. ASSUME NEW p \in Rank, NEW q \in Rank, NEW channel1, NEW channel2, Ends(p, channel1, q, channel2)
       PROVE  (\E e \in done[p] : Channel(e.op) = channel1) <=> (\E e \in done[q] : Channel(e.op) = channel2)
  <2>1. \A e \in done[p] : Channel(e.op) = channel1 => channel1 = <<"send", q>> /\ p = s /\ q = d /\ channel2 = <<"recv", p>>
    BY <1>3, <1>4, <1>13 DEF Ends
  <2>2. \A e \in done[q] : Channel(e.op) = channel2 => channel2 = <<"recv", p>> /\ p = s /\ q = d /\ channel1 = <<"send", q>>
    BY <1>3, <1>4, <1>13 DEF Ends
  <2>3. out \in done[s] /\ in \in done[d]
    BY <1>4
  <2> QED BY <1>3, <2>1, <2>2, <2>3
<1>14. CountsInv(labels2)'
  <2>1. DOMAIN stream' = Rank /\ stream' = [r \in Rank |-> stream'[r]]
    BY <1>1
  <2>2. DOMAIN received' = Rank
    BY <1>8
  <2> QED BY <1>7, <1>8, <1>12, <1>13, <2>1, <2>2, MovesInv
<1> QED BY <1>14
-----------------------------------------------------------------------------
\* In which calls there are the other operations that all ranks run together.
LEMMA WholeCalls ==
  ASSUME NEW r, NEW c, NEW k, NEW op, Fits(r, c, k, op), op.kind \in AllKinds \ {"all_reduce_in_place"}
  PROVE  /\ program[r][c].op \notin CrossEntropies \cup {"class_center_sample"}
         /\ op.buffer = c
<1> DEFINE x == program[r][c]
           n == Len(op.data)
<1>1. /\ Messages(r, <<"all", 0>>, c, k) = {<<op.kind, n>>} /\ op.buffer = c
      /\ op.kind # "all_reduce_in_place"
  BY DEF Fits, Channel, AllKinds
<1>2. <<op.kind, n>> \in Together(x, k)
  BY <1>1 DEF Messages
<1> HIDE DEF x, n
<1>3. x.op \notin CrossEntropies \cup {"class_center_sample"}
  <2> SUFFICES ASSUME x.op \in CrossEntropies \cup {"class_center_sample"} PROVE FALSE
    OBVIOUS
  <2>1. \A y \in Together(x, k) : y[1] = "all_reduce_in_place"
    BY DEF Together, CrossEntropies, Wholes
  <2> QED BY <1>1, <1>2, <2>1
<1> QED BY <1>1, <1>3 DEF x

\* The operations of all ranks write the output of their own call.
LEMMA AllCalls ==
  ASSUME NEW r, NEW c, NEW k, NEW op, Fits(r, c, k, op), op.kind \in AllKinds
  PROVE  ~IsReceiving(program[r][c]) /\ op.buffer = c
<1>1. Messages(r, <<"all", 0>>, c, k) # {} /\ op.buffer = c
  BY DEF Fits, Channel, AllKinds
<1>2. c \in Joining(program[r])
  <2>1. c \in Concerned(r, <<"all", 0>>)
    BY <1>1 DEF Messages
  <2> QED BY <2>1 DEF Concerned
<1>3. program[r][c].op \in Joint
  BY <1>2 DEF Joining
<1> QED BY <1>1, <1>3 DEF IsReceiving, Exchanges, Joint, Wholes, CrossEntropies

\* The operation at the head of a rank is done, and writes to its buffer.
LEMMA HeadDone ==
  ASSUME NEW labels, CountsInv(labels), NEW q \in Rank, stream[q] # <<>>,
         stream'[q] = Tail(stream[q]), NEW labels2, labels2[q] = Tail(labels[q]),
         NEW done, done = Running(q)
  PROVE  Moves(stream[q], labels[q], done, stream'[q], labels2[q])
<1>1. OfRank(labels, q) /\ Framework
  BY InvParts
<1>2. stream[q][1] = done
  BY DEF Running, Drained
<1>3. Labelled(q, stream[q], labels[q])
  BY <1>1 DEF OfRank
<1>4. Shifted(stream[q], labels[q], done, Tail(stream[q]), Tail(labels[q]), 1)
  BY <1>2, <1>3, TailShifts
<1> QED BY <1>2, <1>4 DEF Moves

\* An operation of all ranks keeps the invariant, whatever it writes.
LEMMA MeetInv ==
  ASSUME NEW labels, CountsInv(labels), NEW kind \in AllKinds, Meet(kind),
         UNCHANGED <<program, call, step>>,
         NEW written,
         received' = [r \in Rank |-> [received[r] EXCEPT ![OpOf(r).buffer] = written[r]]],
         stream' = [r \in Rank |-> Tail(stream[r])],
         kind = "all_reduce_in_place" =>
           \A r \in Rank : KeepsTensors(received[r][OpOf(r).buffer], written[r])
  PROVE  \E labels2 : CountsInv(labels2)'
<1>1. PICK done : done = [q \in Rank |-> Running(q)]
  OBVIOUS
<1>2. PICK labels2 : labels2 = [q \in Rank |-> Tail(labels[q])]
  OBVIOUS
<1>3. /\ Framework /\ \A q \in Rank : OfRank(labels, q)
      /\ received = [q \in Rank |-> received[q]]
  BY InvParts
<1>4. ASSUME NEW q \in Rank
      PROVE  \E e \in Running(q) : /\ e.op.kind = kind /\ OpOf(q) = e.op
                                   /\ Running(q) = {e} /\ Channel(e.op) = <<"all", 0>>
  BY TheOperation DEF Meet
<1>5. ASSUME NEW q \in Rank PROVE Moves(stream[q], labels[q], done[q], stream'[q], labels2[q])
  <2>1. Running(q) # {}
    BY <1>4
  <2>2. stream[q] # <<>> /\ stream'[q] = Tail(stream[q]) /\ labels2[q] = Tail(labels[q]) /\ done[q] = Running(q)
    BY <1>1, <1>2, <2>1 DEF Running, Drained
  <2> QED BY <2>2, HeadDone
<1>6. ASSUME NEW q \in Rank PROVE OfRank(labels2, q)'
  <2>1. /\ OfRank(labels, q) /\ Framework
        /\ Moves(stream[q], labels[q], done[q], stream'[q], labels2[q])
        /\ received[q] = [x \in 0..Len(program[q]) |-> received[q][x]]
    BY <1>3, <1>5 DEF OfRank
  <2>2. PICK e \in Running(q) : /\ e.op.kind = kind /\ OpOf(q) = e.op
                                /\ Running(q) = {e} /\ Channel(e.op) = <<"all", 0>>
    BY <1>4
  <2>3. \A f \in done[q] : f.op.kind # "kernel" /\ ~ToZero(f.op)
    BY <1>1, <2>2 DEF AllKinds, ToZero
  <2> DEFINE b == OpOf(q).buffer
  <2>4. received'[q] = [received[q] EXCEPT ![b] = written[q]]
    OBVIOUS
  <2> HIDE DEF b
  <2>5. received'[q] = [x \in 0..Len(program[q]) |-> received'[q][x]]
    BY <2>1, <2>4
  <2>6. /\ b = labels[q][1][1] /\ b \in DOMAIN program[q] /\ b # 0 /\ ~IsReceiving(program[q][b])
        /\ kind # "all_reduce_in_place" =>
             program[q][b].op \notin CrossEntropies \cup {"class_center_sample"}
    <3>1. Fits(q, labels[q][1][1], labels[q][1][2], e.op) /\ 1 \in 1..Len(stream[q])
      BY <2>1, NextIsFirst
    <3>2. labels[q][1][1] \in DOMAIN program[q] /\ labels[q][1][1] # 0
      BY <2>1, <3>1, Places
    <3> QED BY <2>2, <3>1, <3>2, AllCalls, WholeCalls DEF b
  <2>7. ASSUME NEW c \in DOMAIN program[q]
        PROVE  KeepsBuffer(program[q][c], received[q][c], received'[q][c])
    <3>1. c \in 0..Len(program[q])
      BY <2>1 DEF Framework
    <3>2. CASE c = b
      <4>1. received'[q][c] = written[q]
        BY <2>1, <2>4, <3>1, <3>2
      <4>2. kind = "all_reduce_in_place" => KeepsTensors(received[q][c], received'[q][c])
        BY <3>2, <4>1 DEF b
      <4> QED BY <2>6, <3>2, <4>2 DEF KeepsBuffer
    <3>3. CASE c # b
      <4>1. received'[q][c] = received[q][c]
        BY <2>1, <2>4, <3>1, <3>3
      <4> QED BY <4>1, SameBuffer
    <3> QED BY <3>2, <3>3
  <2>8. received'[q][0] = received[q][0]
    <3>1. 0 \in 0..Len(program[q])
      BY <2>1 DEF Framework
    <3> QED BY <2>1, <2>4, <2>6, <3>1
  <2>9. \A f \in done[q] : f.op.kind # "kernel"
    BY <2>3
  <2>10. received'[q][0] = received[q][0] /\ \A f \in done[q] : ~ToZero(f.op)
    BY <2>3, <2>8
  <2> QED BY <2>1, <2>5, <2>7, <2>9, <2>10, PlainMove
<1>7. ASSUME NEW p \in Rank, NEW q \in Rank, NEW channel1, NEW channel2, Ends(p, channel1, q, channel2)
      PROVE  (\E e \in done[p] : Channel(e.op) = channel1) <=> (\E e \in done[q] : Channel(e.op) = channel2)
  <2>1. PICK e \in Running(p) : Running(p) = {e} /\ Channel(e.op) = <<"all", 0>>
    BY <1>4
  <2>2. PICK f \in Running(q) : Running(q) = {f} /\ Channel(f.op) = <<"all", 0>>
    BY <1>4
  <2>3. done[p] = {e} /\ done[q] = {f}
    BY <1>1, <2>1, <2>2
  <2>4. CASE channel1 = <<"send", q>> /\ channel2 = <<"recv", p>>
    BY <2>1, <2>2, <2>3, <2>4
  <2>5. CASE channel1 = <<"all", 0>> /\ channel2 = <<"all", 0>>
    BY <2>1, <2>2, <2>3, <2>5
  <2> QED BY <1>7, <2>4, <2>5 DEF Ends
<1>8. CountsInv(labels2)'
  <2>1. DOMAIN stream' = Rank /\ stream' = [r \in Rank |-> stream'[r]]
    OBVIOUS
  <2>2. DOMAIN received' = Rank /\ received' = [r \in Rank |-> received'[r]]
    OBVIOUS
  <2> QED BY <1>5, <1>6, <1>7, <2>1, <2>2, MovesInv
<1> QED BY <1>8

\* all_gather, broadcast, all_reduce and reduce_scatter.
LEMMA WholesInv ==
  ASSUME NEW labels, CountsInv(labels), RunAllGather \/ RunBroadcast \/ RunAllReduce \/ RunReduceScatter,
         UNCHANGED <<program, call, step>>
  PROVE  \E labels2 : CountsInv(labels2)'
<1>1. \E kind \in AllKinds \ {"all_reduce_in_place"} : \E written :
         /\ received' = [r \in Rank |-> [received[r] EXCEPT ![OpOf(r).buffer] = written[r]]]
         /\ stream' = [r \in Rank |-> Tail(stream[r])]
         /\ Meet(kind)
  <2>1. CASE RunAllGather
    <3> DEFINE w == [r \in Rank |-> FlattenSeq([k \in 1..NRanks |-> OpOf(k - 1).data])]
    <3>1. received' = [r \in Rank |-> [received[r] EXCEPT ![OpOf(r).buffer] = w[r]]]
      BY <2>1 DEF RunAllGather
    <3>2. stream' = [r \in Rank |-> Tail(stream[r])] /\ Meet("all_gather")
      BY <2>1 DEF RunAllGather
    <3>3. "all_gather" \in AllKinds \ {"all_reduce_in_place"}
      BY DEF AllKinds
    <3> HIDE DEF w
    <3> QED BY ONLY <3>1, <3>2, <3>3
  <2>2. CASE RunBroadcast
    <3> DEFINE w == [r \in Rank |-> OpOf(OpOf(r).peer).data]
    <3>1. received' = [r \in Rank |-> [received[r] EXCEPT ![OpOf(r).buffer] = w[r]]]
      BY <2>2 DEF RunBroadcast
    <3>2. stream' = [r \in Rank |-> Tail(stream[r])] /\ Meet("broadcast")
      BY <2>2 DEF RunBroadcast
    <3>3. "broadcast" \in AllKinds \ {"all_reduce_in_place"}
      BY DEF AllKinds
    <3> HIDE DEF w
    <3> QED BY ONLY <3>1, <3>2, <3>3
  <2>3. CASE RunAllReduce
    <3> DEFINE w == [r \in Rank |-> [k \in DOMAIN OpOf(r).data |->
                       <<OpOf(r).how, {OpOf(s).data[k] : s \in Rank}>>]]
    <3>1. received' = [r \in Rank |-> [received[r] EXCEPT ![OpOf(r).buffer] = w[r]]]
      BY <2>3 DEF RunAllReduce
    <3>2. stream' = [r \in Rank |-> Tail(stream[r])] /\ Meet("all_reduce")
      BY <2>3 DEF RunAllReduce
    <3>3. "all_reduce" \in AllKinds \ {"all_reduce_in_place"}
      BY DEF AllKinds
    <3> HIDE DEF w
    <3> QED BY ONLY <3>1, <3>2, <3>3
  <2>4. CASE RunReduceScatter
    <3> DEFINE w == [r \in Rank |-> [k \in 1..(Len(OpOf(r).data) \div NRanks) |->
                       <<OpOf(r).how, {OpOf(s).data[(Len(OpOf(r).data) \div NRanks) * r + k] : s \in Rank}>>]]
    <3>1. received' = [r \in Rank |-> [received[r] EXCEPT ![OpOf(r).buffer] = w[r]]]
      BY <2>4 DEF RunReduceScatter
    <3>2. stream' = [r \in Rank |-> Tail(stream[r])] /\ Meet("reduce_scatter")
      BY <2>4 DEF RunReduceScatter
    <3>3. "reduce_scatter" \in AllKinds \ {"all_reduce_in_place"}
      BY DEF AllKinds
    <3> HIDE DEF w
    <3> QED BY ONLY <3>1, <3>2, <3>3
  <2> QED BY <2>1, <2>2, <2>3, <2>4
<1>2. PICK kind \in AllKinds \ {"all_reduce_in_place"} : \E written :
         /\ received' = [r \in Rank |-> [received[r] EXCEPT ![OpOf(r).buffer] = written[r]]]
         /\ stream' = [r \in Rank |-> Tail(stream[r])]
         /\ Meet(kind)
  BY <1>1
<1> QED BY <1>2, MeetInv

\* The reductions in place.
LEMMA InPlaceInv ==
  ASSUME NEW labels, CountsInv(labels), RunAllReduceInPlace, UNCHANGED <<program, call, step>>
  PROVE  \E labels2 : CountsInv(labels2)'
<1> DEFINE old(r) == received[r][OpOf(r).buffer]
           new(r) == [k \in DOMAIN old(r)[OpOf(r).tensor] |->
                        Reduced(OpOf(r).how, [s \in Rank |-> old(s)[OpOf(s).tensor][k]])]
           w == [r \in Rank |-> [old(r) EXCEPT ![OpOf(r).tensor] = new(r)]]
<1>1. /\ Meet("all_reduce_in_place") /\ stream' = [r \in Rank |-> Tail(stream[r])]
      /\ received' = [r \in Rank |-> [received[r] EXCEPT ![OpOf(r).buffer][OpOf(r).tensor] = new(r)]]
  BY DEF RunAllReduceInPlace
<1>2. received' = [r \in Rank |-> [received[r] EXCEPT ![OpOf(r).buffer] = w[r]]]
  <2> HIDE DEF new
  <2> QED BY <1>1
<1>3. ASSUME NEW r \in Rank PROVE KeepsTensors(old(r), w[r])
  <2>1. w[r] = [old(r) EXCEPT ![OpOf(r).tensor] = new(r)]
    <3> HIDE DEF new, old
    <3> QED OBVIOUS
  <2>2. DOMAIN new(r) = DOMAIN old(r)[OpOf(r).tensor]
    <3> HIDE DEF old
    <3> QED OBVIOUS
  <2> HIDE DEF w, new, old
  <2> QED BY <2>1, <2>2 DEF KeepsTensors
<1>4. PICK written : written = w
  OBVIOUS
<1>5. \A r \in Rank : KeepsTensors(received[r][OpOf(r).buffer], written[r])
  BY <1>3, <1>4
<1> HIDE DEF w, new
<1> QED BY <1>1, <1>2, <1>4, <1>5, MeetInv DEF AllKinds
-----------------------------------------------------------------------------
OthersSame(labels, r, labels2) ==
  \A q \in Rank : q # r =>
    stream'[q] = stream[q] /\ received'[q] = received[q] /\ labels2[q] = labels[q]

\* A step of the rank's own.
LEMMA OwnInv ==
  ASSUME NEW labels, CountsInv(labels), NEW r \in Rank, NEW e \in Running(r), Channel(e.op)[1] = "own",
         UNCHANGED <<program, call, step>>,
         DOMAIN stream' = Rank, stream' = [q \in Rank |-> stream'[q]],
         DOMAIN received' = Rank, received' = [q \in Rank |-> received'[q]],
         NEW labels2, stream'[r] = Tail(stream[r]), labels2[r] = Tail(labels[r]),
         OthersSame(labels, r, labels2),
         Moves(stream[r], labels[r], Running(r), stream'[r], labels2[r]) => OfRank(labels2, r)'
  PROVE  CountsInv(labels2)'
<1>1. PICK done : done = [q \in Rank |-> IF q = r THEN Running(r) ELSE {}]
  OBVIOUS
<1>2. /\ Framework /\ \A q \in Rank : OfRank(labels, q)
      /\ stream = [q \in Rank |-> stream[q]] /\ DOMAIN stream = Rank
  BY InvParts
<1>3. \A q \in Rank : q # r =>
        stream'[q] = stream[q] /\ received'[q] = received[q] /\ labels2[q] = labels[q]
  BY DEF OthersSame
<1>4. Moves(stream[r], labels[r], done[r], stream'[r], labels2[r])
  <2>1. stream[r] # <<>> /\ done[r] = Running(r) /\ labels2[r] = Tail(labels[r])
    BY <1>1 DEF Running, Drained
  <2> QED BY <1>3, <2>1, HeadDone
<1>5. \A q \in Rank : Moves(stream[q], labels[q], done[q], stream'[q], labels2[q])
  BY <1>1, <1>3, <1>4 DEF Moves
<1>6. ASSUME NEW q \in Rank PROVE OfRank(labels2, q)'
  <2>1. CASE q = r
    BY <1>1, <1>4, <2>1
  <2>2. CASE q # r
    <3>1. /\ OfRank(labels, q) /\ stream'[q] = stream[q] /\ received'[q] = received[q]
          /\ labels2[q] = labels[q] /\ program' = program /\ call'[q] = call[q] /\ step'[q] = step[q]
      BY <1>2, <1>3, <2>2
    <3> QED BY ONLY <3>1, RankKept
  <2> QED BY <2>1, <2>2
<1>7. ASSUME NEW p \in Rank, NEW q \in Rank, NEW channel1, NEW channel2, Ends(p, channel1, q, channel2)
      PROVE  (\E f \in done[p] : Channel(f.op) = channel1) <=> (\E f \in done[q] : Channel(f.op) = channel2)
  <2>1. Running(r) = {e}
    <3>1. GroupFits(r, labels[r][1][1], labels[r][1][2], Running(r))
      BY <1>2, NextIsFirst
    <3> QED BY <3>1 DEF GroupFits
  <2>2. channel1[1] # "own" /\ channel2[1] # "own"
    BY <1>7, EndsNotOwn
  <2> QED BY <1>1, <2>1, <2>2
<1>8. /\ DOMAIN stream' = Rank /\ DOMAIN received' = Rank
      /\ stream' = [q \in Rank |-> stream'[q]] /\ received' = [q \in Rank |-> received'[q]]
  OBVIOUS
<1> QED BY ONLY CountsInv(labels), UNCHANGED <<program, call, step>>, <1>5, <1>6, <1>7, <1>8, MovesInv

\* The copies and transposes of a rank keep the invariant.
LEMMA RearrangeInv ==
  ASSUME NEW labels, CountsInv(labels), NEW r \in Rank, RunRearrange(r), UNCHANGED <<program, call, step>>
  PROVE  \E labels2 : CountsInv(labels2)'
<1>1. PICK e \in Running(r) :
    /\ e.op.kind = "rearrange"
    /\ received' = [received EXCEPT ![r][e.op.buffer] =
                      [k \in DOMAIN e.op.from |-> @[e.op.from[k]]]]
    /\ stream' = [stream EXCEPT ![r] = Tail(@)]
  BY DEF RunRearrange
<1>2. PICK labels2 : labels2 = [q \in Rank |-> IF q = r THEN Tail(labels[r]) ELSE labels[q]]
  OBVIOUS
<1>3. /\ Framework /\ OfRank(labels, r)
      /\ received = [q \in Rank |-> received[q]] /\ DOMAIN received = Rank
      /\ stream = [q \in Rank |-> stream[q]] /\ DOMAIN stream = Rank
  BY InvParts
<1> DEFINE b == e.op.buffer
           w == [k \in DOMAIN e.op.from |-> received[r][b][e.op.from[k]]]
<1>4. received' = [received EXCEPT ![r] = [received[r] EXCEPT ![b] = w]]
  BY <1>1
<1> HIDE DEF w
<1>5. /\ received' = [q \in Rank |-> received'[q]] /\ DOMAIN received' = Rank
      /\ received'[r] = [received[r] EXCEPT ![b] = w]
      /\ \A q \in Rank : q # r => received'[q] = received[q]
  <2> HIDE DEF b
  <2> QED BY <1>3, <1>4
<1>6. Channel(e.op)[1] = "own"
  BY <1>1 DEF Channel
<1>7. /\ Fits(r, labels[r][1][1], labels[r][1][2], e.op)
      /\ GroupFits(r, labels[r][1][1], labels[r][1][2], Running(r))
      /\ 1 \in 1..Len(stream[r])
  BY <1>3, NextIsFirst
<1>8. Running(r) = {e}
  BY <1>6, <1>7 DEF GroupFits
<1>9. b = labels[r][1][1] /\ program[r][b].op \in {"c_concat", "c_scatter"} /\ b \in DOMAIN program[r] /\ b # 0
  <2>1. labels[r][1][1] \in DOMAIN program[r] /\ labels[r][1][1] # 0
    <3>1. OfRank(labels, r) /\ Framework /\ 1 \in 1..Len(stream[r])
      BY <1>3, <1>7
    <3> QED BY ONLY <3>1, r \in Rank, FirstPlace
  <2>2. b = labels[r][1][1] /\ program[r][labels[r][1][1]].op \in {"c_concat", "c_scatter"}
    BY <1>1, <1>7 DEF Fits
  <2> QED BY <2>1, <2>2
<1> HIDE DEF b
<1>10. ASSUME Moves(stream[r], labels[r], Running(r), stream'[r], labels2[r])
       PROVE  OfRank(labels2, r)'
  <2>1. received[r] = [x \in 0..Len(program[r]) |-> received[r][x]] /\ 0 \in 0..Len(program[r])
        /\ DOMAIN program[r] = 1..Len(program[r])
    BY <1>3 DEF OfRank, Framework
  <2>2. received'[r] = [x \in 0..Len(program[r]) |-> received'[r][x]]
    BY <1>5, <2>1
  <2>3. \A f \in Running(r) : f.op.kind # "kernel"
    BY <1>1, <1>8
  <2>4. received'[r][0] = received[r][0] /\ \A f \in Running(r) : ~ToZero(f.op)
    BY <1>1, <1>5, <1>8, <1>9, <2>1 DEF ToZero
  <2>5. ASSUME NEW c \in DOMAIN program[r]
        PROVE  KeepsBuffer(program[r][c], received[r][c], received'[r][c])
    <3>1. CASE c = b
      BY <1>9, <3>1 DEF KeepsBuffer, IsReceiving, Exchanges, CrossEntropies
    <3>2. CASE c # b
      <4>1. received'[r][c] = received[r][c]
        BY <1>5, <2>1, <3>2
      <4> QED BY <4>1, SameBuffer
    <3> QED BY <3>1, <3>2
  <2> QED BY <1>3, <1>10, <2>2, <2>3, <2>4, <2>5, PlainMove
<1>11. stream' = [stream EXCEPT ![r] = Tail(@)]
  BY <1>1
<1>13. Moves(stream[r], labels[r], Running(r), stream'[r], labels2[r]) => OfRank(labels2, r)'
  BY <1>10
<1>14. /\ DOMAIN stream' = Rank /\ stream' = [q \in Rank |-> stream'[q]]
       /\ DOMAIN received' = Rank /\ received' = [q \in Rank |-> received'[q]]
       /\ stream'[r] = Tail(stream[r]) /\ labels2[r] = Tail(labels[r])
  BY <1>2, <1>3, <1>5, <1>11
<1>15. OthersSame(labels, r, labels2)
  BY <1>2, <1>3, <1>5, <1>11 DEF OthersSame
<1>12. CountsInv(labels2)'
  BY ONLY CountsInv(labels), r \in Rank, e \in Running(r), UNCHANGED <<program, call, step>>,
          <1>6, <1>13, <1>14, <1>15, OwnInv
<1> QED BY <1>12
-----------------------------------------------------------------------------
KernelNames == {"maxima", "targets", "sums", "losses"}

\* What the kernels between the reductions leave in their tensors.
LEMMA ComputedTensors ==
  ASSUME NEW x, NEW r, NEW t, Tensors \subseteq DOMAIN t, NEW undone
  PROVE  /\ \A name \in KernelNames : DOMAIN Computed(name, x, r, t, undone) = DOMAIN t
         /\ DOMAIN Computed("maxima", x, r, t, undone)["logits_max"] = DOMAIN x.label
         /\ DOMAIN Computed("targets", x, r, t, undone)["predicted_logits"] = 1..(Len(x.label) * LabelsPerRow(x))
         /\ DOMAIN Computed("sums", x, r, t, undone)["sum_exp_logits"] = DOMAIN x.label
<1>1. /\ DOMAIN Computed("maxima", x, r, t, undone) = DOMAIN t
      /\ DOMAIN Computed("maxima", x, r, t, undone)["logits_max"] = DOMAIN x.label
  BY DEF Computed, MaxOfRows, Rows, Tensors
<1>2. /\ DOMAIN Computed("targets", x, r, t, undone) = DOMAIN t
      /\ DOMAIN Computed("targets", x, r, t, undone)["predicted_logits"] = 1..(Len(x.label) * LabelsPerRow(x))
  <2> DEFINE u == SubtractMax(x, r, t)
  <2>1. DOMAIN u = DOMAIN t
    BY DEF SubtractMax
  <2> HIDE DEF u
  <2>2. Computed("targets", x, r, t, undone) = SoftMaskLabelByIndex(x, r, u)
    BY DEF Computed, u
  <2>3. /\ DOMAIN SoftMaskLabelByIndex(x, r, u) = DOMAIN u
        /\ DOMAIN SoftMaskLabelByIndex(x, r, u)["predicted_logits"] = 1..(Len(x.label) * LabelsPerRow(x))
    BY <2>1 DEF SoftMaskLabelByIndex, Tensors
  <2> QED BY <2>1, <2>2, <2>3
<1>3. /\ DOMAIN Computed("sums", x, r, t, undone) = DOMAIN t
      /\ DOMAIN Computed("sums", x, r, t, undone)["sum_exp_logits"] = DOMAIN x.label
  BY DEF Computed, ExpAndSum, Rows, Tensors
<1>4. DOMAIN Computed("losses", x, r, t, undone) = DOMAIN t
  BY DEF Computed, Scale, CalculateLoss
<1> QED BY <1>1, <1>2, <1>3, <1>4 DEF KernelNames

\* What a kernel launched has left for the reduction behind it.
LEMMA ReducedAfterKernel ==
  ASSUME NEW x, x.op \in CrossEntropies, NEW r, NEW t, Tensors \subseteq DOMAIN t, NEW undone, NEW k \in {1, 3, 5},
         NEW name, name = (CASE k - 1 = 0 -> "maxima" [] k - 1 = 2 -> "targets" [] k - 1 = 4 -> "sums"
                           [] OTHER -> "losses")
  PROVE  /\ TensorOf(x, k) \in DOMAIN Computed(name, x, r, t, undone)
         /\ DOMAIN Computed(name, x, r, t, undone)[TensorOf(x, k)] = Indices(x, k)
<1>1. x.op # "class_center_sample"
  BY DEF CrossEntropies
<1>2. CASE k = 1
  <2>1. name = "maxima" /\ TensorOf(x, k) = "logits_max" /\ Indices(x, k) = DOMAIN x.label
    BY <1>1, <1>2 DEF TensorOf, Indices
  <2> QED BY <2>1, ComputedTensors DEF Tensors, KernelNames
<1>3. CASE k = 3
  <2>1. name = "targets" /\ TensorOf(x, k) = "predicted_logits"
        /\ Indices(x, k) = 1..(Len(x.label) * LabelsPerRow(x))
    BY <1>1, <1>3 DEF TensorOf, Indices
  <2> QED BY <2>1, ComputedTensors DEF Tensors, KernelNames
<1>4. CASE k = 5
  <2>1. name = "sums" /\ TensorOf(x, k) = "sum_exp_logits" /\ Indices(x, k) = DOMAIN x.label
    BY <1>1, <1>4 DEF TensorOf, Indices
  <2> QED BY <2>1, ComputedTensors DEF Tensors, KernelNames
<1> QED BY <1>2, <1>3, <1>4

OtherBuffers(r, b, buffers, buffers2) ==
  \A c \in DOMAIN program[r] : c # b => buffers2[c] = buffers[c]

\* A kernel leaves behind the tensor that the next group reduces.
LEMMA ReductionsAfterKernel ==
  ASSUME NEW r, NEW groups, NEW labels, Labelled(r, groups, labels), groups # <<>>, NEW buffers,
         Reductions(r, groups, labels, buffers),
         NEW e, groups[1] = {e}, e.op.kind = "kernel",
         NEW labels2, NEW groups2, Shifted(groups, labels, {e}, groups2, labels2, 1),
         NEW undone, NEW buffers2, Tensors \subseteq DOMAIN buffers[labels[1][1]],
         buffers2[labels[1][1]] = Computed(e.op.name, program[r][labels[1][1]], r, buffers[labels[1][1]], undone),
         OtherBuffers(r, labels[1][1], buffers, buffers2)
  PROVE  Reductions(r, groups2, labels2, buffers2)
<1> SUFFICES ASSUME NEW i \in 1..Len(groups2), NEW f \in groups2[i], f.op.kind = "all_reduce_in_place"
             PROVE  LET c == labels2[i][1]
                        k == labels2[i][2]
                    IN  /\ i = 1 \/ program[r][c].op = "class_center_sample"
                             => /\ f.op.tensor \in DOMAIN buffers2[c]
                                /\ DOMAIN buffers2[c][f.op.tensor] = Indices(program[r][c], k)
                        /\ i # 1 /\ program[r][c].op \in CrossEntropies
                             => labels2[i - 1] = <<c, k - 1>> /\ \E g \in groups2[i - 1] : g.op.kind = "kernel"
  BY DEF Reductions
<1>1. /\ Len(groups) \in Nat /\ Len(groups2) = Len(groups) - 1
      /\ \A h \in 1..Len(groups2) :
           /\ labels2[h] = labels[h + 1]
           /\ groups2[h] = IF h + 1 = 1 THEN groups[1] \ {e} ELSE groups[h + 1]
  BY DEF Shifted
<1>2. PICK h \in 1..Len(groups) : h = i + 1 /\ f \in groups[h] /\ labels2[i] = labels[h] /\ h # 1
  <2>1. i + 1 \in 1..Len(groups) /\ i + 1 # 1
    BY <1>1
  <2>2. groups2[i] = groups[i + 1] /\ labels2[i] = labels[i + 1]
    BY <1>1, <2>1
  <2> QED BY <2>1, <2>2
<1> DEFINE c == labels[h][1]
           k == labels[h][2]
           c1 == labels[1][1]
           x == program[r][c]
<1>3. c \in DOMAIN program[r] /\ Fits(r, c, k, f.op) /\ k \in Nat
  BY <1>2 DEF Labelled, GroupFits
<1>4. /\ x.op \in CrossEntropies \cup {"class_center_sample"}
      /\ x.op \in CrossEntropies => k \in {1, 3, 5}
      /\ f.op.tensor = TensorOf(x, k)
  BY <1>2, <1>3, InPlaceCalls
<1>5. Fits(r, c1, labels[1][2], e.op)
  <2>1. 1 \in 1..Len(groups)
    BY <1>1, <1>2
  <2> QED BY <2>1 DEF Labelled, GroupFits
<1>6. /\ program[r][c1].op \in CrossEntropies
      /\ e.op.name = (CASE labels[1][2] = 0 -> "maxima" [] labels[1][2] = 2 -> "targets" [] labels[1][2] = 4 -> "sums"
                           [] OTHER -> "losses")
  BY <1>5 DEF Fits
<1>7. /\ x.op = "class_center_sample"
           => /\ f.op.tensor \in DOMAIN buffers[c]
              /\ DOMAIN buffers[c][f.op.tensor] = Indices(x, k)
      /\ x.op \in CrossEntropies
           => labels[h - 1] = <<c, k - 1>> /\ \E g \in groups[h - 1] : g.op.kind = "kernel"
  BY <1>2 DEF Reductions
<1>8. ASSUME x.op = "class_center_sample"
      PROVE  /\ f.op.tensor \in DOMAIN buffers2[c]
             /\ DOMAIN buffers2[c][f.op.tensor] = Indices(x, k)
  <2>1. c # c1
    BY <1>6, <1>8 DEF CrossEntropies
  <2>2. buffers2[c] = buffers[c]
    BY <1>3, <2>1 DEF OtherBuffers
  <2> QED BY <1>7, <1>8, <2>2
<1>9. ASSUME x.op \in CrossEntropies, i = 1
      PROVE  /\ f.op.tensor \in DOMAIN buffers2[c]
             /\ DOMAIN buffers2[c][f.op.tensor] = Indices(x, k)
  <2>1. labels[1] = <<c, k - 1>>
    BY <1>2, <1>7, <1>9
  <2>2. c = c1 /\ labels[1][2] = k - 1
    BY <2>1
  <2>3. buffers2[c] = Computed(e.op.name, x, r, buffers[c], undone) /\ Tensors \subseteq DOMAIN buffers[c]
    BY <2>2
  <2>4. k \in {1, 3, 5}
    BY <1>4, <1>9
  <2>5. e.op.name = (CASE k - 1 = 0 -> "maxima" [] k - 1 = 2 -> "targets" [] k - 1 = 4 -> "sums"
                           [] OTHER -> "losses")
    BY <1>6, <2>2
  <2> HIDE DEF c, k, x
  <2>6. /\ TensorOf(x, k) \in DOMAIN Computed(e.op.name, x, r, buffers[c], undone)
        /\ DOMAIN Computed(e.op.name, x, r, buffers[c], undone)[TensorOf(x, k)] = Indices(x, k)
    BY <1>9, <2>3, <2>4, <2>5, ReducedAfterKernel
  <2> QED BY <1>4, <2>3, <2>6
<1>10. ASSUME x.op \in CrossEntropies, i # 1
       PROVE  labels2[i - 1] = <<c, k - 1>> /\ \E g \in groups2[i - 1] : g.op.kind = "kernel"
  <2>1. i - 1 \in 1..Len(groups2) /\ (i - 1) + 1 = h - 1 /\ h - 1 # 1
    BY <1>1, <1>2, <1>10
  <2>2. labels2[i - 1] = labels[h - 1] /\ groups2[i - 1] = groups[h - 1]
    BY <1>1, <2>1
  <2> QED BY <1>7, <1>10, <2>2
<1>11. x.op = "class_center_sample" => x.op \notin CrossEntropies
  BY DEF CrossEntropies
<1> QED BY <1>2, <1>4, <1>8, <1>9, <1>10, <1>11
-----------------------------------------------------------------------------
\* A cross entropy has launched all of its groups when it has launched one.
LEMMA CrossEntropyReturned ==
  ASSUME NEW labels, NEW r \in Rank, OfRank(labels, r), Framework, NEW i \in 1..Len(stream[r]),
         program[r][labels[r][i][1]].op \in CrossEntropies
  PROVE  labels[r][i][1] < call[r] /\ Tensors \subseteq DOMAIN received[r][labels[r][i][1]]
<1> DEFINE c == labels[r][i][1]
           k == labels[r][i][2]
<1>1. /\ c \in DOMAIN program[r] /\ c \in Nat /\ k \in Nat /\ call[r] \in Nat /\ step[r] \in Nat /\ Posted(r) \in Nat
      /\ DOMAIN program[r] = 1..Len(program[r]) /\ Len(program[r]) \in Nat
  <2>1. labels[r][i] \in Nat \X Nat
    BY Places
  <2> QED BY <2>1, Places
<1>2. ~Ahead(r, c, k)
  BY DEF OfRank
<1>3. c < call[r]
  <2> SUFFICES ASSUME ~(c < call[r]) PROVE FALSE
    OBVIOUS
  <2>1. c = call[r] /\ k < Posted(r)
    <3> HIDE DEF c, k
    <3> QED BY <1>1, <1>2 DEF Ahead
  <2>2. Call(r).op \in CrossEntropies /\ ~Finished(r)
    BY <1>1, <2>1 DEF Call, Finished
  <2>3. Posted(r) = step[r]
    BY <2>2 DEF Posted, CrossEntropies
  <2>4. step[r] < Steps(Call(r)) /\ Steps(Call(r)) = 1
    BY <2>2 DEF OfRank, Counters, Steps, CrossEntropies
  <2> HIDE DEF c, k
  <2> QED BY <1>1, <2>1, <2>3, <2>4
<1>4. Tensors \subseteq DOMAIN received[r][c]
  BY <1>1, <1>3 DEF OfRank, Buffers
<1> QED BY <1>3, <1>4

\* The kernels of a cross entropy keep the invariant.
LEMMA RunKernelInv ==
  ASSUME NEW labels, CountsInv(labels), NEW r \in Rank, RunKernel(r)
  PROVE  \E labels2 : CountsInv(labels2)'
<1>1. PICK e \in Running(r) :
        /\ e.op.kind = "kernel"
        /\ LET c == program[r][e.op.buffer]
           IN  \E undone \in SUBSET Endangered(c) :
                 received' = [received EXCEPT ![r][e.op.buffer] =
                                Computed(e.op.name, c, r, @, undone)]
        /\ stream' = [stream EXCEPT ![r] = Tail(@)]
  BY DEF RunKernel
<1> DEFINE b == e.op.buffer
<1>2. PICK undone : received' = [received EXCEPT ![r][b] = Computed(e.op.name, program[r][b], r, @, undone)]
  BY <1>1
<1>3. UNCHANGED <<program, call, step>>
  BY DEF RunKernel
<1>4. /\ Framework /\ OfRank(labels, r)
      /\ received = [q \in Rank |-> received[q]] /\ DOMAIN received = Rank
      /\ stream = [q \in Rank |-> stream[q]] /\ DOMAIN stream = Rank
  BY InvParts
<1>5. PICK labels2 : labels2 = [q \in Rank |-> IF q = r THEN Tail(labels[r]) ELSE labels[q]]
  OBVIOUS
<1> DEFINE w == Computed(e.op.name, program[r][b], r, received[r][b], undone)
<1>6. received' = [received EXCEPT ![r] = [received[r] EXCEPT ![b] = w]]
  <2> HIDE DEF b
  <2> QED BY <1>2
<1>7. Channel(e.op)[1] = "own"
  BY <1>1 DEF Channel
<1>8. /\ Fits(r, labels[r][1][1], labels[r][1][2], e.op)
      /\ GroupFits(r, labels[r][1][1], labels[r][1][2], Running(r))
      /\ 1 \in 1..Len(stream[r]) /\ stream[r][1] = Running(r) /\ stream[r] # <<>>
  BY <1>4, NextIsFirst
<1>9. Running(r) = {e}
  BY <1>7, <1>8 DEF GroupFits
<1>10. /\ b = labels[r][1][1] /\ program[r][b].op \in CrossEntropies
       /\ b \in DOMAIN program[r] /\ b # 0 /\ e.op.name \in KernelNames
  <2>1. labels[r][1][1] \in DOMAIN program[r] /\ labels[r][1][1] # 0
    <3>1. OfRank(labels, r) /\ Framework /\ 1 \in 1..Len(stream[r])
      BY <1>4, <1>8
    <3> QED BY ONLY <3>1, r \in Rank, FirstPlace
  <2>2. /\ b = labels[r][1][1] /\ program[r][labels[r][1][1]].op \in CrossEntropies
        /\ e.op.name \in KernelNames
    BY <1>1, <1>8 DEF Fits, KernelNames
  <2> QED BY <2>1, <2>2
<1>11. Tensors \subseteq DOMAIN received[r][b]
  BY <1>4, <1>8, <1>10, CrossEntropyReturned
<1>12. DOMAIN w = DOMAIN received[r][b]
  BY <1>10, <1>11, ComputedTensors
<1> HIDE DEF w, b
<1>13. /\ received' = [q \in Rank |-> received'[q]] /\ DOMAIN received' = Rank
       /\ received'[r] = [received[r] EXCEPT ![b] = w]
       /\ \A q \in Rank : q # r => received'[q] = received[q]
  BY <1>4, <1>6
<1>14. ASSUME Moves(stream[r], labels[r], Running(r), stream'[r], labels2[r])
       PROVE  OfRank(labels2, r)'
  <2>1. received[r] = [x \in 0..Len(program[r]) |-> received[r][x]] /\ 0 \in 0..Len(program[r])
        /\ DOMAIN program[r] = 1..Len(program[r])
    BY <1>4 DEF OfRank, Framework
  <2>2. received'[r] = [x \in 0..Len(program[r]) |-> received'[r][x]]
    BY <1>13, <2>1
  <2>3. received'[r][0] = received[r][0] /\ \A f \in Running(r) : ~ToZero(f.op)
    BY <1>1, <1>9, <1>10, <1>13, <2>1 DEF ToZero
  <2>4. received'[r][b] = w /\ \A c \in DOMAIN program[r] : c # b => received'[r][c] = received[r][c]
    BY <1>10, <1>13, <2>1
  <2>5. \A c \in DOMAIN program[r] :
           /\ IsReceiving(program[r][c]) =>
                \A n : Sized(received[r][c], n) => Sized(received'[r][c], n)
           /\ program[r][c].op \in CrossEntropies => DOMAIN received[r][c] \subseteq DOMAIN received'[r][c]
    <3>1. ~IsReceiving(program[r][b])
      BY <1>10 DEF IsReceiving, CrossEntropies, Exchanges
    <3> QED BY <1>12, <2>4, <3>1
  <2>6. Reductions(r, stream'[r], labels2[r], received'[r])
    <3>1. Labelled(r, stream[r], labels[r]) /\ Reductions(r, stream[r], labels[r], received[r])
      BY <1>4 DEF OfRank
    <3>2. Shifted(stream[r], labels[r], {e}, Tail(stream[r]), Tail(labels[r]), 1)
      BY <1>8, <1>9, <3>1, TailShifts
    <3>3. stream'[r] = Tail(stream[r]) /\ labels2[r] = Tail(labels[r])
      BY <1>1, <1>4, <1>5
    <3>4. received'[r][labels[r][1][1]] = Computed(e.op.name, program[r][labels[r][1][1]], r, received[r][labels[r][1][1]], undone)
      BY <1>10, <2>4 DEF w
    <3>5. OtherBuffers(r, labels[r][1][1], received[r], received'[r])
      BY <1>10, <2>4 DEF OtherBuffers
    <3>6. Tensors \subseteq DOMAIN received[r][labels[r][1][1]] /\ stream[r][1] = {e}
      BY <1>8, <1>9, <1>10, <1>11
    <3>7. Shifted(stream[r], labels[r], {e}, stream'[r], labels2[r], 1)
      BY <3>2, <3>3
    <3>8. stream[r] # <<>> /\ e.op.kind = "kernel"
      BY <1>1, <1>8
    <3> QED BY ONLY <3>1, <3>4, <3>5, <3>6, <3>7, <3>8, ReductionsAfterKernel
  <2> QED BY <1>3, <1>4, <1>14, <2>2, <2>3, <2>5, <2>6, RankMoves
<1>15. Moves(stream[r], labels[r], Running(r), stream'[r], labels2[r]) => OfRank(labels2, r)'
  BY <1>14
<1>16. /\ DOMAIN stream' = Rank /\ stream' = [q \in Rank |-> stream'[q]]
       /\ DOMAIN received' = Rank /\ received' = [q \in Rank |-> received'[q]]
       /\ stream'[r] = Tail(stream[r]) /\ labels2[r] = Tail(labels[r])
  BY <1>1, <1>4, <1>5, <1>13
<1>17. OthersSame(labels, r, labels2)
  BY <1>1, <1>4, <1>5, <1>13 DEF OthersSame
<1>18. CountsInv(labels2)'
  BY ONLY CountsInv(labels), r \in Rank, e \in Running(r), <1>3, <1>7, <1>15, <1>16, <1>17, OwnInv
<1> QED BY <1>18

\* Every step of the streams.
LEMMA ProgressInv ==
  ASSUME NEW labels, CountsInv(labels), Progress, UNCHANGED <<program, call, step>>
  PROVE  \E labels2 : CountsInv(labels2)'
<1>1. CASE \E s, d \in Rank : Transfer(s, d)
  BY <1>1, TransferInv
<1>2. CASE RunAllGather \/ RunBroadcast \/ RunAllReduce \/ RunReduceScatter
  BY <1>2, WholesInv
<1>3. CASE RunAllReduceInPlace
  BY <1>3, InPlaceInv
<1>4. CASE \E r \in Rank : RunRearrange(r)
  BY <1>4, RearrangeInv
<1> QED BY <1>1, <1>2, <1>3, <1>4 DEF Progress
-----------------------------------------------------------------------------
\* A step of the host code.

Channels == ({"send", "recv"} \X Rank) \cup {<<"all", 0>>}

\* What a kernel's next step leaves to the ranks that are not its own.
OthersKept(r) ==
  \A q \in Rank : q # r => /\ stream'[q] = stream[q] /\ received'[q] = received[q]
                           /\ call'[q] = call[q] /\ step'[q] = step[q]
WellShaped ==
  /\ DOMAIN stream = Rank /\ DOMAIN received = Rank /\ DOMAIN call = Rank /\ DOMAIN step = Rank
  /\ stream = [q \in Rank |-> stream[q]] /\ received = [q \in Rank |-> received[q]]

\* The groups of the current call that are ahead no more.
Leaving(r, leaving) ==
  /\ \A c, k \in Nat : Ahead(r, c, k)' <=> Ahead(r, c, k) /\ ~(c = call[r] /\ k \in leaving)
  /\ \A k \in leaving : Ahead(r, call[r], k)
  /\ leaving \subseteq Nat

\* The launched groups t, of the current call, are those that leave.
Launches(r, leaving, t, tl) ==
  /\ Labelled(r, t, tl)
  /\ \A j \in 1..Len(t) : tl[j][1] = call[r] /\ tl[j][2] \in leaving
  /\ \A channel \in Channels, k \in leaving :
       Messages(r, channel, call[r], k) # {} => InStream(t, tl, channel, call[r], k)

\* The channels of ranks.
LEMMA EndsAreChannels ==
  ASSUME NEW r \in Rank, NEW s \in Rank, NEW channel1, NEW channel2, Ends(r, channel1, s, channel2)
  PROVE  channel1 \in Channels /\ channel2 \in Channels
BY DEF Ends, Channels

\* What a call launches has labels behind those of the stream.
LEMMA LaunchedLater ==
  ASSUME NEW labels, NEW r \in Rank, OfRank(labels, r), Framework,
         NEW leaving, Leaving(r, leaving), NEW t, NEW tl, Launches(r, leaving, t, tl)
  PROVE  \A i \in 1..Len(stream[r]), j \in 1..Len(t) : Before(labels[r][i], tl[j])
<1> SUFFICES ASSUME NEW i \in 1..Len(stream[r]), NEW j \in 1..Len(t) PROVE Before(labels[r][i], tl[j])
  OBVIOUS
<1> DEFINE a == labels[r][i]
           b == tl[j]
<1>1. a \in Nat \X Nat /\ call[r] \in Nat /\ Posted(r) \in Nat
  BY Places
<1>2. ~Ahead(r, a[1], a[2])
  BY DEF OfRank
<1>3. b[1] = call[r] /\ b[2] \in leaving /\ b[2] \in Nat
  BY DEF Launches, Leaving
<1>4. Ahead(r, b[1], b[2])
  BY <1>3 DEF Leaving
<1>5. a[1] \in Nat /\ a[2] \in Nat /\ b[1] \in Nat
  BY <1>1, <1>3
<1> HIDE DEF a, b
<1>6. Before(a, b)
  <2>1. a[1] <= call[r] /\ (a[1] = call[r] => a[2] < Posted(r))
    BY <1>1, <1>2, <1>5 DEF Ahead
  <2>2. b[2] >= Posted(r)
    BY <1>1, <1>3, <1>4 DEF Ahead
  <2> QED BY <1>1, <1>3, <1>5, <2>1, <2>2 DEF Before
<1> QED BY <1>6 DEF a, b

\* To launch a group takes it from those ahead and puts it into the stream: what is left
\* is the same.
LEMMA HostLeft ==
  ASSUME NEW labels, NEW r \in Rank, OfRank(labels, r), Framework, program' = program,
         NEW leaving, Leaving(r, leaving), NEW t, NEW tl, Launches(r, leaving, t, tl),
         stream'[r] = stream[r] \o t, NEW labels2, labels2[r] = labels[r] \o tl,
         NEW channel \in Channels, NEW c \in Concerned(r, channel), NEW k \in Nat
  PROVE  Left(labels2, r, channel, c, k)' <=> Left(labels, r, channel, c, k)
<1>1. Labelled(r, stream[r], labels[r]) /\ Labelled(r, t, tl)
  BY DEF OfRank, Launches
<1>2. \A i \in 1..Len(stream[r]), j \in 1..Len(t) : Before(labels[r][i], tl[j])
  BY LaunchedLater
<1>3. InStream(stream[r] \o t, labels[r] \o tl, channel, c, k)
        <=> InStream(stream[r], labels[r], channel, c, k) \/ InStream(t, tl, channel, c, k)
  BY <1>1, <1>2, AppendLabelled
<1>4. InStream(stream[r], labels2[r], channel, c, k)'
        <=> InStream(stream[r], labels[r], channel, c, k) \/ InStream(t, tl, channel, c, k)
  BY <1>3 DEF InStream
<1>5. Messages(r, channel, c, k)' = Messages(r, channel, c, k)
  BY MessagesKept
<1>6. c \in Nat
  BY DEF Framework
<1>7. Ahead(r, c, k)' <=> Ahead(r, c, k) /\ ~(c = call[r] /\ k \in leaving)
  BY <1>6 DEF Leaving
<1>8. ASSUME c = call[r], k \in leaving, Messages(r, channel, c, k) # {}
      PROVE  InStream(t, tl, channel, c, k) /\ Ahead(r, c, k)
  BY <1>8 DEF Launches, Leaving
<1>9. ASSUME InStream(t, tl, channel, c, k) PROVE Ahead(r, c, k)
  <2>1. PICK j \in 1..Len(t) : tl[j] = <<c, k>>
    BY <1>9 DEF InStream
  <2>2. c = call[r] /\ k \in leaving
    BY <2>1 DEF Launches
  <2> QED BY <2>2 DEF Leaving
<1> QED BY <1>4, <1>5, <1>7, <1>8, <1>9 DEF Left

\* A step of a kernel's host code keeps the invariant, if each part that it changes is
\* kept: what the lemmas below show of each kernel.
LEMMA HostStep ==
  ASSUME NEW labels, CountsInv(labels), NEW r \in Rank, program' = program,
         WellShaped', OthersKept(r),
         NEW leaving, Leaving(r, leaving), NEW t, NEW tl, Launches(r, leaving, t, tl),
         stream'[r] = stream[r] \o t,
         received'[r] = [b \in 0..Len(program[r]) |-> received'[r][b]],
         Reductions(r, stream'[r], labels[r] \o tl, received'[r]),
         Buffers(r)', Counters(r)', \A l : l = labels[r] \o tl => Shapes(r, l)'
  PROVE  \E labels2 : CountsInv(labels2)'
<1>1. PICK labels2 : labels2 = [q \in Rank |-> IF q = r THEN labels[r] \o tl ELSE labels[q]]
  OBVIOUS
<1>2. labels2[r] = labels[r] \o tl /\ \A q \in Rank : q # r => labels2[q] = labels[q]
  BY <1>1
<1>3. /\ Framework /\ \A q \in Rank : OfRank(labels, q)
      /\ \A p, q \in Rank : \A channel1, channel2 : Ends(p, channel1, q, channel2) =>
           Agree(labels, p, channel1, q, channel2)
  BY InvParts
<1>4. OfRank(labels2, r)'
  <2>1. Labelled(r, stream[r], labels[r]) /\ Labelled(r, t, tl) /\ OfRank(labels, r)
    BY <1>3 DEF OfRank, Launches
  <2>2. \A i \in 1..Len(stream[r]), j \in 1..Len(t) : Before(labels[r][i], tl[j])
    BY <1>3, LaunchedLater
  <2>3. Labelled(r, stream'[r], labels2[r])
    BY <1>2, <2>1, <2>2, AppendLabelled
  <2>4. Labelled(r, stream[r], labels2[r])'
    BY <2>3, LabelledKept
  <2>5. ASSUME NEW i \in 1..Len(stream'[r]) PROVE ~Ahead(r, labels2[r][i][1], labels2[r][i][2])'
    <3> DEFINE g == stream[r]
               l == labels[r]
    <3>1. /\ IsSeq(g) /\ IsSeq(l) /\ IsSeq(t) /\ IsSeq(tl) /\ Len(l) = Len(g) /\ Len(tl) = Len(t)
          /\ Len(g) \in Nat /\ Len(t) \in Nat
      <4>1. IsSeq(g) /\ IsSeq(t) /\ l \in Seq(Nat \X Nat) /\ tl \in Seq(Nat \X Nat)
            /\ Len(l) = Len(g) /\ Len(tl) = Len(t)
        BY <2>1 DEF Labelled
      <4>2. IsSeq(l) /\ IsSeq(tl)
        BY <4>1, SeqOfSet
      <4>3. Len(g) \in Nat /\ Len(t) \in Nat
        BY <4>1, LenProperties DEF IsSeq
      <4> QED BY <4>1, <4>2, <4>3
    <3>2. /\ Len(g \o t) = Len(g) + Len(t)
          /\ \A j \in 1..Len(l) : (l \o tl)[j] = l[j]
          /\ \A j \in 1..Len(tl) : (l \o tl)[Len(l) + j] = tl[j]
      <4> HIDE DEF g, l
      <4>1. Len(g \o t) = Len(g) + Len(t)
        BY <3>1, JoinedAt
      <4>2. /\ \A j \in 1..Len(l) : (l \o tl)[j] = l[j]
            /\ \A j \in 1..Len(tl) : (l \o tl)[Len(l) + j] = tl[j]
        BY <3>1, JoinedAt
      <4> QED BY <4>1, <4>2
    <3>3. i \in 1..(Len(g) + Len(t)) /\ labels2[r] = l \o tl
      BY <1>2, <3>2
    <3>4. CASE i \in 1..Len(g)
      <4>1. labels2[r][i] = l[i]
        BY <3>1, <3>2, <3>3, <3>4
      <4>2. ~Ahead(r, l[i][1], l[i][2]) /\ l[i][1] \in Nat /\ l[i][2] \in Nat
        <5>1. l[i] \in Nat \X Nat
          BY <1>3, <2>1, <3>4, Places
        <5> QED BY <2>1, <3>4, <5>1 DEF OfRank
      <4>3. ~Ahead(r, l[i][1], l[i][2])'
        BY <4>2 DEF Leaving
      <4> QED BY <4>1, <4>3
    <3>5. CASE i \notin 1..Len(g)
      <4>1. PICK j \in 1..Len(t) : i = Len(g) + j
        <5>1. i - Len(g) \in 1..Len(t) /\ i = Len(g) + (i - Len(g))
          BY <3>1, <3>3, <3>5
        <5> QED BY <5>1
      <4>2. labels2[r][i] = tl[j]
        BY <3>1, <3>2, <3>3, <4>1
      <4>3. tl[j][1] = call[r] /\ tl[j][2] \in leaving
        BY DEF Launches
      <4>4. tl[j][1] \in Nat /\ tl[j][2] \in Nat
        <5>1. call[r] \in Nat
          BY <1>3, <2>1, Places
        <5> QED BY <4>3, <5>1 DEF Leaving
      <4>5. ~Ahead(r, tl[j][1], tl[j][2])'
        BY <4>3, <4>4 DEF Leaving
      <4> QED BY <4>2, <4>5
    <3> QED BY <3>4, <3>5
  <2>6. Reductions(r, stream[r], labels2[r], received[r])'
    BY <1>2, ReductionsKept
  <2>7. Shapes(r, labels2[r])'
    BY <1>2
  <2> QED BY <2>4, <2>5, <2>6, <2>7 DEF OfRank
<1>5. ASSUME NEW q \in Rank PROVE OfRank(labels2, q)'
  <2>1. CASE q = r
    BY <1>4, <2>1
  <2>2. CASE q # r
    <3>1. /\ OfRank(labels, q) /\ stream'[q] = stream[q] /\ received'[q] = received[q]
          /\ labels2[q] = labels[q] /\ program' = program /\ call'[q] = call[q] /\ step'[q] = step[q]
      BY <1>2, <1>3, <2>2 DEF OthersKept
    <3> QED BY ONLY <3>1, RankKept
  <2> QED BY <2>1, <2>2
<1>6. ASSUME NEW q \in Rank, NEW channel \in Channels, NEW c \in Concerned(q, channel), NEW k \in Nat
      PROVE  Left(labels2, q, channel, c, k)' <=> Left(labels, q, channel, c, k)
  <2>1. CASE q = r
    BY <1>2, <1>3, <2>1, HostLeft
  <2>2. CASE q # r
    <3>1. /\ stream'[q] = stream[q] /\ labels2[q] = labels[q] /\ program' = program
          /\ call'[q] = call[q] /\ step'[q] = step[q]
      BY <1>2, <2>2 DEF OthersKept
    <3> QED BY ONLY <3>1, LeftKept
  <2> QED BY <2>1, <2>2
<1>7. ASSUME NEW p \in Rank, NEW q \in Rank, NEW channel1, NEW channel2, Ends(p, channel1, q, channel2)
      PROVE  Agree(labels2, p, channel1, q, channel2)'
  <2>1. channel1 \in Channels /\ channel2 \in Channels /\ Agree(labels, p, channel1, q, channel2)
    BY <1>3, <1>7, EndsAreChannels
  <2>2. Concerned(p, channel1) \subseteq Nat /\ Concerned(q, channel2) \subseteq Nat
    BY <1>3 DEF Framework
  <2>3. PICK removed \in BOOLEAN : removed = FALSE
    OBVIOUS
  <2>4. \A c \in Concerned(p, channel1), k \in Nat : Left(labels2, p, channel1, c, k)'
             <=> Left(labels, p, channel1, c, k) /\ ~(removed /\ <<c, k>> = <<0, 0>>)
    BY <1>6, <2>1, <2>3
  <2>5. \A c \in Concerned(q, channel2), k \in Nat : Left(labels2, q, channel2, c, k)'
             <=> Left(labels, q, channel2, c, k) /\ ~(removed /\ <<c, k>> = <<0, 0>>)
    BY <1>6, <2>1, <2>3
  <2>6. removed => LeastLeft(labels, p, channel1, <<0, 0>>) /\ LeastLeft(labels, q, channel2, <<0, 0>>)
    BY <2>3
  <2> QED BY ONLY program' = program, removed \in BOOLEAN, <2>1, <2>2, <2>4, <2>5, <2>6, AgreeGoesOn
<1>8. CountsInv(labels2)'
  <2>1. program \in Programs
    BY InvParts
  <2>2. \A p, q \in Rank : /\ Agree(labels2, p, <<"send", q>>, q, <<"recv", p>>)'
                           /\ Agree(labels2, p, <<"all", 0>>, q, <<"all", 0>>)'
    BY <1>7 DEF Ends
  <2> QED BY <1>5, <2>1, <2>2 DEF CountsInv, OfRank, WellShaped
<1> QED BY <1>8
-----------------------------------------------------------------------------
\* A kernel's step to the next one, or its return, and the groups that are ahead no more.
Goes(r, leaving) ==
  \/ Return(r) /\ leaving = {k \in Nat : k >= Posted(r)}
  \/ \E n \in Nat : /\ Goto(r, n) /\ step[r] <= n /\ n # 0 /\ n < Steps(Call(r))
                    /\ leaving = {k \in Nat : /\ Posted(r) <= k
                                              /\ k < (IF Call(r).op = "c_scatter" THEN 2 * n ELSE n)}

\* Which groups are ahead no more, from the counters.
LEMMA GoesLeaves ==
  ASSUME NEW labels, CountsInv(labels), NEW r \in Rank, ~Finished(r), NEW leaving, Goes(r, leaving)
  PROVE  /\ Leaving(r, leaving) /\ Counters(r)' /\ program' = program
         /\ DOMAIN call' = Rank /\ DOMAIN step' = Rank
         /\ \A q \in Rank : q # r => call'[q] = call[q] /\ step'[q] = step[q]
<1>1. /\ Framework /\ OfRank(labels, r) /\ DOMAIN call = Rank /\ DOMAIN step = Rank
      /\ call[r] \in Nat \ {0} /\ step[r] \in Nat /\ Posted(r) \in Nat
      /\ DOMAIN program[r] = 1..Len(program[r]) /\ Len(program[r]) \in Nat
  <2>1. Framework /\ OfRank(labels, r) /\ DOMAIN call = Rank /\ DOMAIN step = Rank
    BY InvParts
  <2> QED BY <2>1, Places
<1>2. CASE Return(r) /\ leaving = {k \in Nat : k >= Posted(r)}
  <2>1. /\ program' = program /\ DOMAIN call' = Rank /\ DOMAIN step' = Rank
        /\ call'[r] = call[r] + 1 /\ step'[r] = 0
        /\ \A q \in Rank : q # r => call'[q] = call[q] /\ step'[q] = step[q]
    BY <1>1, <1>2 DEF Return
  <2>2. Posted(r)' = 0
    BY <2>1 DEF Posted
  <2>3. Leaving(r, leaving)
    BY <1>1, <1>2, <2>1, <2>2 DEF Leaving, Ahead
  <2>4. call[r] \in 1..Len(program[r])
    BY <1>1 DEF Finished
  <2>5. Counters(r)'
    <3>1. CASE Finished(r)'
      BY <1>1, <2>1, <2>4, <3>1 DEF Counters
    <3>2. CASE ~Finished(r)'
      <4>1. call'[r] \in DOMAIN program[r]
        BY <1>1, <2>1, <2>4, <3>2 DEF Finished
      <4>2. PICK c : c = program[r][call'[r]]
        OBVIOUS
      <4>3. WellFormed(c)
        BY <1>1, <4>1, <4>2 DEF Framework
      <4>4. 0 < Steps(c)
        BY <4>3 DEF WellFormed, Steps, Wholes, CrossEntropies
      <4>5. Steps(Call(r))' = Steps(c)
        BY <2>1, <4>2 DEF Call, Steps
      <4> QED BY <1>1, <2>1, <2>4, <3>2, <4>4, <4>5 DEF Counters
    <3> QED BY <3>1, <3>2
  <2> QED BY <2>1, <2>3, <2>5
<1>3. CASE ~(Return(r) /\ leaving = {k \in Nat : k >= Posted(r)})
  <2>1. PICK n \in Nat : /\ Goto(r, n) /\ step[r] <= n /\ n # 0 /\ n < Steps(Call(r))
                    /\ leaving = {k \in Nat : /\ Posted(r) <= k
                                              /\ k < (IF Call(r).op = "c_scatter" THEN 2 * n ELSE n)}
    BY <1>3 DEF Goes
  <2>2. /\ program' = program /\ call' = call /\ DOMAIN step' = Rank /\ step'[r] = n
        /\ \A q \in Rank : q # r => step'[q] = step[q]
    BY <1>1, <2>1 DEF Goto
  <2>3. Call(r)' = Call(r) /\ (Finished(r)' <=> Finished(r))
    BY <2>2 DEF Call, Finished
  <2>4. PICK m \in Nat : m = (IF Call(r).op = "c_scatter" THEN 2 * n ELSE n)
    OBVIOUS
  <2>5. Posted(r)' = m /\ Posted(r) <= m
    BY <1>1, <2>1, <2>2, <2>3, <2>4 DEF Posted
  <2>6. Leaving(r, leaving)
    BY <1>1, <2>1, <2>2, <2>4, <2>5 DEF Leaving, Ahead
  <2>7. Counters(r)'
    <3>1. Steps(Call(r))' = Steps(Call(r))
      BY <2>3 DEF Steps
    <3> QED BY <1>1, <2>1, <2>2, <2>3, <3>1 DEF Counters, OfRank
  <2> QED BY <1>1, <2>2, <2>6, <2>7
<1> QED BY <1>2, <1>3

\* The buffer of the current call, when its next step has been made.
OwnBuffer(r) ==
  /\ IsReceiving(Call(r)) /\ (Call(r).op # "p_recv" \/ Return(r))
       => Sized(received'[r][call[r]], OutSize(Call(r), r))
  /\ Call(r).op \in CrossEntropies => Tensors \subseteq DOMAIN received'[r][call[r]]
OthersOfRank(r) ==
  \A c \in DOMAIN program[r] : c # call[r] => received'[r][c] = received[r][c]

\* The buffers, when the call goes on or returns.
LEMMA BuffersGo ==
  ASSUME NEW labels, CountsInv(labels), NEW r \in Rank, ~Finished(r), NEW leaving, Goes(r, leaving),
         OwnBuffer(r), OthersOfRank(r)
  PROVE  Buffers(r)'
<1>1. /\ program' = program /\ call[r] \in Nat /\ step[r] \in Nat /\ Buffers(r)
      /\ DOMAIN program[r] = 1..Len(program[r])
      /\ \/ Return(r) /\ call'[r] = call[r] + 1 /\ step'[r] = 0
         \/ ~Return(r) /\ call'[r] = call[r]
  <2>1. Framework /\ OfRank(labels, r) /\ DOMAIN call = Rank /\ DOMAIN step = Rank
    BY InvParts
  <2>2. call[r] \in Nat /\ step[r] \in Nat /\ DOMAIN program[r] = 1..Len(program[r]) /\ Buffers(r)
    BY <2>1, Places DEF OfRank
  <2>3. Return(r) => call'[r] = call[r] + 1 /\ step'[r] = 0
    BY <2>1 DEF Return
  <2>4. (\E n : Goto(r, n)) => call' = call
    BY DEF Goto
  <2>5. program' = program
    BY GoesLeaves
  <2> QED BY <2>2, <2>3, <2>4, <2>5 DEF Goes
<1>2. ASSUME NEW c \in DOMAIN program[r]
      PROVE  /\ /\ IsReceiving(program[r][c])
                /\ c < call'[r] \/ (c = call'[r] /\ step'[r] > 0 /\ program[r][c].op # "p_recv")
                => Sized(received'[r][c], OutSize(program[r][c], r))
             /\ program[r][c].op \in CrossEntropies /\ c < call'[r]
                => Tensors \subseteq DOMAIN received'[r][c]
  <2>1. CASE c = call[r]
    <3>1. Call(r) = program[r][c]
      BY <2>1 DEF Call
    <3> QED BY <1>1, <2>1, <3>1 DEF OwnBuffer
  <2>2. CASE c # call[r]
    <3>1. received'[r][c] = received[r][c]
      BY <2>2 DEF OthersOfRank
    <3>2. /\ c < call'[r] => c < call[r]
          /\ c = call'[r] /\ step'[r] > 0 => FALSE
      BY <1>1, <2>2
    <3> QED BY <1>1, <3>1, <3>2 DEF Buffers
  <2> QED BY <2>1, <2>2
<1>3. ASSUME NEW c PROVE OutSize(c, r)' = OutSize(c, r) /\ (IsReceiving(c)' <=> IsReceiving(c))
  BY DEF OutSize, IsReceiving
<1> QED BY <1>1, <1>2 DEF Buffers
-----------------------------------------------------------------------------
\* The current call gives one of its rank's buffers new contents, or none.
Receives(r, b) ==
  /\ b \in 0..Len(program[r])
  /\ received' = received \/ \E v : received' = [received EXCEPT ![r][b] = v]

\* Only one buffer of one rank is allocated or written.
LEMMA ReceivesOne ==
  ASSUME NEW r \in Rank, NEW b, Receives(r, b), DOMAIN received = Rank,
         received = [q \in Rank |-> received[q]],
         received[r] = [d \in 0..Len(program[r]) |-> received[r][d]]
  PROVE  /\ DOMAIN received' = Rank /\ received' = [q \in Rank |-> received'[q]]
         /\ \A q \in Rank : q # r => received'[q] = received[q]
         /\ received'[r] = [d \in 0..Len(program[r]) |-> received'[r][d]]
         /\ \A d \in 0..Len(program[r]) : d # b => received'[r][d] = received[r][d]
<1>1. CASE received' = received
  BY <1>1
<1>2. CASE received' # received
  <2>1. PICK v : received' = [received EXCEPT ![r][b] = v]
    BY <1>2 DEF Receives
  <2>2. received'[r] = [received[r] EXCEPT ![b] = v]
    BY <2>1
  <2>3. DOMAIN received[r] = 0..Len(program[r])
    OBVIOUS
  <2>4. PICK old : old = received[r]
    OBVIOUS
  <2>5. PICK D : D = 0..Len(program[r])
    OBVIOUS
  <2>6. old = [d \in D |-> old[d]] /\ received'[r] = [old EXCEPT ![b] = v]
    BY <2>2, <2>4, <2>5
  <2>7. /\ received'[r] = [d \in D |-> received'[r][d]]
        /\ \A d \in D : d # b => received'[r][d] = old[d]
    BY ONLY <2>6
  <2>8. /\ DOMAIN received' = Rank /\ received' = [q \in Rank |-> received'[q]]
        /\ \A q \in Rank : q # r => received'[q] = received[q]
    BY <2>1
  <2> QED BY <2>4, <2>5, <2>7, <2>8
<1> QED BY <1>1, <1>2

\* In-place reductions, joined.
Leads(r, t, tl) ==
  \A e \in t[1] : Len(t) # 0 /\ e.op.kind = "all_reduce_in_place"
                   => program[r][tl[1][1]].op \notin CrossEntropies

\* The reductions in place, with groups launched behind those of the stream.
LEMMA ReductionsJoin ==
  ASSUME NEW r, NEW g, NEW l, NEW t, NEW tl, Labelled(r, g, l), Labelled(r, t, tl), NEW buffers,
         Reductions(r, g, l, buffers), Reductions(r, t, tl, buffers), Leads(r, t, tl)
  PROVE  Reductions(r, g \o t, l \o tl, buffers)
<1> DEFINE g2 == g \o t
           l2 == l \o tl
<1>1. /\ IsSeq(g) /\ IsSeq(l) /\ IsSeq(t) /\ IsSeq(tl) /\ Len(l) = Len(g) /\ Len(tl) = Len(t)
  <2>1. IsSeq(g) /\ IsSeq(t) /\ l \in Seq(Nat \X Nat) /\ tl \in Seq(Nat \X Nat)
            /\ Len(l) = Len(g) /\ Len(tl) = Len(t)
    BY DEF Labelled
  <2> QED BY <2>1, SeqOfSet
<1>2. /\ Len(g) \in Nat /\ Len(t) \in Nat /\ Len(g2) = Len(g) + Len(t)
      /\ \A i \in 1..Len(g) : g2[i] = g[i]
      /\ \A i \in 1..Len(t) : g2[Len(g) + i] = t[i]
  BY <1>1, JoinedAt
<1>3. /\ \A i \in 1..Len(g) : l2[i] = l[i]
      /\ \A i \in 1..Len(t) : l2[Len(g) + i] = tl[i]
  <2>1. /\ \A i \in 1..Len(l) : l2[i] = l[i]
        /\ \A i \in 1..Len(tl) : l2[Len(l) + i] = tl[i]
    BY <1>1, JoinedAt
  <2> QED BY <1>1, <2>1
<1> HIDE DEF g2, l2
<1> SUFFICES ASSUME NEW i \in 1..Len(g2), NEW e \in g2[i], e.op.kind = "all_reduce_in_place"
             PROVE  LET c == l2[i][1]
                        k == l2[i][2]
                    IN  /\ i = 1 \/ program[r][c].op = "class_center_sample"
                             => /\ e.op.tensor \in DOMAIN buffers[c]
                                /\ DOMAIN buffers[c][e.op.tensor] = Indices(program[r][c], k)
                        /\ i # 1 /\ program[r][c].op \in CrossEntropies
                             => l2[i - 1] = <<c, k - 1>> /\ \E f \in g2[i - 1] : f.op.kind = "kernel"
  BY DEF Reductions, g2, l2
<1>4. CASE i \in 1..Len(g)
  <2>1. g2[i] = g[i] /\ l2[i] = l[i]
    BY <1>2, <1>3, <1>4
  <2>2. i # 1 => i - 1 \in 1..Len(g) /\ g2[i - 1] = g[i - 1] /\ l2[i - 1] = l[i - 1]
    BY <1>2, <1>3, <1>4
  <2> QED BY <1>4, <2>1, <2>2 DEF Reductions
<1>5. CASE i \notin 1..Len(g)
  <2>1. PICK j \in 1..Len(t) : i = Len(g) + j
    <3>1. i - Len(g) \in 1..Len(t) /\ i = Len(g) + (i - Len(g))
      BY <1>2, <1>5
    <3> QED BY <3>1
  <2>2. g2[i] = t[j] /\ l2[i] = tl[j] /\ j \in Nat
    BY <1>2, <1>3, <2>1
  <2>3. j # 1 => i - 1 = Len(g) + (j - 1) /\ j - 1 \in 1..Len(t)
    BY <1>2, <2>1
  <2>4. j # 1 => g2[i - 1] = t[j - 1] /\ l2[i - 1] = tl[j - 1]
    BY <1>2, <1>3, <2>3
  <2>5. /\ j = 1 \/ program[r][l2[i][1]].op = "class_center_sample"
             => /\ e.op.tensor \in DOMAIN buffers[l2[i][1]]
                /\ DOMAIN buffers[l2[i][1]][e.op.tensor] = Indices(program[r][l2[i][1]], l2[i][2])
        /\ j # 1 /\ program[r][l2[i][1]].op \in CrossEntropies
             => tl[j - 1] = <<l2[i][1], l2[i][2] - 1>> /\ \E f \in t[j - 1] : f.op.kind = "kernel"
    BY <2>2 DEF Reductions
  <2>6. j = 1 => program[r][l2[i][1]].op \notin CrossEntropies
    BY <1>2, <2>1, <2>2 DEF Leads
  <2>7. i = 1 => j = 1
    BY <1>2, <2>1
  <2> QED BY <2>4, <2>5, <2>6, <2>7
<1> QED BY <1>4, <1>5

\* The current call's tensor is in no reduction that is launched, or is left as it is.
LEMMA ReductionsStay ==
  ASSUME NEW labels, NEW r \in Rank, OfRank(labels, r), Framework, ~Finished(r), OthersOfRank(r),
         step[r] = 0 \/ Call(r).op # "class_center_sample" \/ Drained(r)
  PROVE  Reductions(r, stream[r], labels[r], received'[r])
<1> SUFFICES ASSUME NEW i \in 1..Len(stream[r]), NEW e \in stream[r][i],
                    e.op.kind = "all_reduce_in_place"
             PROVE  received'[r][labels[r][i][1]] = received[r][labels[r][i][1]]
  BY DEF OfRank, Reductions
<1> DEFINE c == labels[r][i][1]
           k == labels[r][i][2]
<1>1. c \in DOMAIN program[r] /\ k \in Nat /\ call[r] \in Nat /\ step[r] \in Nat
  BY Places
<1>2. CASE c # call[r]
  BY <1>1, <1>2 DEF OthersOfRank
<1>3. CASE c = call[r]
  <2>1. ~(k >= Posted(r)) /\ Posted(r) \in Nat
    BY <1>3, Places DEF OfRank, Ahead
  <2>2. Fits(r, c, k, e.op)
    BY DEF OfRank, Labelled, GroupFits
  <2>3. Messages(r, Channel(e.op), c, k) = {<<e.op.kind, Indices(program[r][c], k)>>}
    BY <2>2 DEF Fits
  <2>4. Channel(e.op) = <<"all", 0>>
    BY DEF Channel
  <2>5. <<e.op.kind, Indices(program[r][c], k)>> \in Together(program[r][c], k)
    BY <2>3, <2>4 DEF Messages
  <2>6. program[r][c].op \in CrossEntropies \cup {"class_center_sample"}
    <3> HIDE DEF c, k
    <3> QED BY <2>5 DEF Together, Wholes, CrossEntropies
  <2>7. Call(r) = program[r][c]
    BY <1>3 DEF Call
  <2>8. step[r] > 0
    BY <1>1, <2>1 DEF Posted
  <2>9. step[r] < Steps(Call(r))
    BY DEF OfRank, Counters
  <2>10. Call(r).op = "class_center_sample"
    BY <1>1, <2>6, <2>7, <2>8, <2>9 DEF Steps, CrossEntropies
  <2>11. stream[r] = <<>>
    BY <1>1, <2>8, <2>10 DEF Drained
  <2> QED BY <2>11
<1> QED BY <1>2, <1>3
-----------------------------------------------------------------------------
\* No group receives a shape.
NoShape(groups) ==
  \A i \in 1..Len(groups) : \A e \in groups[i] : ~(e.op.kind = "recv" /\ e.op.buffer = 0)

\* No shape is being received before the call asks for one.
LEMMA NoShapeBefore ==
  ASSUME NEW labels, NEW r \in Rank, OfRank(labels, r), Framework, ~Finished(r),
         Call(r).op # "p_recv" \/ step[r] = 0 \/ Drained(r)
  PROVE  NoShape(stream[r])
<1> SUFFICES ASSUME NEW i \in 1..Len(stream[r]), NEW e \in stream[r][i],
                    e.op.kind = "recv", e.op.buffer = 0
             PROVE  FALSE
  BY DEF NoShape
<1>1. step[r] > 0 /\ labels[r][i] = <<call[r], step[r] - 1>>
  BY DEF OfRank, Shapes
<1>2. labels[r][i][1] = call[r] /\ labels[r][i][2] = step[r] - 1
  BY <1>1
<1>3. step[r] \in Nat /\ Len(stream[r]) \in Nat /\ labels[r][i][1] # 0
  BY Places
<1>4. ~Drained(r)
  BY <1>3 DEF Drained
<1>5. Fits(r, call[r], step[r] - 1, e.op)
  BY <1>2 DEF OfRank, Labelled, GroupFits
<1>6. ToBuffer0(Call(r), step[r] - 1)
  <2>1. IF ToBuffer0(Call(r), step[r] - 1) THEN e.op.buffer = 0 /\ e.op.at = 0
              ELSE e.op.buffer = call[r] /\ e.op.at + e.op.count <= OutSize(Call(r), r)
    BY <1>5 DEF Fits, Call
  <2> QED BY <1>2, <1>3, <2>1
<1> QED BY <1>1, <1>4, <1>6 DEF ToBuffer0

\* Or by a call that asks for none.
LEMMA NoShapeLaunched ==
  ASSUME NEW labels, NEW r \in Rank, OfRank(labels, r), Framework, ~Finished(r),
         NEW leaving, NEW t, NEW tl, Launches(r, leaving, t, tl),
         Call(r).op # "p_recv" \/ (\A j \in 1..Len(t) : tl[j][2] \notin {0, 1}), leaving \subseteq Nat
  PROVE  NoShape(t)
<1> SUFFICES ASSUME NEW j \in 1..Len(t), NEW e \in t[j], e.op.kind = "recv", e.op.buffer = 0
             PROVE  FALSE
  BY DEF NoShape
<1>1. tl[j][1] = call[r] /\ tl[j][2] \in leaving /\ call[r] # 0
  BY Places DEF Launches
<1>2. Fits(r, call[r], tl[j][2], e.op)
  BY <1>1 DEF Launches, Labelled, GroupFits
<1>3. IF ToBuffer0(Call(r), tl[j][2]) THEN e.op.buffer = 0 /\ e.op.at = 0
            ELSE e.op.buffer = call[r] /\ e.op.at + e.op.count <= OutSize(Call(r), r)
  BY <1>2 DEF Fits, Call
<1>4. PICK k : k = tl[j][2]
  OBVIOUS
<1>5. k \in Nat /\ k \in leaving
  BY <1>1, <1>4
<1>6. Call(r).op = "p_recv" => ~(k < 2)
  BY <1>4, <1>5
<1> QED BY <1>1, <1>3, <1>4, <1>6 DEF ToBuffer0

\* Or in both.
LEMMA NoShapeJoined ==
  ASSUME NEW g, NEW t, IsSeq(g), IsSeq(t), NoShape(g), NoShape(t)
  PROVE  NoShape(g \o t)
<1>1. /\ Len(g) \in Nat /\ Len(t) \in Nat /\ Len(g \o t) = Len(g) + Len(t)
      /\ \A i \in 1..Len(g) : (g \o t)[i] = g[i]
      /\ \A i \in 1..Len(t) : (g \o t)[Len(g) + i] = t[i]
  BY JoinedAt
<1> SUFFICES ASSUME NEW i \in 1..Len(g \o t), NEW e \in (g \o t)[i]
             PROVE  ~(e.op.kind = "recv" /\ e.op.buffer = 0)
  BY DEF NoShape
<1>2. CASE i \in 1..Len(g)
  BY <1>1, <1>2 DEF NoShape
<1>3. CASE i \notin 1..Len(g)
  <2>1. PICK j \in 1..Len(t) : i = Len(g) + j
    <3>1. i - Len(g) \in 1..Len(t) /\ i = Len(g) + (i - Len(g))
      BY <1>1, <1>3
    <3> QED BY <3>1
  <2> QED BY <1>1, <2>1 DEF NoShape
<1> QED BY <1>2, <1>3

\* Buffer 0 is not used when no shape is being received.
LEMMA ShapesOff ==
  ASSUME NEW labels, CountsInv(labels), NEW r \in Rank, ~Finished(r),
         NEW leaving, Goes(r, leaving), NEW t, NEW tl, Launches(r, leaving, t, tl),
         Call(r).op = "p_recv" => /\ Return(r) /\ (step[r] = 0 \/ Drained(r))
                                    /\ \A j \in 1..Len(t) : tl[j][2] \notin {0, 1},
         stream'[r] = stream[r] \o t, NEW l
  PROVE  Shapes(r, l)'
<1>1. Framework /\ OfRank(labels, r) /\ DOMAIN call = Rank /\ DOMAIN step = Rank
  BY InvParts
<1>2. leaving \subseteq Nat
  BY DEF Goes
<1>3. NoShape(stream[r]) /\ NoShape(t)
  BY <1>1, <1>2, NoShapeBefore, NoShapeLaunched
<1>4. IsSeq(stream[r]) /\ IsSeq(t)
  BY <1>1 DEF OfRank, Launches, Labelled
<1>5. NoShape(stream'[r])
  BY <1>3, <1>4, NoShapeJoined
<1>6. ~Finished(r)' /\ Call(r)'.op = "p_recv" /\ step'[r] > 0 => FALSE
  <2>1. CASE Return(r)
    <3>1. step'[r] = 0
      BY <1>1, <2>1 DEF Return
    <3> QED BY <3>1
  <2>2. CASE ~Return(r)
    <3>1. call' = call /\ program' = program
      BY <2>2 DEF Goes, Goto
    <3>2. Call(r)' = Call(r)
      BY <3>1 DEF Call
    <3> QED BY <2>2, <3>2
  <2> QED BY <2>1, <2>2
<1> QED BY <1>5, <1>6 DEF Shapes, NoShape

\* A step of a kernel: what it launches and leaves, and what it does to its buffers.
LEMMA KernelStep ==
  ASSUME NEW labels, CountsInv(labels), NEW r \in Rank, ~Finished(r),
         NEW leaving, Goes(r, leaving), NEW t, NEW tl, Launches(r, leaving, t, tl),
         stream' = [stream EXCEPT ![r] = stream[r] \o t],
         NEW b, Receives(r, b), b \in {0, call[r]}, OwnBuffer(r),
         Reductions(r, t, tl, received'[r]), Leads(r, t, tl),
         step[r] = 0 \/ Call(r).op # "class_center_sample" \/ Drained(r),
         \A l : l = labels[r] \o tl => Shapes(r, l)'
  PROVE  \E labels2 : CountsInv(labels2)'
<1>1. /\ Framework /\ OfRank(labels, r) /\ DOMAIN call = Rank /\ DOMAIN step = Rank
      /\ DOMAIN stream = Rank /\ DOMAIN received = Rank
      /\ stream = [q \in Rank |-> stream[q]] /\ received = [q \in Rank |-> received[q]]
      /\ received[r] = [d \in 0..Len(program[r]) |-> received[r][d]]
      /\ DOMAIN program[r] = 1..Len(program[r]) /\ Len(program[r]) \in Nat
  <2>1. Framework /\ OfRank(labels, r)
    BY InvParts
  <2> QED BY <2>1, InvParts, Places DEF OfRank
<1>2. /\ Leaving(r, leaving) /\ Counters(r)' /\ program' = program
      /\ DOMAIN call' = Rank /\ DOMAIN step' = Rank
      /\ \A q \in Rank : q # r => call'[q] = call[q] /\ step'[q] = step[q]
  BY GoesLeaves
<1>3. /\ DOMAIN received' = Rank /\ received' = [q \in Rank |-> received'[q]]
      /\ \A q \in Rank : q # r => received'[q] = received[q]
      /\ received'[r] = [d \in 0..Len(program[r]) |-> received'[r][d]]
      /\ \A d \in 0..Len(program[r]) : d # b => received'[r][d] = received[r][d]
  BY <1>1, ReceivesOne
<1>4. /\ DOMAIN stream' = Rank /\ stream' = [q \in Rank |-> stream'[q]]
      /\ \A q \in Rank : q # r => stream'[q] = stream[q]
      /\ stream'[r] = stream[r] \o t
  BY <1>1
<1>5. WellShaped' /\ OthersKept(r)
  BY <1>2, <1>3, <1>4 DEF WellShaped, OthersKept
<1>6. OthersOfRank(r)
  <2>1. ASSUME NEW c \in DOMAIN program[r], c # call[r] PROVE c # b /\ c \in 0..Len(program[r])
    BY <1>1, <2>1
  <2> QED BY <1>3, <2>1 DEF OthersOfRank
<1>7. Buffers(r)'
  BY <1>6, BuffersGo
<1>8. Reductions(r, stream[r] \o t, labels[r] \o tl, received'[r])
  <2>1. Reductions(r, stream[r], labels[r], received'[r])
    BY <1>1, <1>6, ReductionsStay
  <2>2. Labelled(r, stream[r], labels[r]) /\ Labelled(r, t, tl)
    BY <1>1 DEF OfRank, Launches
  <2> QED BY <2>1, <2>2, ReductionsJoin
<1>9. Reductions(r, stream'[r], labels[r] \o tl, received'[r])
  BY <1>4, <1>8
<1>10. \A l : l = labels[r] \o tl => Shapes(r, l)'
  OBVIOUS
<1> QED BY ONLY CountsInv(labels), r \in Rank, Launches(r, leaving, t, tl),
             <1>2, <1>3, <1>4, <1>5, <1>7, <1>9, <1>10, HostStep
-----------------------------------------------------------------------------
\* The group of some calls, if there are any, and its label.
GroupOf(ops) == {[n |-> n, op |-> ops[n]] : n \in DOMAIN ops}
GroupsOf(ops) == IF ops = <<>> THEN <<>> ELSE <<GroupOf(ops)>>
LabelsOf(r, ops, k) == IF ops = <<>> THEN <<>> ELSE <<<<call[r], k>>>>

\* They are what the current call has to do in its k-th group ...
Suits(r, k, ops) ==
  /\ \A n \in DOMAIN ops : Fits(r, call[r], k, ops[n]) /\ ops[n].kind # "all_reduce_in_place"
  /\ \A n, m \in DOMAIN ops : Channel(ops[n]) = Channel(ops[m]) => n = m
  /\ \A n \in DOMAIN ops : Channel(ops[n])[1] \in {"all", "own"} => DOMAIN ops = {n}

\* ... and all of it, of the groups that are ahead no more.
Covers(r, leaving, k, ops) ==
  \A channel \in Channels, j \in leaving : Messages(r, channel, call[r], j) # {} =>
    j = k /\ \E n \in DOMAIN ops : Channel(ops[n]) = channel

\* No groups.
LEMMA EmptyLabelled ==
  ASSUME NEW r PROVE Labelled(r, <<>>, <<>>) /\ \A s : IsSeq(s) => s \o <<>> = s
<1>1. IsSeq(<<>>) /\ <<>> \in Seq(Nat \X Nat) /\ Len(<<>>) = 0
  BY EmptySeq DEF IsSeq
<1>2. Labelled(r, <<>>, <<>>)
  BY <1>1 DEF Labelled
<1>3. ASSUME NEW s, IsSeq(s) PROVE s \o <<>> = s
  <2>1. s \in Seq(ToSet(s))
    BY <1>3 DEF IsSeq
  <2> QED BY <2>1, ConcatEmptySeq
<1> QED BY <1>2, <1>3

\* The operations of one ncclGroup.
LEMMA GroupLaunched ==
  ASSUME NEW r \in Rank, IsSeq(stream[r]), call[r] \in Nat, call[r] \in DOMAIN program[r],
         NEW leaving, NEW k \in leaving, leaving \subseteq Nat,
         NEW ops, Suits(r, k, ops), Covers(r, leaving, k, ops)
  PROVE  /\ Launched(r, ops) = stream[r] \o GroupsOf(ops)
         /\ Launches(r, leaving, GroupsOf(ops), LabelsOf(r, ops, k))
         /\ \A buffers : Reductions(r, GroupsOf(ops), LabelsOf(r, ops, k), buffers)
         /\ Leads(r, GroupsOf(ops), LabelsOf(r, ops, k))
<1>1. CASE ops = <<>>
  <2>1. GroupsOf(ops) = <<>> /\ LabelsOf(r, ops, k) = <<>> /\ DOMAIN ops = {}
    BY <1>1 DEF GroupsOf, LabelsOf
  <2>2. Labelled(r, <<>>, <<>>) /\ stream[r] \o <<>> = stream[r] /\ Len(<<>>) = 0
    BY EmptyLabelled
  <2>3. Launches(r, leaving, <<>>, <<>>)
    BY <2>1, <2>2 DEF Launches, Covers
  <2>4. (\A buffers : Reductions(r, <<>>, <<>>, buffers)) /\ Leads(r, <<>>, <<>>)
    BY <2>2 DEF Reductions, Leads
  <2> QED BY <1>1, <2>1, <2>2, <2>3, <2>4 DEF Launched
<1>2. CASE ops # <<>>
  <2> DEFINE group == GroupOf(ops)
             t == <<group>>
             tl == <<<<call[r], k>>>>
  <2>1. GroupsOf(ops) = t /\ LabelsOf(r, ops, k) = tl
    BY <1>2 DEF GroupsOf, LabelsOf
  <2>2. Launched(r, ops) = Append(stream[r], group)
    BY <1>2 DEF Launched, GroupOf
  <2>3. Append(stream[r], group) = stream[r] \o t
    <3>1. PICK g : g = group
      OBVIOUS
    <3>2. Append(stream[r], g) = stream[r] \o <<g>>
      <4>1. stream[r] \in Seq(ToSet(stream[r]) \cup {g})
        BY SeqMonotonic DEF IsSeq
      <4> HIDE DEF ToSet
      <4> QED BY <4>1
    <3> QED BY <3>1, <3>2
  <2>4. \A e \in group : \E n \in DOMAIN ops : e.n = n /\ e.op = ops[n] /\ e = [n |-> n, op |-> ops[n]]
    BY DEF GroupOf
  <2>5. ASSUME NEW n \in DOMAIN ops PROVE \E e \in group : e.op = ops[n]
    <3>1. [n |-> n, op |-> ops[n]] \in group /\ [n |-> n, op |-> ops[n]].op = ops[n]
      BY DEF GroupOf
    <3> HIDE DEF group
    <3> QED BY <3>1
  <2>6. GroupFits(r, call[r], k, group)
    <3>1. \A e \in group : Fits(r, call[r], k, e.op)
      BY <2>4 DEF Suits
    <3>2. \A e, f \in group : Channel(e.op) = Channel(f.op) => e = f
      <4> HIDE DEF group
      <4> QED BY <2>4 DEF Suits
    <3>3. \A e \in group : Channel(e.op)[1] \in {"all", "own"} => group = {e}
      <4> HIDE DEF group
      <4> SUFFICES ASSUME NEW e \in group, Channel(e.op)[1] \in {"all", "own"}, NEW f \in group PROVE f = e
        OBVIOUS
      <4>1. PICK n \in DOMAIN ops : e.op = ops[n] /\ e = [n |-> n, op |-> ops[n]]
        BY <2>4
      <4>2. PICK m \in DOMAIN ops : f.op = ops[m] /\ f = [n |-> m, op |-> ops[m]]
        BY <2>4
      <4>3. DOMAIN ops = {n}
        BY <4>1 DEF Suits
      <4> QED BY <4>1, <4>2, <4>3
    <3> QED BY <3>1, <3>2, <3>3 DEF GroupFits
  <2>7. /\ IsSeq(t) /\ Len(t) = 1 /\ t[1] = group /\ tl \in Seq(Nat \X Nat) /\ Len(tl) = 1
        /\ tl[1] = <<call[r], k>> /\ tl[1][1] = call[r] /\ tl[1][2] = k
    <3> HIDE DEF group
    <3> QED BY OneIsSeq
  <2> HIDE DEF t, tl
  <2>8. Labelled(r, t, tl)
    BY <2>6, <2>7 DEF Labelled
  <2>9. \A channel \in Channels, j \in leaving :
       Messages(r, channel, call[r], j) # {} => InStream(t, tl, channel, call[r], j)
    BY <2>5, <2>7 DEF Covers, InStream
  <2>10. Launches(r, leaving, t, tl)
    BY <2>7, <2>8, <2>9 DEF Launches
  <2>11. \A e \in t[1] : e.op.kind # "all_reduce_in_place"
    BY <2>4, <2>7 DEF Suits
  <2>12. (\A buffers : Reductions(r, t, tl, buffers)) /\ Leads(r, t, tl)
    BY <2>7, <2>11 DEF Reductions, Leads
  <2> QED BY <2>1, <2>2, <2>3, <2>10, <2>12 DEF t
<1> QED BY <1>1, <1>2

\* Operations outside a group, one after the other.
Alone(ops) == [n \in DOMAIN ops |-> {[n |-> 1, op |-> ops[n]]}]
AloneLabels(r, ops) == [n \in DOMAIN ops |-> <<call[r], n - 1>>]

\* Operations outside of a group are groups of their own.
LEMMA AloneLaunched ==
  ASSUME NEW r \in Rank, IsSeq(stream[r]), call[r] \in Nat, call[r] \in DOMAIN program[r],
         NEW leaving, leaving \subseteq Nat,
         NEW ops, NEW n \in Nat, DOMAIN ops = 1..n, \A j \in 1..n : j - 1 \in leaving,
         \A j \in 1..n : Fits(r, call[r], j - 1, ops[j]),
         \A channel \in Channels, k \in leaving : Messages(r, channel, call[r], k) # {} =>
           k + 1 \in 1..n /\ Channel(ops[k + 1]) = channel
  PROVE  Launches(r, leaving, Alone(ops), AloneLabels(r, ops))
<1> DEFINE t == Alone(ops)
           tl == AloneLabels(r, ops)
<1>1. IsSeq(t) /\ Len(t) = n /\ \A j \in 1..n : t[j] = {[n |-> 1, op |-> ops[j]]}
  <2> DEFINE S == {{[n |-> 1, op |-> ops[j]]} : j \in 1..n}
  <2>1. t \in [1..n -> S] /\ \A j \in 1..n : t[j] = {[n |-> 1, op |-> ops[j]]}
    BY DEF Alone
  <2>2. t \in Seq(S)
    <3> HIDE DEF t, S
    <3> QED BY <2>1
  <2>3. Len(t) = n
    BY <2>1, <2>2, LenProperties
  <2> QED BY <2>1, <2>2, <2>3, SeqOfSet
<1>2. tl \in Seq(Nat \X Nat) /\ Len(tl) = n
      /\ \A j \in 1..n : tl[j] = <<call[r], j - 1>> /\ tl[j][1] = call[r] /\ tl[j][2] = j - 1
  <2>1. tl \in [1..n -> Nat \X Nat]
    BY DEF AloneLabels
  <2>2. tl \in Seq(Nat \X Nat)
    <3> HIDE DEF tl
    <3> QED BY <2>1
  <2>3. Len(tl) = n
    BY <2>1, <2>2, LenProperties
  <2> QED BY <2>2, <2>3 DEF AloneLabels
<1> HIDE DEF t, tl
<1>3. Labelled(r, t, tl)
  <2>1. ASSUME NEW j \in 1..n PROVE GroupFits(r, tl[j][1], tl[j][2], t[j])
    <3>1. tl[j][1] = call[r] /\ tl[j][2] = j - 1 /\ j - 1 \in Nat /\ t[j] = {[n |-> 1, op |-> ops[j]]}
      BY <1>1, <1>2
    <3>2. \A e \in t[j] : e.op = ops[j] /\ e = [n |-> 1, op |-> ops[j]]
      BY <3>1
    <3>3. Fits(r, call[r], j - 1, ops[j])
      OBVIOUS
    <3>4. \A e \in t[j] : Fits(r, tl[j][1], tl[j][2], e.op)
      BY <3>1, <3>2, <3>3
    <3>5. \A e \in t[j] : t[j] = {e}
      BY <3>1
    <3> QED BY <3>1, <3>2, <3>4, <3>5 DEF GroupFits
  <2>2. ASSUME NEW i \in 1..n, NEW j \in 1..n, i < j PROVE Before(tl[i], tl[j])
    <3>1. tl[i][1] = tl[j][1] /\ tl[i][2] = i - 1 /\ tl[j][2] = j - 1
      BY <1>2
    <3>2. tl[i][2] < tl[j][2]
      BY <2>2, <3>1
    <3> QED BY <3>1, <3>2 DEF Before
  <2> QED BY <1>1, <1>2, <2>1, <2>2 DEF Labelled
<1>4. ASSUME NEW channel \in Channels, NEW k \in leaving, Messages(r, channel, call[r], k) # {}
      PROVE  InStream(t, tl, channel, call[r], k)
  <2>1. PICK j : j = k + 1
    OBVIOUS
  <2>2. j \in 1..n /\ Channel(ops[j]) = channel /\ j - 1 = k
    <3>1. k + 1 \in 1..n /\ Channel(ops[k + 1]) = channel
      BY ONLY <1>4, channel \in Channels, k \in leaving,
              \A ch \in Channels, m \in leaving : Messages(r, ch, call[r], m) # {} =>
                m + 1 \in 1..n /\ Channel(ops[m + 1]) = ch
    <3>2. k \in Nat
      OBVIOUS
    <3> QED BY ONLY <2>1, <3>1, <3>2
  <2>3. tl[j] = <<call[r], k>> /\ t[j] = {[n |-> 1, op |-> ops[j]]}
    BY <1>1, <1>2, <2>2
  <2>4. [n |-> 1, op |-> ops[j]] \in t[j] /\ [n |-> 1, op |-> ops[j]].op = ops[j] /\ j \in 1..Len(t)
    BY <1>1, <2>2, <2>3
  <2> QED BY <2>2, <2>3, <2>4 DEF InStream
<1>5. \A j \in 1..n : tl[j][1] = call[r] /\ tl[j][2] \in leaving
  BY <1>2
<1> QED BY <1>1, <1>3, <1>4, <1>5 DEF Launches, t, tl
-----------------------------------------------------------------------------
\* The kernels: what they owe and what they launch.

\* Where a kernel is, in its own terms.
LEMMA Here ==
  ASSUME NEW labels, CountsInv(labels), NEW r \in Rank, ~Finished(r)
  PROVE  /\ Call(r) = program[r][call[r]] /\ call[r] \in DOMAIN program[r]
         /\ call[r] \in Nat \ {0} /\ call[r] \in 0..Len(program[r]) /\ 0 \in 0..Len(program[r])
         /\ WellFormed(Call(r)) /\ IsSeq(stream[r])
         /\ step[r] \in Nat /\ step[r] < Steps(Call(r)) /\ Posted(r) \in Nat
<1>1. Framework /\ OfRank(labels, r)
  BY InvParts
<1>2. /\ call[r] \in Nat \ {0} /\ step[r] \in Nat /\ Posted(r) \in Nat
      /\ DOMAIN program[r] = 1..Len(program[r]) /\ Len(program[r]) \in Nat /\ IsSeq(stream[r])
  BY <1>1, Places
<1>3. call[r] \in DOMAIN program[r]
  BY <1>2 DEF Finished
<1>4. WellFormed(Call(r))
  BY <1>1, <1>3 DEF Framework, Call
<1>5. step[r] < Steps(Call(r))
  BY <1>1 DEF OfRank, Counters
<1> QED BY <1>2, <1>3, <1>4, <1>5 DEF Call

Sends(x, s) == x.op \in Exchanges \/ (x.op \in {"p_send", "p_send_array"} /\ x.peer = s)
ReceivesFrom(x, s) == x.op \in Exchanges \/ (x.op \in {"p_recv", "p_recv_array"} /\ x.peer = s)

\* What the current call has for each channel.
LEMMA MessagesOf ==
  ASSUME NEW labels, CountsInv(labels), NEW r \in Rank, ~Finished(r), NEW k, NEW s
  PROVE  /\ Sends(Call(r), s) => Messages(r, <<"send", s>>, call[r], k) = Sizes(Call(r), r, s, k)
         /\ ~Sends(Call(r), s) => Messages(r, <<"send", s>>, call[r], k) = {}
         /\ ReceivesFrom(Call(r), s) => Messages(r, <<"recv", s>>, call[r], k) = Sizes(Call(r), s, r, k)
         /\ ~ReceivesFrom(Call(r), s) => Messages(r, <<"recv", s>>, call[r], k) = {}
         /\ Call(r).op \in Joint => Messages(r, <<"all", 0>>, call[r], k) = Together(Call(r), k)
         /\ Call(r).op \notin Joint => Messages(r, <<"all", 0>>, call[r], k) = {}
<1>1. Call(r) = program[r][call[r]] /\ call[r] \in DOMAIN program[r]
  BY Here
<1>2. /\ <<"send", s>>[1] = "send" /\ <<"send", s>>[2] = s
      /\ <<"recv", s>>[1] = "recv" /\ <<"recv", s>>[2] = s
      /\ <<"all", 0>>[1] = "all"
  OBVIOUS
<1>3. /\ Sends(Call(r), s) => Messages(r, <<"send", s>>, call[r], k) = Sizes(Call(r), r, s, k)
      /\ ~Sends(Call(r), s) => Messages(r, <<"send", s>>, call[r], k) = {}
  BY <1>1, <1>2 DEF Messages, Concerned, Sending, Sends
<1>4. /\ ReceivesFrom(Call(r), s) => Messages(r, <<"recv", s>>, call[r], k) = Sizes(Call(r), s, r, k)
      /\ ~ReceivesFrom(Call(r), s) => Messages(r, <<"recv", s>>, call[r], k) = {}
  BY <1>1, <1>2 DEF Messages, Concerned, Receiving, ReceivesFrom
<1>5. /\ Call(r).op \in Joint => Messages(r, <<"all", 0>>, call[r], k) = Together(Call(r), k)
      /\ Call(r).op \notin Joint => Messages(r, <<"all", 0>>, call[r], k) = {}
  BY <1>1, <1>2 DEF Messages, Concerned, Joining
<1> QED BY <1>3, <1>4, <1>5

\* A step that launches one group, or none.
LEMMA KernelPost ==
  ASSUME NEW labels, CountsInv(labels), NEW r \in Rank, ~Finished(r),
         NEW leaving, Goes(r, leaving), NEW k \in leaving,
         NEW ops, Suits(r, k, ops), Covers(r, leaving, k, ops), Post(r, ops),
         NEW b, Receives(r, b), b \in {0, call[r]}, OwnBuffer(r),
         step[r] = 0 \/ Call(r).op # "class_center_sample" \/ Drained(r),
         Call(r).op = "p_recv" => Return(r) /\ k \notin {0, 1} /\ (step[r] = 0 \/ Drained(r))
  PROVE  \E labels2 : CountsInv(labels2)'
<1>1. IsSeq(stream[r]) /\ call[r] \in Nat /\ call[r] \in DOMAIN program[r]
  BY Here
<1>2. leaving \subseteq Nat
  BY DEF Goes
<1> DEFINE t == GroupsOf(ops)
           tl == LabelsOf(r, ops, k)
<1>3. /\ Launched(r, ops) = stream[r] \o t
      /\ Launches(r, leaving, t, tl)
      /\ \A buffers : Reductions(r, t, tl, buffers)
      /\ Leads(r, t, tl)
  BY <1>1, <1>2, GroupLaunched
<1>9. \A j \in 1..Len(t) : tl[j][2] = k
  <2>1. CASE ops = <<>>
    BY <2>1 DEF GroupsOf
  <2>2. CASE ops # <<>>
    <3>1. t = <<GroupOf(ops)>> /\ tl = <<<<call[r], k>>>>
      BY <2>2 DEF GroupsOf, LabelsOf
    <3> HIDE DEF t, tl
    <3> QED BY <3>1
  <2> QED BY <2>1, <2>2
<1> HIDE DEF t, tl
<1>10. Call(r).op = "p_recv" => /\ Return(r) /\ (step[r] = 0 \/ Drained(r))
                                /\ \A j \in 1..Len(t) : tl[j][2] \notin {0, 1}
  BY <1>9
<1>4. stream' = [stream EXCEPT ![r] = stream[r] \o t]
  BY <1>3 DEF Post
<1>5. DOMAIN stream = Rank
  BY InvParts
<1>6. stream'[r] = stream[r] \o t
  BY <1>4, <1>5
<1>7. \A l : l = labels[r] \o tl => Shapes(r, l)'
  BY <1>3, <1>6, <1>10, ShapesOff
<1>8. Reductions(r, t, tl, received'[r])
  BY <1>3
<1> QED BY <1>3, <1>4, <1>7, <1>8, KernelStep

\* A step that launches nothing, because nothing is owed.
LEMMA NothingPosted ==
  ASSUME NEW labels, CountsInv(labels), NEW r \in Rank, ~Finished(r), stream' = stream,
         NEW leaving, \A channel \in Channels, j \in leaving : Messages(r, channel, call[r], j) = {},
         NEW k
  PROVE  Post(r, <<>>) /\ Suits(r, k, <<>>) /\ Covers(r, leaving, k, <<>>)
<1>1. stream = [q \in Rank |-> stream[q]]
  BY InvParts
<1>2. Post(r, <<>>)
  BY <1>1 DEF Post, Launched
<1> QED BY <1>2 DEF Suits, Covers
-----------------------------------------------------------------------------
\* A kernel of one step returns.
LEMMA ReturnGoes ==
  ASSUME NEW labels, CountsInv(labels), NEW r \in Rank, ~Finished(r), Return(r), step[r] = 0
  PROVE  Goes(r, Nat) /\ 0 \in Nat
<1>1. Posted(r) = 0
  BY DEF Posted
<1>2. Nat = {k \in Nat : k >= 0}
  OBVIOUS
<1> QED BY <1>1, <1>2 DEF Goes

\* Allocating the output of the call.
LEMMA AllocReceives ==
  ASSUME NEW labels, CountsInv(labels), NEW r \in Rank, ~Finished(r), NEW n, Alloc(r, call[r], n)
  PROVE  Receives(r, call[r])
<1>1. call[r] \in 0..Len(program[r])
  BY Here
<1> QED BY <1>1 DEF Alloc, Receives

\* Only collective operations concern a kernel that exchanges nothing with one rank.
LEMMA OnlyJoint ==
  ASSUME NEW labels, CountsInv(labels), NEW r \in Rank, ~Finished(r), Call(r).op \in Joint,
         NEW channel \in Channels, NEW k, Messages(r, channel, call[r], k) # {}
  PROVE  channel = <<"all", 0>> /\ Together(Call(r), k) # {}
<1>1. Call(r).op \notin Exchanges /\ Call(r).op \notin {"p_send", "p_send_array", "p_recv", "p_recv_array"}
  BY DEF Joint, Wholes, CrossEntropies, Exchanges
<1>2. \A s : ~Sends(Call(r), s) /\ ~ReceivesFrom(Call(r), s)
  BY <1>1 DEF Sends, ReceivesFrom
<1>3. \A s : channel # <<"send", s>> /\ channel # <<"recv", s>>
  BY <1>2, MessagesOf
<1>4. channel = <<"all", 0>>
  <2>1. CASE channel \in {"send", "recv"} \X Rank
    <3>1. PICK a \in {"send", "recv"}, s \in Rank : channel = <<a, s>>
      BY <2>1
    <3> QED BY <1>3, <3>1
  <2> QED BY <2>1 DEF Channels
<1>5. Messages(r, <<"all", 0>>, call[r], k) = Together(Call(r), k)
  BY MessagesOf
<1> QED BY <1>4, <1>5

Collective == {"all_gather", "broadcast", "all_reduce", "reduce_scatter"}

\* A collective is what the call owes.
LEMMA CollectiveFits ==
  ASSUME NEW labels, CountsInv(labels), NEW r \in Rank, ~Finished(r), Call(r).op \in Joint, NEW k,
         NEW op, op.kind \in Collective, op.buffer = call[r],
         Together(Call(r), k) = {<<op.kind, Len(op.data)>>}
  PROVE  Channel(op) = <<"all", 0>> /\ Fits(r, call[r], k, op)
<1>1. Channel(op) = <<"all", 0>>
  BY DEF Channel, Collective
<1>2. Messages(r, Channel(op), call[r], k) = {<<op.kind, Len(op.data)>>}
  BY <1>1, MessagesOf
<1>3. op.kind \in {"all_gather", "broadcast", "all_reduce", "reduce_scatter"}
  BY DEF Collective
<1> QED BY <1>1, <1>2, <1>3 DEF Fits

\* One collective operation on the whole of a tensor, or none.
LEMMA JointStep ==
  ASSUME NEW labels, CountsInv(labels), NEW r \in Rank, ~Finished(r),
         Call(r).op \in {"partial_allgather"} \cup Wholes, step[r] = 0, Return(r),
         NEW n, Alloc(r, call[r], n), NEW op, op.kind \in Collective, op.buffer = call[r],
         \/ /\ Post(r, <<op>>)
            /\ Together(Call(r), 0) = {<<op.kind, Len(op.data)>>}
         \/ stream' = stream /\ Together(Call(r), 0) = {}
  PROVE  \E labels2 : CountsInv(labels2)'
<1>1. Goes(r, Nat) /\ 0 \in Nat
  BY ReturnGoes
<1>2. Receives(r, call[r])
  BY AllocReceives
<1>3. /\ Call(r).op \in Joint /\ ~IsReceiving(Call(r)) /\ Call(r).op \notin CrossEntropies
      /\ Call(r).op # "p_recv" /\ Call(r).op # "class_center_sample"
  BY DEF Joint, IsReceiving, Exchanges, CrossEntropies, Wholes
<1>4. OwnBuffer(r)
  BY <1>3 DEF OwnBuffer
<1>5. \A k \in Nat : k # 0 => Together(Call(r), k) = {}
  BY DEF Together, Wholes, CrossEntropies
<1>6. ASSUME NEW channel \in Channels, NEW k \in Nat, Messages(r, channel, call[r], k) # {}
      PROVE  k = 0 /\ channel = <<"all", 0>> /\ Together(Call(r), 0) # {}
  <2>1. channel = <<"all", 0>> /\ Together(Call(r), k) # {}
    BY <1>3, <1>6, OnlyJoint
  <2> QED BY <1>5, <2>1
<1>7. CASE Post(r, <<op>>) /\ Together(Call(r), 0) = {<<op.kind, Len(op.data)>>}
  <2>1. Channel(op) = <<"all", 0>> /\ Fits(r, call[r], 0, op)
    BY <1>3, <1>7, CollectiveFits
  <2>2. op.kind # "all_reduce_in_place"
    BY DEF Collective
  <2> DEFINE ops == <<op>>
  <2>3. DOMAIN ops = {1} /\ ops[1] = op
    OBVIOUS
  <2> HIDE DEF ops
  <2>4. Suits(r, 0, ops)
    BY <2>1, <2>2, <2>3 DEF Suits
  <2>5. Covers(r, Nat, 0, ops)
    BY <1>6, <2>1, <2>3 DEF Covers
  <2>6. Post(r, ops)
    BY <1>7 DEF ops
  <2> QED BY <1>1, <1>2, <1>3, <1>4, <2>4, <2>5, <2>6, KernelPost
<1>8. CASE stream' = stream /\ Together(Call(r), 0) = {}
  <2>1. \A channel \in Channels, j \in Nat : Messages(r, channel, call[r], j) = {}
    BY <1>6, <1>8
  <2>2. Post(r, <<>>) /\ Suits(r, 0, <<>>) /\ Covers(r, Nat, 0, <<>>)
    BY <1>8, <2>1, NothingPosted
  <2> QED BY <1>1, <1>2, <1>3, <1>4, <2>2, KernelPost
<1> QED BY <1>7, <1>8

\* Part of a tensor has the size that is asked for.
LEMMA PartSized ==
  ASSUME NEW r, NEW offset, NEW numel \in Nat
  PROVE  IsSeq(Part(r, offset, numel)) /\ Len(Part(r, offset, numel)) = numel
<1> DEFINE p == Part(r, offset, numel)
<1>1. p = [k \in 1..numel |-> p[k]]
  BY DEF Part
<1> HIDE DEF p
<1>2. Sized(p, numel)
  BY <1>1, FunctionSized
<1> QED BY <1>2 DEF Sized, p

\* partial_allgather keeps the invariant.
LEMMA PartialAllGatherInv ==
  ASSUME NEW labels, CountsInv(labels), NEW r \in Rank, PartialAllGather(r)
  PROVE  \E labels2 : CountsInv(labels2)'
<1>1. ~Finished(r) /\ Call(r).op = "partial_allgather" /\ step[r] = 0
  BY DEF PartialAllGather, At
<1>2. Call(r).numel \in Nat
  <2>1. WellFormed(Call(r))
    BY <1>1, Here
  <2> QED BY <1>1, <2>1 DEF WellFormed, CrossEntropies
<1> DEFINE n == Call(r).numel \div NRanks
           op == AllGather(Part(r, n * r, n), call[r])
<1>3. n \in Nat
  BY <1>2, NRanksAssumption
<1>4. Post(r, <<op>>) /\ Alloc(r, call[r], Call(r).numel) /\ Return(r)
  BY DEF PartialAllGather
<1>5. op.kind = "all_gather" /\ op.data = Part(r, n * r, n) /\ op.buffer = call[r]
  BY DEF AllGather
<1>6. Len(op.data) = n
  BY <1>3, <1>5, PartSized
<1>7. Together(Call(r), 0) = {<<"all_gather", n>>}
  BY <1>1 DEF Together, Wholes, CrossEntropies
<1>8. Together(Call(r), 0) = {<<op.kind, Len(op.data)>>} /\ op.kind \in Collective
  BY <1>5, <1>6, <1>7 DEF Collective
<1> HIDE DEF n, op
<1> QED BY <1>1, <1>4, <1>5, <1>8, JointStep

\* A type or operation without a name in MCCL is nothing that the ranks do together.
LEMMA WholeStep ==
  ASSUME NEW labels, CountsInv(labels), NEW r \in Rank, ~Finished(r), step[r] = 0, Return(r),
         Call(r).op \in Wholes, NEW how, how = (IF Call(r).op = "all_reduce" THEN Call(r).how ELSE "sum"),
         NEW op, op.kind = (IF Call(r).op = "mp_allreduce_sum" THEN "all_reduce" ELSE Call(r).op),
         op.buffer = call[r], op.data = Whole(r, Call(r).numel), PostOrRaise(r, how, op),
         NEW n, Alloc(r, call[r], n)
  PROVE  \E labels2 : CountsInv(labels2)'
<1>1. Call(r).numel \in Nat
  <2>1. WellFormed(Call(r))
    BY Here
  <2> QED BY <2>1 DEF WellFormed, Wholes, CrossEntropies
<1>2. Len(op.data) = Call(r).numel
  BY <1>1, PartSized DEF Whole
<1>3. op.kind \in Collective
  BY DEF Collective, Wholes
<1>4. Named(Call(r)) <=> Call(r).type \in McclDataType /\ how \in McclReduceOp
  BY DEF Named, McclReduceOp
<1>5. /\ Named(Call(r)) => Together(Call(r), 0) = {<<op.kind, Call(r).numel>>}
      /\ ~Named(Call(r)) => Together(Call(r), 0) = {}
  BY DEF Together, Wholes, CrossEntropies
<1>6. CASE Named(Call(r))
  <2>1. Post(r, <<op>>) /\ Together(Call(r), 0) = {<<op.kind, Len(op.data)>>}
    BY <1>2, <1>4, <1>5, <1>6 DEF PostOrRaise
  <2> QED BY <1>3, <2>1, JointStep
<1>7. CASE ~Named(Call(r))
  <2>1. stream' = stream /\ Together(Call(r), 0) = {}
    BY <1>4, <1>5, <1>7 DEF PostOrRaise
  <2> QED BY <1>3, <2>1, JointStep
<1> QED BY <1>6, <1>7

\* The kernels of one collective each keep the invariant.
LEMMA WholeKernelsInv ==
  ASSUME NEW labels, CountsInv(labels), NEW r \in Rank,
         \/ AllGatherKernel(r) \/ AllReduceKernel(r) \/ MpAllReduceSumKernel(r)
         \/ ReduceScatterKernel(r) \/ BroadcastKernel(r)
  PROVE  \E labels2 : CountsInv(labels2)'
<1>1. CASE AllGatherKernel(r)
  <2> DEFINE op == AllGather(Whole(r, Call(r).numel), call[r])
  <2>1. /\ ~Finished(r) /\ Call(r).op = "all_gather" /\ step[r] = 0 /\ Return(r)
        /\ PostOrRaise(r, "sum", op) /\ Alloc(r, call[r], Call(r).numel * NRanks)
    BY <1>1 DEF AllGatherKernel, At
  <2>2. op.kind = "all_gather" /\ op.data = Whole(r, Call(r).numel) /\ op.buffer = call[r]
    BY DEF AllGather
  <2> HIDE DEF op
  <2> QED BY <2>1, <2>2, WholeStep DEF Wholes
<1>2. CASE AllReduceKernel(r)
  <2> DEFINE op == AllReduce(Call(r).how, Whole(r, Call(r).numel), call[r])
  <2>1. /\ ~Finished(r) /\ Call(r).op = "all_reduce" /\ step[r] = 0 /\ Return(r)
        /\ PostOrRaise(r, Call(r).how, op) /\ Alloc(r, call[r], Call(r).numel)
    BY <1>2 DEF AllReduceKernel, At
  <2>2. op.kind = "all_reduce" /\ op.data = Whole(r, Call(r).numel) /\ op.buffer = call[r]
    BY DEF AllReduce
  <2> HIDE DEF op
  <2> QED BY <2>1, <2>2, WholeStep DEF Wholes
<1>3. CASE MpAllReduceSumKernel(r)
  <2> DEFINE op == AllReduce("sum", Whole(r, Call(r).numel), call[r])
  <2>1. /\ ~Finished(r) /\ Call(r).op = "mp_allreduce_sum" /\ step[r] = 0 /\ Return(r)
        /\ PostOrRaise(r, "sum", op) /\ Alloc(r, call[r], Call(r).numel)
    BY <1>3 DEF MpAllReduceSumKernel, At
  <2>2. op.kind = "all_reduce" /\ op.data = Whole(r, Call(r).numel) /\ op.buffer = call[r]
    BY DEF AllReduce
  <2> HIDE DEF op
  <2> QED BY <2>1, <2>2, WholeStep DEF Wholes
<1>4. CASE ReduceScatterKernel(r)
  <2> DEFINE op == ReduceScatter("sum", Whole(r, Call(r).numel), call[r])
  <2>1. /\ ~Finished(r) /\ Call(r).op = "reduce_scatter" /\ step[r] = 0 /\ Return(r)
        /\ PostOrRaise(r, "sum", op) /\ Alloc(r, call[r], Call(r).numel \div NRanks)
    BY <1>4 DEF ReduceScatterKernel, At
  <2>2. op.kind = "reduce_scatter" /\ op.data = Whole(r, Call(r).numel) /\ op.buffer = call[r]
    BY DEF ReduceScatter
  <2> HIDE DEF op
  <2> QED BY <2>1, <2>2, WholeStep DEF Wholes
<1>5. CASE BroadcastKernel(r)
  <2> DEFINE op == Broadcast(Call(r).root, Whole(r, Call(r).numel), call[r], FALSE)
  <2>1. /\ ~Finished(r) /\ Call(r).op = "broadcast" /\ step[r] = 0 /\ Return(r)
        /\ PostOrRaise(r, "sum", op) /\ Alloc(r, call[r], Call(r).numel)
    BY <1>5 DEF BroadcastKernel, At
  <2>2. op.kind = "broadcast" /\ op.data = Whole(r, Call(r).numel) /\ op.buffer = call[r]
    BY DEF Broadcast
  <2> HIDE DEF op
  <2> QED BY <2>1, <2>2, WholeStep DEF Wholes
<1> QED BY <1>1, <1>2, <1>3, <1>4, <1>5
-----------------------------------------------------------------------------
\* Operations on their own, one by one.
LEMMA AloneIs ==
  ASSUME NEW r, NEW ops, NEW n \in Nat, DOMAIN ops = 1..n
  PROVE  /\ Len(Alone(ops)) = n
         /\ \A j \in 1..n : /\ Alone(ops)[j] = {[n |-> 1, op |-> ops[j]]}
                            /\ AloneLabels(r, ops)[j] = <<call[r], j - 1>>
<1> DEFINE t == Alone(ops)
<1>1. t = [j \in 1..n |-> t[j]] /\ \A j \in 1..n : t[j] = {[n |-> 1, op |-> ops[j]]}
  BY DEF Alone
<1> HIDE DEF t
<1>2. Len(t) = n
  BY <1>1, FunctionSized DEF Sized
<1>3. \A j \in 1..n : AloneLabels(r, ops)[j] = <<call[r], j - 1>>
  BY DEF AloneLabels
<1> QED BY <1>1, <1>2, <1>3 DEF t

\* A kernel that launches operations on their own keeps the invariant.
LEMMA KernelAlone ==
  ASSUME NEW labels, CountsInv(labels), NEW r \in Rank, ~Finished(r), Call(r).op # "p_recv",
         NEW leaving, Goes(r, leaving),
         NEW ops, NEW n \in Nat, DOMAIN ops = 1..n, \A j \in 1..n : j - 1 \in leaving,
         \A j \in 1..n : Fits(r, call[r], j - 1, ops[j]),
         \A channel \in Channels, k \in leaving : Messages(r, channel, call[r], k) # {} =>
           k + 1 \in 1..n /\ Channel(ops[k + 1]) = channel,
         stream' = [stream EXCEPT ![r] = stream[r] \o Alone(ops)],
         NEW b, Receives(r, b), b \in {0, call[r]}, OwnBuffer(r),
         Reductions(r, Alone(ops), AloneLabels(r, ops), received'[r]),
         Leads(r, Alone(ops), AloneLabels(r, ops)),
         step[r] = 0 \/ Call(r).op # "class_center_sample" \/ Drained(r)
  PROVE  \E labels2 : CountsInv(labels2)'
<1>1. IsSeq(stream[r]) /\ call[r] \in Nat /\ call[r] \in DOMAIN program[r]
  BY Here
<1>2. leaving \subseteq Nat
  BY DEF Goes
<1> DEFINE t == Alone(ops)
           tl == AloneLabels(r, ops)
<1>3. Launches(r, leaving, t, tl)
  BY <1>1, <1>2, AloneLaunched
<1>4. DOMAIN stream = Rank
  BY InvParts
<1>5. stream' = [stream EXCEPT ![r] = stream[r] \o t] /\ stream'[r] = stream[r] \o t
  BY <1>4
<1>6. Reductions(r, t, tl, received'[r]) /\ Leads(r, t, tl)
  OBVIOUS
<1> HIDE DEF t, tl
<1>7. \A l : l = labels[r] \o tl => Shapes(r, l)'
  BY <1>3, <1>5, ShapesOff
<1> QED BY <1>3, <1>5, <1>6, <1>7, KernelStep

\* Nothing is reduced in place.
LEMMA NoReductions ==
  ASSUME NEW r, NEW ops, NEW n \in Nat, DOMAIN ops = 1..n,
         \A j \in 1..n : ops[j].kind # "all_reduce_in_place", NEW buffers
  PROVE  /\ Reductions(r, Alone(ops), AloneLabels(r, ops), buffers)
         /\ Leads(r, Alone(ops), AloneLabels(r, ops))
<1> DEFINE t == Alone(ops)
<1>1. Len(t) = n /\ \A j \in 1..n : t[j] = {[n |-> 1, op |-> ops[j]]}
  BY AloneIs
<1> HIDE DEF t
<1>2. \A j \in 1..n : \A e \in t[j] : e.op.kind # "all_reduce_in_place"
  BY <1>1
<1>3. Len(t) # 0 => 1 \in 1..n
  BY <1>1
<1> QED BY <1>1, <1>2, <1>3 DEF Reductions, Leads, t

\* A collective operation and what the rank does with its result.
LEMMA RearrangeStep ==
  ASSUME NEW labels, CountsInv(labels), NEW r \in Rank, ~Finished(r), step[r] = 0,
         Call(r).op \in {"c_concat", "c_scatter"},
         NEW leaving, Goes(r, leaving), 0 \in leaving, 1 \in leaving,
         NEW n, Alloc(r, call[r], n), NEW op, op.kind \in Collective, op.buffer = call[r],
         Together(Call(r), 0) = {<<op.kind, Len(op.data)>>},
         NEW op2, op2.kind = "rearrange", op2.buffer = call[r],
         stream' = [stream EXCEPT ![r] =
           @ \o <<{[n |-> 1, op |-> op]}, {[n |-> 1, op |-> op2]}>>]
  PROVE  \E labels2 : CountsInv(labels2)'
<1>1. Receives(r, call[r]) /\ call[r] \in {0, call[r]}
  BY AllocReceives
<1>2. /\ Call(r).op \in Joint /\ ~IsReceiving(Call(r)) /\ Call(r).op \notin CrossEntropies
      /\ Call(r).op # "p_recv" /\ Call(r).op # "class_center_sample"
  BY DEF Joint, IsReceiving, Exchanges, CrossEntropies, Wholes
<1>3. OwnBuffer(r)
  BY <1>2 DEF OwnBuffer
<1> DEFINE ops == <<op, op2>>
<1>4. DOMAIN ops = 1..2 /\ ops[1] = op /\ ops[2] = op2
  OBVIOUS
<1>5. Alone(ops) = <<{[n |-> 1, op |-> op]}, {[n |-> 1, op |-> op2]}>>
  BY DEF Alone
<1> HIDE DEF ops
<1>6. DOMAIN stream = Rank
  BY InvParts
<1>7. stream' = [stream EXCEPT ![r] = stream[r] \o Alone(ops)]
  BY <1>5, <1>6
<1>8. leaving \subseteq Nat
  BY DEF Goes
<1>9. \A k \in Nat : k # 0 => Together(Call(r), k) = {}
  BY DEF Together, Wholes, CrossEntropies
<1>10. Channel(op) = <<"all", 0>> /\ Fits(r, call[r], 0, op)
  BY <1>2, CollectiveFits
<1>11. Fits(r, call[r], 1, op2)
  <2>1. program[r][call[r]].op \in {"c_concat", "c_scatter"}
    BY DEF Call
  <2> QED BY <2>1 DEF Fits
<1>12. \A j \in 1..2 : j - 1 \in leaving
  BY 1 - 1 = 0, 2 - 1 = 1
<1>13. \A j \in 1..2 : Fits(r, call[r], j - 1, ops[j])
  BY <1>4, <1>10, <1>11, 1 - 1 = 0, 2 - 1 = 1
<1>14. ASSUME NEW channel \in Channels, NEW k \in leaving, Messages(r, channel, call[r], k) # {}
       PROVE  k + 1 \in 1..2 /\ Channel(ops[k + 1]) = channel
  <2>1. channel = <<"all", 0>> /\ Together(Call(r), k) # {}
    BY <1>2, <1>14, OnlyJoint
  <2>2. k = 0
    BY <1>8, <1>9, <2>1
  <2> QED BY <1>4, <1>10, <2>1, <2>2, 0 + 1 = 1
<1>15. \A j \in 1..2 : ops[j].kind # "all_reduce_in_place"
  BY <1>4 DEF Collective
<1>16. /\ Reductions(r, Alone(ops), AloneLabels(r, ops), received'[r])
       /\ Leads(r, Alone(ops), AloneLabels(r, ops))
  BY <1>4, <1>15, NoReductions
<1>17. 2 \in Nat
  OBVIOUS
<1> QED BY ONLY CountsInv(labels), r \in Rank, ~Finished(r), Goes(r, leaving), <1>1, <1>2, <1>3, <1>4, <1>7,
             <1>12, <1>13, <1>14, <1>16, <1>17, KernelAlone

\* c_concat keeps the invariant.
LEMMA CConcatInv ==
  ASSUME NEW labels, CountsInv(labels), NEW r \in Rank, CConcat(r)
  PROVE  \E labels2 : CountsInv(labels2)'
<1> DEFINE rows  == Call(r).rows
           cols  == Call(r).cols
           width == cols * NRanks
           from  == [k \in 1..(rows * width) |->
                     LET row == (k - 1) \div width
                         col == (k - 1) % width
                     IN  (col \div cols) * rows * cols + row * cols + (col % cols) + 1]
           op == AllGather(Part(r, 0, rows * cols), call[r])
           op2 == Rearrange(call[r], from, FALSE)
<1>1. /\ ~Finished(r) /\ Call(r).op = "c_concat" /\ step[r] = 0 /\ Return(r)
      /\ stream' = [stream EXCEPT ![r] =
           @ \o <<{[n |-> 1, op |-> op]}, {[n |-> 1, op |-> op2]}>>]
      /\ Alloc(r, call[r], rows * width)
  BY DEF CConcat, At
<1>2. rows \in Nat /\ cols \in Nat
  <2>1. WellFormed(Call(r))
    BY <1>1, Here
  <2> QED BY <1>1, <2>1 DEF WellFormed, CrossEntropies, Wholes
<1>3. Goes(r, Nat) /\ 0 \in Nat /\ 1 \in Nat
  BY <1>1, ReturnGoes
<1>4. op.kind = "all_gather" /\ op.buffer = call[r] /\ op.data = Part(r, 0, rows * cols)
  BY DEF AllGather
<1>5. Len(op.data) = rows * cols
  <2>1. rows * cols \in Nat
    BY <1>2
  <2> QED BY <1>4, <2>1, PartSized
<1>6. Together(Call(r), 0) = {<<op.kind, Len(op.data)>>}
  <2>1. Together(Call(r), 0) = {<<"all_gather", Call(r).rows * Call(r).cols>>}
    BY <1>1 DEF Together, Wholes, CrossEntropies
  <2> QED BY <1>4, <1>5, <2>1
<1>7. op2.kind = "rearrange" /\ op2.buffer = call[r]
  BY DEF Rearrange
<1>8. op.kind \in Collective /\ Call(r).op \in {"c_concat", "c_scatter"}
  BY <1>1, <1>4 DEF Collective
<1> HIDE DEF op, op2, rows, width
<1> QED BY <1>1, <1>3, <1>4, <1>6, <1>7, <1>8, RearrangeStep

\* c_scatter keeps the invariant.
LEMMA CScatterInv ==
  ASSUME NEW labels, CountsInv(labels), NEW r \in Rank, CScatter(r)
  PROVE  \E labels2 : CountsInv(labels2)'
<1> DEFINE n == Call(r).numel \div NRanks
           from == [k \in 1..n |-> n * r + k]
           op == Broadcast(Call(r).root, Part(r, 0, Call(r).numel), call[r], TRUE)
           op2 == Rearrange(call[r], from, TRUE)
<1>1. /\ ~Finished(r) /\ Call(r).op = "c_scatter" /\ step[r] = 0 /\ Goto(r, 1)
      /\ stream' = [stream EXCEPT ![r] =
           @ \o <<{[n |-> 1, op |-> op]}, {[n |-> 1, op |-> op2]}>>]
      /\ Alloc(r, call[r], Call(r).numel)
  BY DEF CScatter, At
<1>2. Call(r).numel \in Nat
  <2>1. WellFormed(Call(r))
    BY <1>1, Here
  <2> QED BY <1>1, <2>1 DEF WellFormed, CrossEntropies
<1>3. Goes(r, 0..1)
  <2>1. Posted(r) = 0
    BY <1>1 DEF Posted
  <2>2. Steps(Call(r)) = 2
    BY <1>1 DEF Steps
  <2>3. 0..1 = {k \in Nat : 0 <= k /\ k < 2 * 1}
    OBVIOUS
  <2>4. 0..1 = {k \in Nat : /\ Posted(r) <= k
                            /\ k < (IF Call(r).op = "c_scatter" THEN 2 * 1 ELSE 1)}
    BY <1>1, <2>1, <2>3
  <2>5. Goto(r, 1) /\ step[r] <= 1 /\ 1 # 0 /\ 1 < Steps(Call(r)) /\ 1 \in Nat
    BY <1>1, <2>2
  <2> QED BY <2>4, <2>5 DEF Goes
<1>4. op.kind = "broadcast" /\ op.buffer = call[r] /\ op.data = Part(r, 0, Call(r).numel)
  BY DEF Broadcast
<1>5. Len(op.data) = Call(r).numel
  <2>1. Len(Part(r, 0, Call(r).numel)) = Call(r).numel
    BY <1>2, PartSized
  <2> HIDE DEF op
  <2> QED BY <1>4, <2>1
<1>6. Together(Call(r), 0) = {<<op.kind, Len(op.data)>>}
  <2>1. Together(Call(r), 0) = {<<"broadcast", Call(r).numel>>}
    BY <1>1 DEF Together, Wholes, CrossEntropies
  <2> QED BY <1>4, <1>5, <2>1
<1>7. op2.kind = "rearrange" /\ op2.buffer = call[r]
  BY DEF Rearrange
<1>8. op.kind \in Collective /\ Call(r).op \in {"c_concat", "c_scatter"} /\ 0 \in 0..1 /\ 1 \in 0..1
  <2> HIDE DEF op, op2
  <2> QED BY <1>1, <1>4 DEF Collective
<1> HIDE DEF op, op2
<1> QED BY <1>1, <1>3, <1>4, <1>6, <1>7, <1>8, RearrangeStep

\* Also where c_scatter returns.
LEMMA CScatterCopiedInv ==
  ASSUME NEW labels, CountsInv(labels), NEW r \in Rank, CScatterCopied(r)
  PROVE  \E labels2 : CountsInv(labels2)'
<1>1. /\ ~Finished(r) /\ Call(r).op = "c_scatter" /\ step[r] = 1 /\ Return(r)
      /\ stream' = stream /\ received' = received
  BY DEF CScatterCopied, At, mcclVars
<1> DEFINE leaving == {k \in Nat : k >= Posted(r)}
<1>2. Posted(r) = 2
  BY <1>1 DEF Posted
<1>3. Goes(r, leaving) /\ 2 \in leaving
  BY <1>1, <1>2 DEF Goes
<1>4. Receives(r, call[r])
  BY <1>1, Here DEF Receives
<1>5. /\ Call(r).op \in Joint /\ ~IsReceiving(Call(r)) /\ Call(r).op \notin CrossEntropies
      /\ Call(r).op # "p_recv" /\ Call(r).op # "class_center_sample"
  BY <1>1 DEF Joint, IsReceiving, Exchanges, CrossEntropies, Wholes
<1>6. OwnBuffer(r)
  BY <1>5 DEF OwnBuffer
<1>7. \A k \in leaving : Together(Call(r), k) = {}
  BY <1>1, <1>2 DEF Together, Wholes, CrossEntropies
<1> HIDE DEF leaving
<1>8. \A channel \in Channels, j \in leaving : Messages(r, channel, call[r], j) = {}
  BY <1>1, <1>5, <1>7, OnlyJoint
<1>9. Post(r, <<>>) /\ Suits(r, 2, <<>>) /\ Covers(r, leaving, 2, <<>>)
  BY <1>1, <1>8, NothingPosted
<1> QED BY <1>1, <1>3, <1>4, <1>5, <1>6, <1>9, KernelPost
-----------------------------------------------------------------------------
\* A reduction in place is what the call owes.
LEMMA InPlaceFits ==
  ASSUME NEW labels, CountsInv(labels), NEW r \in Rank, ~Finished(r), Call(r).op \in Joint, NEW k,
         NEW op, op.kind = "all_reduce_in_place", op.buffer = call[r], op.tensor = TensorOf(Call(r), k),
         Together(Call(r), k) = {<<"all_reduce_in_place", Indices(Call(r), k)>>}
  PROVE  Channel(op) = <<"all", 0>> /\ Fits(r, call[r], k, op)
<1>1. Channel(op) = <<"all", 0>>
  BY DEF Channel
<1>2. Messages(r, Channel(op), call[r], k) = {<<op.kind, Indices(Call(r), k)>>}
  BY <1>1, MessagesOf
<1>3. Call(r) = program[r][call[r]]
  BY DEF Call
<1> QED BY <1>1, <1>2, <1>3 DEF Fits

\* The kernels of a cross entropy are of its steps.
LEMMA KernelFits ==
  ASSUME NEW r, Call(r).op \in CrossEntropies, NEW k, NEW op,
         op.kind = "kernel", op.buffer = call[r],
         op.name = (CASE k = 0 -> "maxima" [] k = 2 -> "targets" [] k = 4 -> "sums" [] OTHER -> "losses")
  PROVE  Fits(r, call[r], k, op)
<1>1. Call(r) = program[r][call[r]]
  BY DEF Call
<1> QED BY <1>1 DEF Fits

\* The cross entropies keep the invariant.
LEMMA CSoftmaxInv ==
  ASSUME NEW labels, CountsInv(labels), NEW r \in Rank, CSoftmax(r)
  PROVE  \E labels2 : CountsInv(labels2)'
<1> DEFINE ops ==
             <<Kernel("maxima", call[r]),  AllReduceInPlace("max", "logits_max", call[r]),
               Kernel("targets", call[r]), AllReduceInPlace("sum", "predicted_logits", call[r]),
               Kernel("sums", call[r]),    AllReduceInPlace("sum", "sum_exp_logits", call[r]),
               Kernel("losses", call[r])>>
           buffer == [tensor \in {"logits_max", "softmax", "predicted_logits", "sum_exp_logits", "loss"}
                        |-> Unwritten]
<1>1. /\ ~Finished(r) /\ Call(r).op \in CrossEntropies /\ Return(r)
      /\ received' = [received EXCEPT ![r][call[r]] = buffer]
      /\ stream' = [stream EXCEPT ![r] = stream[r] \o Alone(ops)]
  BY DEF CSoftmax, Ungrouped, Alone
<1>2. step[r] = 0
  <2>1. step[r] \in Nat /\ step[r] < Steps(Call(r))
    BY <1>1, Here
  <2>2. Steps(Call(r)) = 1
    BY <1>1 DEF Steps, CrossEntropies
  <2> QED BY <2>1, <2>2
<1>3. Goes(r, Nat) /\ 0 \in Nat
  BY <1>1, <1>2, ReturnGoes
<1>4. Receives(r, call[r]) /\ call[r] \in {0, call[r]}
  <2>1. call[r] \in 0..Len(program[r])
    BY <1>1, Here
  <2> QED BY <1>1, <2>1 DEF Receives
<1>5. /\ Call(r).op \in Joint /\ ~IsReceiving(Call(r))
      /\ Call(r).op # "p_recv" /\ Call(r).op # "class_center_sample"
  BY <1>1 DEF Joint, IsReceiving, Exchanges, CrossEntropies
<1>6. OwnBuffer(r)
  <2>1. DOMAIN received = Rank /\ received[r] = [d \in 0..Len(program[r]) |-> received[r][d]]
    BY InvParts DEF OfRank
  <2>2. call[r] \in DOMAIN received[r]
    <3>1. call[r] \in 0..Len(program[r])
      BY <1>1, Here
    <3> QED BY <2>1, <3>1
  <2>3. received'[r] = [received[r] EXCEPT ![call[r]] = buffer]
    BY <1>1, <2>1
  <2> HIDE DEF buffer
  <2>4. received'[r][call[r]] = buffer
    BY <2>2, <2>3
  <2>5. DOMAIN buffer = Tensors
    BY DEF buffer, Tensors
  <2> QED BY <1>5, <2>4, <2>5 DEF OwnBuffer
<1>7. /\ DOMAIN ops = 1..7
      /\ ops[1] = Kernel("maxima", call[r]) /\ ops[2] = AllReduceInPlace("max", "logits_max", call[r])
      /\ ops[3] = Kernel("targets", call[r]) /\ ops[4] = AllReduceInPlace("sum", "predicted_logits", call[r])
      /\ ops[5] = Kernel("sums", call[r]) /\ ops[6] = AllReduceInPlace("sum", "sum_exp_logits", call[r])
      /\ ops[7] = Kernel("losses", call[r])
  OBVIOUS
<1> HIDE DEF ops, buffer
<1>8. /\ \A j \in {1, 3, 5, 7} : ops[j].kind = "kernel" /\ ops[j].buffer = call[r]
      /\ ops[1].name = "maxima" /\ ops[3].name = "targets" /\ ops[5].name = "sums"
      /\ ops[7].name = "losses"
      /\ \A j \in {2, 4, 6} : ops[j].kind = "all_reduce_in_place" /\ ops[j].buffer = call[r]
      /\ ops[2].tensor = "logits_max" /\ ops[4].tensor = "predicted_logits"
      /\ ops[6].tensor = "sum_exp_logits"
  BY <1>7 DEF Kernel, AllReduceInPlace
<1>9. \A k \in Nat : /\ k \in {1, 3, 5} => Together(Call(r), k) = {<<"all_reduce_in_place", Indices(Call(r), k)>>}
                     /\ k \notin {1, 3, 5} => Together(Call(r), k) = {}
  BY <1>1 DEF Together, CrossEntropies, Wholes
<1>10. /\ TensorOf(Call(r), 1) = "logits_max" /\ TensorOf(Call(r), 3) = "predicted_logits"
       /\ TensorOf(Call(r), 5) = "sum_exp_logits"
  BY <1>5 DEF TensorOf
<1>11. /\ Fits(r, call[r], 0, ops[1]) /\ Fits(r, call[r], 2, ops[3]) /\ Fits(r, call[r], 4, ops[5])
       /\ Fits(r, call[r], 6, ops[7])
  BY <1>1, <1>8, KernelFits
<1>12. /\ Channel(ops[2]) = <<"all", 0>> /\ Fits(r, call[r], 1, ops[2])
       /\ Channel(ops[4]) = <<"all", 0>> /\ Fits(r, call[r], 3, ops[4])
       /\ Channel(ops[6]) = <<"all", 0>> /\ Fits(r, call[r], 5, ops[6])
  <2>1. Channel(ops[2]) = <<"all", 0>> /\ Fits(r, call[r], 1, ops[2])
    BY <1>1, <1>5, <1>8, <1>9, <1>10, InPlaceFits
  <2>2. Channel(ops[4]) = <<"all", 0>> /\ Fits(r, call[r], 3, ops[4])
    BY <1>1, <1>5, <1>8, <1>9, <1>10, InPlaceFits
  <2>3. Channel(ops[6]) = <<"all", 0>> /\ Fits(r, call[r], 5, ops[6])
    BY <1>1, <1>5, <1>8, <1>9, <1>10, InPlaceFits
  <2> QED BY <2>1, <2>2, <2>3
<1>13. \A j \in 1..7 : j = 1 \/ j = 2 \/ j = 3 \/ j = 4 \/ j = 5 \/ j = 6 \/ j = 7
  OBVIOUS
<1>14. ASSUME NEW j \in 1..7 PROVE j - 1 \in Nat /\ Fits(r, call[r], j - 1, ops[j])
  <2>1. 1-1 = 0 /\ 2-1 = 1 /\ 3-1 = 2 /\ 4-1 = 3 /\ 5-1 = 4 /\ 6-1 = 5 /\ 7-1 = 6
    OBVIOUS
  <2> QED BY <1>11, <1>12, <1>13, <2>1
<1>15. ASSUME NEW channel \in Channels, NEW k \in Nat, Messages(r, channel, call[r], k) # {}
       PROVE  k + 1 \in 1..7 /\ Channel(ops[k + 1]) = channel
  <2>1. channel = <<"all", 0>> /\ Together(Call(r), k) # {}
    BY <1>1, <1>5, <1>15, OnlyJoint
  <2>2. k = 1 \/ k = 3 \/ k = 5
    BY <1>9, <2>1
  <2>3. 1 + 1 = 2 /\ 3 + 1 = 4 /\ 5 + 1 = 6 /\ 2 \in 1..7 /\ 4 \in 1..7 /\ 6 \in 1..7
    OBVIOUS
  <2> QED BY <1>12, <2>1, <2>2, <2>3
<1> DEFINE t == Alone(ops)
           tl == AloneLabels(r, ops)
<1>16. /\ Len(t) = 7
       /\ \A j \in 1..7 : t[j] = {[n |-> 1, op |-> ops[j]]} /\ tl[j] = <<call[r], j - 1>>
  <2>1. DOMAIN ops = 1..7 /\ 7 \in Nat
    BY <1>7
  <2>2. PICK n \in Nat : n = 7
    BY <2>1
  <2>3. DOMAIN ops = 1..n
    BY <2>1, <2>2
  <2>4. Len(t) = n /\ \A j \in 1..n : t[j] = {[n |-> 1, op |-> ops[j]]} /\ tl[j] = <<call[r], j - 1>>
    BY ONLY n \in Nat, <2>3, AloneIs
  <2> QED BY <2>2, <2>4
<1>17. Reductions(r, t, tl, received'[r])
  <2> SUFFICES ASSUME NEW i \in 1..7, NEW e \in t[i], e.op.kind = "all_reduce_in_place"
               PROVE  LET c == tl[i][1]
                          k == tl[i][2]
                      IN  /\ i = 1 \/ program[r][c].op = "class_center_sample"
                               => /\ e.op.tensor \in DOMAIN received'[r][c]
                                  /\ DOMAIN received'[r][c][e.op.tensor] = Indices(program[r][c], k)
                          /\ i # 1 /\ program[r][c].op \in CrossEntropies
                               => tl[i - 1] = <<c, k - 1>> /\ \E f \in t[i - 1] : f.op.kind = "kernel"
    BY <1>16 DEF Reductions
  <2> HIDE DEF t, tl
  <2>1. e.op = ops[i] /\ tl[i][1] = call[r] /\ tl[i][2] = i - 1
    BY <1>16
  <2>2. i = 2 \/ i = 4 \/ i = 6
    BY <1>8, <1>13, <2>1
  <2>3. PICK j : j = i - 1
    OBVIOUS
  <2>4. j \in 1..7 /\ j \in {1, 3, 5, 7}
    BY <2>2, <2>3
  <2>5. tl[j] = <<call[r], j - 1>> /\ t[j] = {[n |-> 1, op |-> ops[j]]}
    BY <1>16, <2>4
  <2>6. tl[i - 1] = <<tl[i][1], tl[i][2] - 1>>
    BY <2>1, <2>3, <2>5
  <2>7. \E f \in t[i - 1] : f.op.kind = "kernel"
    <3>1. [n |-> 1, op |-> ops[j]] \in t[j] /\ [n |-> 1, op |-> ops[j]].op.kind = "kernel"
      BY <1>8, <2>4, <2>5
    <3> QED BY <2>3, <3>1
  <2>8. program[r][tl[i][1]].op # "class_center_sample"
    BY <1>5, <2>1 DEF Call
  <2>9. i # 1
    BY <2>2
  <2> QED BY <2>6, <2>7, <2>8, <2>9
<1>18. Leads(r, t, tl)
  <2>1. \A e \in t[1] : e.op.kind = "kernel"
    BY <1>8, <1>16
  <2> QED BY <2>1 DEF Leads
<1> QED BY ONLY CountsInv(labels), r \in Rank, <1>1, <1>2, <1>3, <1>4, <1>5, <1>6, <1>7, <1>14, <1>15,
             <1>17, <1>18, 7 \in Nat, KernelAlone
-----------------------------------------------------------------------------
\* The reduction of the number of classes keeps the invariant.
LEMMA ClassCenterSampleDimsInv ==
  ASSUME NEW labels, CountsInv(labels), NEW r \in Rank, ClassCenterSampleDims(r)
  PROVE  \E labels2 : CountsInv(labels2)'
<1> DEFINE op == AllReduceInPlace("sum", "num_classes_per_device", call[r])
           ops == <<op>>
           buffer == [num_classes_per_device |-> ShardDims(Call(r), r)]
<1>1. /\ ~Finished(r) /\ Call(r).op = "class_center_sample" /\ step[r] = 0 /\ Goto(r, 1)
      /\ received' = [received EXCEPT ![r][call[r]] = buffer]
      /\ NRanks > 1 => stream' = [stream EXCEPT ![r] = stream[r] \o Alone(ops)]
      /\ ~(NRanks > 1) => stream' = stream
  BY DEF ClassCenterSampleDims, Ungrouped, Alone, At
<1> DEFINE leaving == {0}
<1>2. Goes(r, leaving) /\ 0 \in leaving
  <2>1. Posted(r) = 0
    BY <1>1 DEF Posted
  <2>2. Steps(Call(r)) = 2
    BY <1>1 DEF Steps
  <2>3. {0} = {k \in Nat : 0 <= k /\ k < 1}
    OBVIOUS
  <2>4. {0} = {k \in Nat : /\ Posted(r) <= k
                            /\ k < (IF Call(r).op = "c_scatter" THEN 2 * 1 ELSE 1)}
    BY <1>1, <2>1, <2>3
  <2>5. Goto(r, 1) /\ step[r] <= 1 /\ 1 # 0 /\ 1 < Steps(Call(r)) /\ 1 \in Nat
    BY <1>1, <2>2
  <2> QED BY <2>4, <2>5 DEF Goes
<1>3. Receives(r, call[r]) /\ call[r] \in {0, call[r]}
  <2>1. call[r] \in 0..Len(program[r])
    BY <1>1, Here
  <2> QED BY <1>1, <2>1 DEF Receives
<1>4. /\ Call(r).op \in Joint /\ ~IsReceiving(Call(r)) /\ Call(r).op \notin CrossEntropies
      /\ Call(r).op # "p_recv"
  BY <1>1 DEF Joint, IsReceiving, Exchanges, CrossEntropies
<1>5. OwnBuffer(r)
  BY <1>4 DEF OwnBuffer
<1>6. received'[r][call[r]] = buffer
  <2>1. DOMAIN received = Rank /\ received[r] = [d \in 0..Len(program[r]) |-> received[r][d]]
    BY InvParts DEF OfRank
  <2>2. call[r] \in DOMAIN received[r]
    <3>1. call[r] \in 0..Len(program[r])
      BY <1>1, Here
    <3> QED BY <2>1, <3>1
  <2> HIDE DEF buffer
  <2>3. received'[r] = [received[r] EXCEPT ![call[r]] = buffer]
    BY <1>1, <2>1
  <2> QED BY <2>2, <2>3
<1>7. "num_classes_per_device" \in DOMAIN buffer /\ DOMAIN buffer["num_classes_per_device"] = Bound
  BY DEF ShardDims
<1>8. Indices(Call(r), 0) = Bound /\ TensorOf(Call(r), 0) = "num_classes_per_device"
  BY <1>1 DEF Indices, TensorOf
<1>9. /\ NRanks > 1 => Together(Call(r), 0) = {<<"all_reduce_in_place", Indices(Call(r), 0)>>}
      /\ ~(NRanks > 1) => Together(Call(r), 0) = {}
  BY <1>1 DEF Together, CrossEntropies, Wholes
<1>10. DOMAIN ops = 1..1 /\ ops[1] = op
  OBVIOUS
<1>11. op.kind = "all_reduce_in_place" /\ op.buffer = call[r] /\ op.tensor = "num_classes_per_device"
  BY DEF AllReduceInPlace
<1> HIDE DEF ops, op, buffer
<1>12. CASE NRanks > 1
  <2>1. Channel(op) = <<"all", 0>> /\ Fits(r, call[r], 0, op)
    BY <1>1, <1>4, <1>8, <1>9, <1>11, <1>12, InPlaceFits
  <2>2. \A j \in 1..1 : j - 1 \in leaving
    OBVIOUS
  <2>3. \A j \in 1..1 : Fits(r, call[r], j - 1, ops[j])
    <3>1. \A j \in 1..1 : j = 1
      OBVIOUS
    <3> QED BY <1>10, <2>1, <3>1, 1 - 1 = 0
  <2>4. ASSUME NEW channel \in Channels, NEW k \in leaving, Messages(r, channel, call[r], k) # {}
        PROVE  k + 1 \in 1..1 /\ Channel(ops[k + 1]) = channel
    <3>1. channel = <<"all", 0>>
      BY <1>1, <1>4, <2>4, OnlyJoint
    <3>2. k = 0
      OBVIOUS
    <3> QED BY <1>10, <2>1, <3>1, <3>2, 0 + 1 = 1
  <2> DEFINE t == Alone(ops)
             tl == AloneLabels(r, ops)
  <2>5. Len(t) = 1 /\ t[1] = {[n |-> 1, op |-> op]} /\ tl[1] = <<call[r], 0>>
    <3>1. PICK n \in Nat : n = 1
      OBVIOUS
    <3>2. DOMAIN ops = 1..n
      BY <1>10, <3>1
    <3>3. Len(t) = n /\ \A j \in 1..n : t[j] = {[n |-> 1, op |-> ops[j]]} /\ tl[j] = <<call[r], j - 1>>
      BY ONLY n \in Nat, <3>2, AloneIs
    <3> QED BY <1>10, <3>1, <3>3
  <2>6. program[r][call[r]] = Call(r)
    BY DEF Call
  <2>7. Reductions(r, t, tl, received'[r]) /\ Leads(r, t, tl)
    <3> HIDE DEF t, tl
    <3>1. \A i \in 1..Len(t) : i = 1
      BY <2>5
    <3>2. \A e \in t[1] : e.op.tensor = "num_classes_per_device"
      BY <1>11, <2>5
    <3>3. tl[1][1] = call[r] /\ tl[1][2] = 0
      BY <2>5
    <3>4. Reductions(r, t, tl, received'[r])
      BY <1>1, <1>6, <1>7, <1>8, <2>6, <3>1, <3>2, <3>3 DEF Reductions
    <3>5. Leads(r, t, tl)
      BY <1>4, <2>6, <3>3 DEF Leads
    <3> QED BY <3>4, <3>5
  <2>8. stream' = [stream EXCEPT ![r] = stream[r] \o Alone(ops)]
    BY <1>1, <1>12
  <2> HIDE DEF leaving
  <2> QED BY ONLY CountsInv(labels), r \in Rank, <1>1, <1>2, <1>3, <1>4, <1>5, <1>10, <2>2, <2>3, <2>4,
               <2>7, <2>8, 1 \in Nat, KernelAlone
<1>13. CASE ~(NRanks > 1)
  <2>1. stream' = stream /\ Together(Call(r), 0) = {}
    BY <1>1, <1>9, <1>13
  <2>2. \A channel \in Channels, j \in leaving : Messages(r, channel, call[r], j) = {}
    BY <1>1, <1>4, <2>1, OnlyJoint
  <2> HIDE DEF leaving
  <2>3. Post(r, <<>>) /\ Suits(r, 0, <<>>) /\ Covers(r, leaving, 0, <<>>)
    BY <1>1, <2>1, <2>2, NothingPosted
  <2> QED BY <1>1, <1>2, <1>3, <1>4, <1>5, <2>3, KernelPost
<1> QED BY <1>12, <1>13

\* class_center_sample keeps the invariant.
LEMMA ClassCenterSampleKernelInv ==
  ASSUME NEW labels, CountsInv(labels), NEW r \in Rank, ClassCenterSampleKernel(r)
  PROVE  \E labels2 : CountsInv(labels2)'
<1>1. /\ ~Finished(r) /\ Call(r).op = "class_center_sample" /\ step[r] = 1 /\ Return(r) /\ Drained(r)
      /\ stream' = stream
      /\ \E v : received' = [received EXCEPT ![r][call[r]] = v]
  <2>1. PICK random \in RandomSampleClassCenter(Call(r), r) :
       received' = [received EXCEPT ![r][call[r]] =
                      ClassCenters(Call(r), r, @.num_classes_per_device, random)]
    BY DEF ClassCenterSampleKernel
  <2>2. \E v : received' = [received EXCEPT ![r][call[r]] = v]
    <3>1. DOMAIN received = Rank /\ received[r] = [d \in 0..Len(program[r]) |-> received[r][d]]
      BY InvParts DEF OfRank
    <3>2. received' = [received EXCEPT ![r][call[r]] =
             ClassCenters(Call(r), r, received[r][call[r]].num_classes_per_device, random)]
      BY <2>1
    <3> QED BY <3>2
  <2> QED BY <2>2 DEF ClassCenterSampleKernel, At
<1> DEFINE leaving == {k \in Nat : k >= Posted(r)}
<1>2. Posted(r) = 1
  BY <1>1 DEF Posted
<1>3. Goes(r, leaving) /\ 1 \in leaving
  BY <1>1, <1>2 DEF Goes
<1>4. Receives(r, call[r]) /\ call[r] \in {0, call[r]}
  <2>1. call[r] \in 0..Len(program[r])
    BY <1>1, Here
  <2> QED BY <1>1, <2>1 DEF Receives
<1>5. /\ Call(r).op \in Joint /\ ~IsReceiving(Call(r)) /\ Call(r).op \notin CrossEntropies
      /\ Call(r).op # "p_recv"
  BY <1>1 DEF Joint, IsReceiving, Exchanges, CrossEntropies, Wholes
<1>6. OwnBuffer(r)
  BY <1>5 DEF OwnBuffer
<1>7. \A k \in leaving : Together(Call(r), k) = {}
  BY <1>1, <1>2 DEF Together, Wholes, CrossEntropies
<1> HIDE DEF leaving
<1>8. \A channel \in Channels, j \in leaving : Messages(r, channel, call[r], j) = {}
  BY <1>1, <1>5, <1>7, OnlyJoint
<1>9. Post(r, <<>>) /\ Suits(r, 1, <<>>) /\ Covers(r, leaving, 1, <<>>)
  BY <1>1, <1>8, NothingPosted
<1> QED BY <1>1, <1>3, <1>4, <1>5, <1>6, <1>9, KernelPost
-----------------------------------------------------------------------------
\* Operations of different channels, one behind the other.
Distinct(s) ==
  IsSeq(s) /\ \A n, m \in 1..Len(s) : Channel(s[n]) = Channel(s[m]) => n = m

\* Operations of different channels, one behind the other.
LEMMA DistinctJoined ==
  ASSUME NEW s, NEW t, Distinct(s), Distinct(t),
         \A x \in ToSet(s), y \in ToSet(t) : Channel(x) # Channel(y)
  PROVE  Distinct(s \o t) /\ ToSet(s \o t) = ToSet(s) \cup ToSet(t)
<1>1. IsSeq(s) /\ IsSeq(t)
  BY DEF Distinct
<1>2. /\ IsSeq(s \o t) /\ Len(s) \in Nat /\ Len(t) \in Nat /\ Len(s \o t) = Len(s) + Len(t)
      /\ \A i \in 1..Len(s) : (s \o t)[i] = s[i]
      /\ \A i \in 1..Len(t) : (s \o t)[Len(s) + i] = t[i]
  BY <1>1, JoinedAt
<1>3. ToSet(s \o t) = ToSet(s) \cup ToSet(t)
  BY <1>1, ConcatIsSeq
<1>4. DOMAIN s = 1..Len(s) /\ DOMAIN t = 1..Len(t)
  BY <1>1, LenProperties DEF IsSeq
<1>5. (\A i \in 1..Len(s) : s[i] \in ToSet(s)) /\ (\A i \in 1..Len(t) : t[i] \in ToSet(t))
  BY <1>4 DEF ToSet
<1>6. ASSUME NEW n \in 1..Len(s \o t)
      PROVE  \/ n \in 1..Len(s) /\ (s \o t)[n] = s[n]
             \/ \E i \in 1..Len(t) : n = Len(s) + i /\ (s \o t)[n] = t[i]
  <2>1. CASE n \in 1..Len(s)
    BY <1>2, <2>1
  <2>2. CASE n \notin 1..Len(s)
    <3>1. PICK i \in 1..Len(t) : n = Len(s) + i
      <4>1. n - Len(s) \in 1..Len(t) /\ n = Len(s) + (n - Len(s))
        BY <1>2, <2>2
      <4> QED BY <4>1
    <3> QED BY <1>2, <3>1
  <2> QED BY <2>1, <2>2
<1> HIDE DEF ToSet
<1>7. ASSUME NEW n \in 1..Len(s \o t), NEW m \in 1..Len(s \o t),
             Channel((s \o t)[n]) = Channel((s \o t)[m])
      PROVE  n = m
  <2>1. CASE n \in 1..Len(s) /\ (s \o t)[n] = s[n]
    <3>1. CASE m \in 1..Len(s) /\ (s \o t)[m] = s[m]
      BY <1>7, <2>1, <3>1 DEF Distinct
    <3>2. CASE \E j \in 1..Len(t) : m = Len(s) + j /\ (s \o t)[m] = t[j]
      BY <1>5, <1>7, <2>1, <3>2
    <3> QED BY <1>6, <3>1, <3>2
  <2>2. CASE \E i \in 1..Len(t) : n = Len(s) + i /\ (s \o t)[n] = t[i]
    <3>1. CASE m \in 1..Len(s) /\ (s \o t)[m] = s[m]
      BY <1>5, <1>7, <2>2, <3>1
    <3>2. CASE \E j \in 1..Len(t) : m = Len(s) + j /\ (s \o t)[m] = t[j]
      <4>1. PICK i \in 1..Len(t) : n = Len(s) + i /\ (s \o t)[n] = t[i]
        BY <2>2
      <4>2. PICK j \in 1..Len(t) : m = Len(s) + j /\ (s \o t)[m] = t[j]
        BY <3>2
      <4>3. i = j
        BY <1>7, <4>1, <4>2 DEF Distinct
      <4> QED BY <4>1, <4>2, <4>3
    <3> QED BY <1>6, <3>1, <3>2
  <2> QED BY <1>6, <2>1, <2>2
<1> QED BY <1>2, <1>3, <1>7 DEF Distinct

OneOf(s, channel) == s = <<>> \/ \E x : s = <<x>> /\ Channel(x) = channel

\* One operation.
LEMMA OneDistinct ==
  ASSUME NEW s, NEW channel, OneOf(s, channel)
  PROVE  /\ Distinct(s) /\ \A x \in ToSet(s) : Channel(x) = channel
         /\ s # <<>> => \E x \in ToSet(s) : Channel(x) = channel
<1>1. CASE s = <<>>
  BY <1>1 DEF Distinct, IsSeq, ToSet
<1>2. CASE \E x : s = <<x>> /\ Channel(x) = channel
  <2>1. PICK x : s = <<x>> /\ Channel(x) = channel
    BY <1>2
  <2>2. IsSeq(s) /\ ToSet(s) = {x} /\ Len(s) = 1
    BY <2>1, OneIsSeq
  <2> QED BY <2>1, <2>2 DEF Distinct
<1> QED BY <1>1, <1>2 DEF OneOf

\* What the kernel has for rank k - 1, before all is put one behind the other.
Row(row, k) ==
  Distinct(row) /\ \A x \in ToSet(row) : Channel(x) \in {<<"send", k - 1>>, <<"recv", k - 1>>}

\* The sends and receives of a group, rank by rank: one for each channel.
LEMMA FlattenedRows ==
  ASSUME NEW rows, rows = [k \in 1..NRanks |-> rows[k]], \A k \in 1..NRanks : Row(rows[k], k)
  PROVE  /\ Distinct(FlattenSeq(rows))
         /\ \A x : x \in ToSet(FlattenSeq(rows)) <=> \E k \in 1..NRanks : x \in ToSet(rows[k])
<1> DEFINE S == UNION {ToSet(rows[k]) : k \in 1..NRanks}
           n == NRanks
<1>1. n \in Nat \ {0}
  BY NRanksAssumption
<1>2. rows \in [1..n -> Seq(S)]
  <2>1. ASSUME NEW k \in 1..n PROVE rows[k] \in Seq(S)
    <3>1. rows[k] \in Seq(ToSet(rows[k])) /\ ToSet(rows[k]) \subseteq S
      BY DEF Row, Distinct, IsSeq
    <3> HIDE DEF S
    <3> QED BY <3>1, SeqMonotonic
  <2> HIDE DEF S
  <2> QED BY <2>1
<1>3. PICK f : Flattens(f, n, S, rows)
  <2> HIDE DEF S
  <2> QED BY <1>1, <1>2, FlattenSteps
<1> DEFINE Good(k) == Distinct(f[k]) /\ \A x : x \in ToSet(f[k]) <=> \E j \in 1..k : x \in ToSet(rows[j])
           h == [k \in 0..n |-> IF k = 0 \/ Good(k) THEN 0 ELSE 1]
<1>4. \A k \in 1..n : f[k] = IF k = 1 THEN rows[k] ELSE f[k - 1] \o rows[k]
  BY <1>3 DEF Flattens
<1>5. Good(1)
  <2>1. f[1] = rows[1] /\ 1 \in 1..n
    BY <1>1, <1>4
  <2>2. 1..1 = {1}
    OBVIOUS
  <2>3. \A x : (\E j \in 1..1 : x \in ToSet(rows[j])) <=> x \in ToSet(rows[1])
    BY <2>2
  <2> QED BY <2>1, <2>2, <2>3 DEF Row
<1>6. ASSUME NEW k \in 2..n, Good(k - 1) PROVE Good(k)
  <2>0. k \in 1..n /\ k # 1
    BY <1>1
  <2>1. f[k] = f[k - 1] \o rows[k] /\ k \in 1..n
    BY <1>4, <2>0
  <2>2. ASSUME NEW x \in ToSet(f[k - 1]), NEW y \in ToSet(rows[k]) PROVE Channel(x) # Channel(y)
    <3>1. PICK j \in 1..(k - 1) : x \in ToSet(rows[j])
      BY <1>6
    <3>2. j \in 1..n /\ j # k /\ j \in Nat /\ k \in Nat
      BY <1>1
    <3>3. Channel(x) \in {<<"send", j - 1>>, <<"recv", j - 1>>}
      BY <3>1, <3>2 DEF Row
    <3>4. Channel(y) \in {<<"send", k - 1>>, <<"recv", k - 1>>}
      BY <2>1 DEF Row
    <3>5. Channel(x)[2] = j - 1 /\ Channel(y)[2] = k - 1
      BY <3>3, <3>4
    <3> QED BY <3>2, <3>5
  <2>3. Distinct(f[k - 1]) /\ Distinct(rows[k])
    BY <1>6, <2>1 DEF Row
  <2>4. Distinct(f[k - 1] \o rows[k]) /\ ToSet(f[k - 1] \o rows[k]) = ToSet(f[k - 1]) \cup ToSet(rows[k])
    BY <2>2, <2>3, DistinctJoined
  <2>5. \A j : j \in 1..k <=> j \in 1..(k - 1) \/ j = k
    BY <1>1
  <2>6. \A x : (\E j \in 1..k : x \in ToSet(rows[j]))
                <=> (\E j \in 1..(k - 1) : x \in ToSet(rows[j])) \/ x \in ToSet(rows[k])
    BY <2>5
  <2>7. \A x : x \in ToSet(f[k - 1]) <=> \E j \in 1..(k - 1) : x \in ToSet(rows[j])
    BY <1>6
  <2>8. \A x : x \in ToSet(f[k]) <=> \E j \in 1..k : x \in ToSet(rows[j])
    BY ONLY <2>1, <2>4, <2>6, <2>7
  <2> QED BY <2>1, <2>4, <2>8
<1>7. \A k \in 0..n : h[k] \in {0}
  <2>1. h[0] \in {0}
    BY <1>1
  <2>2. ASSUME NEW k \in 1..n, h[k - 1] \in {0} PROVE h[k] \in {0}
    <3>1. CASE k = 1
      BY <1>1, <1>5, <3>1
    <3>2. CASE k # 1
      <4>1. k \in 2..n /\ k - 1 \in 0..n /\ k - 1 # 0 /\ k \in 0..n
        BY <1>1, <3>2
      <4> HIDE DEF Good
      <4>2. Good(k - 1)
        BY <2>2, <4>1
      <4>3. Good(k)
        BY <1>6, <4>1, <4>2
      <4> QED BY <4>1, <4>3
    <3> QED BY <3>1, <3>2
  <2>3. PICK V : V = {0}
    OBVIOUS
  <2> HIDE DEF h, Good
  <2>4. h[0] \in V /\ \A k \in 1..n : h[k - 1] \in V => h[k] \in V
    BY ONLY <2>1, <2>2, <2>3
  <2>5. \A k \in 0..n : h[k] \in V
    BY <1>1, <2>4, StaysIn
  <2> QED BY <2>3, <2>5
<1>8. Good(n)
  <2>1. n \in 0..n /\ n # 0
    BY <1>1
  <2>2. h[n] = 0
    <3> HIDE DEF h
    <3> QED BY <1>7, <2>1
  <2> HIDE DEF Good
  <2> QED BY <2>1, <2>2
<1>9. f[n] = FlattenSeq(rows)
  BY <1>3 DEF Flattens
<1> QED BY <1>8, <1>9
-----------------------------------------------------------------------------
\* A send is what the call owes.
LEMMA SendFits ==
  ASSUME NEW labels, CountsInv(labels), NEW r \in Rank, ~Finished(r), NEW k, NEW op,
         op.kind = "send", op.peer \in Rank, Sends(Call(r), op.peer),
         Sizes(Call(r), r, op.peer, k) = {Len(op.data)},
         Call(r).op = "p_send" /\ k < 2 => op.data = ShapeInfo(Call(r), k)
  PROVE  Channel(op) = <<"send", op.peer>> /\ Fits(r, call[r], k, op)
<1>1. Channel(op) = <<"send", op.peer>>
  BY DEF Channel
<1>2. Messages(r, Channel(op), call[r], k) = {Len(op.data)}
  BY <1>1, MessagesOf
<1>3. Call(r) = program[r][call[r]]
  BY DEF Call
<1> QED BY <1>1, <1>2, <1>3 DEF Fits

\* A receive is what the call owes, inside of its output.
LEMMA RecvFits ==
  ASSUME NEW labels, CountsInv(labels), NEW r \in Rank, ~Finished(r), NEW k, NEW op,
         op.kind = "recv", op.peer \in Rank, ReceivesFrom(Call(r), op.peer),
         Sizes(Call(r), op.peer, r, k) = {op.count}, op.at \in Nat, op.count \in Nat,
         ToBuffer0(Call(r), k) => op.buffer = 0 /\ op.at = 0,
         ~ToBuffer0(Call(r), k) => op.buffer = call[r] /\ op.at + op.count <= OutSize(Call(r), r)
  PROVE  Channel(op) = <<"recv", op.peer>> /\ Fits(r, call[r], k, op)
<1>1. Channel(op) = <<"recv", op.peer>>
  BY DEF Channel
<1>2. Messages(r, Channel(op), call[r], k) = {op.count}
  BY <1>1, MessagesOf
<1>3. Call(r) = program[r][call[r]]
  BY DEF Call
<1> QED BY <1>1, <1>2, <1>3 DEF Fits

\* A kernel that sends to all ranks and receives from all launches one group, in which
\* it has what the counts say for each.
Between(r, k, s, out, in) ==
  /\ OneOf(out, <<"send", s>>) /\ OneOf(in, <<"recv", s>>)
  /\ \A x \in ToSet(out) \cup ToSet(in) : Fits(r, call[r], k, x) /\ x.kind \in {"send", "recv"}
Asked(r, leaving, k, out, in) ==
  \A s \in Rank, j \in leaving : /\ Sizes(Call(r), r, s, j) # {} => j = k /\ out[s] # <<>>
                                 /\ Sizes(Call(r), s, r, j) # {} => j = k /\ in[s] # <<>>
RowsOf(rows, out, in) ==
  /\ rows = [n \in 1..NRanks |-> rows[n]]
  /\ \A n \in 1..NRanks : rows[n] = out[n - 1] \o in[n - 1]

\* A group of sends and receives with every rank keeps the invariant.
LEMMA ExchangeStep ==
  ASSUME NEW labels, CountsInv(labels), NEW r \in Rank, ~Finished(r), Call(r).op \in Exchanges,
         NEW leaving, Goes(r, leaving), NEW k \in leaving, NEW out, NEW in,
         \A s \in Rank : Between(r, k, s, out[s], in[s]), Asked(r, leaving, k, out, in),
         NEW rows, RowsOf(rows, out, in),
         Post(r, FlattenSeq(rows)), Receives(r, call[r]), OwnBuffer(r)
  PROVE  \E labels2 : CountsInv(labels2)'
<1>1. ASSUME NEW n \in 1..NRanks
      PROVE  /\ n - 1 \in Rank /\ Row(rows[n], n)
             /\ ToSet(rows[n]) = ToSet(out[n - 1]) \cup ToSet(in[n - 1])
  <2>1. n - 1 \in Rank
    BY NRanksAssumption DEF Rank
  <2>2. PICK s \in Rank : s = n - 1
    BY <2>1
  <2>3. OneOf(out[s], <<"send", s>>) /\ OneOf(in[s], <<"recv", s>>)
    BY DEF Between
  <2>4. /\ Distinct(out[s]) /\ \A x \in ToSet(out[s]) : Channel(x) = <<"send", s>>
    BY <2>3, OneDistinct
  <2>5. /\ Distinct(in[s]) /\ \A x \in ToSet(in[s]) : Channel(x) = <<"recv", s>>
    BY <2>3, OneDistinct
  <2>6. \A x \in ToSet(out[s]), y \in ToSet(in[s]) : Channel(x) # Channel(y)
    BY <2>4, <2>5
  <2>7. Distinct(out[s] \o in[s]) /\ ToSet(out[s] \o in[s]) = ToSet(out[s]) \cup ToSet(in[s])
    BY <2>4, <2>5, <2>6, DistinctJoined
  <2>8. rows[n] = out[s] \o in[s]
    BY <2>2 DEF RowsOf
  <2>9. \A x \in ToSet(rows[n]) : Channel(x) \in {<<"send", n - 1>>, <<"recv", n - 1>>}
    BY <2>2, <2>4, <2>5, <2>7, <2>8
  <2> QED BY <2>1, <2>2, <2>7, <2>8, <2>9 DEF Row
<1> DEFINE ops == FlattenSeq(rows)
<1>2. Distinct(ops) /\ \A x : x \in ToSet(ops) <=> \E n \in 1..NRanks : x \in ToSet(rows[n])
  <2>1. \A n \in 1..NRanks : Row(rows[n], n)
    BY <1>1
  <2>2. rows = [n \in 1..NRanks |-> rows[n]]
    BY DEF RowsOf
  <2> QED BY <2>1, <2>2, FlattenedRows
<1> HIDE DEF ops
<1>3. DOMAIN ops = 1..Len(ops) /\ \A x : x \in ToSet(ops) <=> \E n \in DOMAIN ops : ops[n] = x
  <2>1. ops \in Seq(ToSet(ops))
    BY <1>2 DEF Distinct, IsSeq
  <2>2. DOMAIN ops = 1..Len(ops)
    BY <2>1, LenProperties
  <2> QED BY <2>2 DEF ToSet
<1>4. ASSUME NEW n \in DOMAIN ops
      PROVE  Fits(r, call[r], k, ops[n]) /\ ops[n].kind \in {"send", "recv"}
  <2>1. PICK m \in 1..NRanks : ops[n] \in ToSet(rows[m])
    BY <1>2, <1>3
  <2>2. m - 1 \in Rank /\ ops[n] \in ToSet(out[m - 1]) \cup ToSet(in[m - 1])
    BY <1>1, <2>1
  <2> QED BY <2>2 DEF Between
<1>5. Suits(r, k, ops)
  <2>1. \A n \in DOMAIN ops : Channel(ops[n])[1] \notin {"all", "own"}
    BY <1>4 DEF Channel
  <2> QED BY <1>2, <1>3, <1>4, <2>1 DEF Suits, Distinct
<1>6. Covers(r, leaving, k, ops)
  <2> SUFFICES ASSUME NEW channel \in Channels, NEW j \in leaving, Messages(r, channel, call[r], j) # {}
               PROVE  j = k /\ \E n \in DOMAIN ops : Channel(ops[n]) = channel
    BY DEF Covers
  <2>1. Call(r).op \notin Joint
    BY DEF Joint, Exchanges, Wholes, CrossEntropies
  <2>2. channel # <<"all", 0>>
    BY <2>1, MessagesOf
  <2>3. PICK a \in {"send", "recv"}, s \in Rank : channel = <<a, s>>
    BY <2>2 DEF Channels
  <2>4. Sends(Call(r), s) /\ ReceivesFrom(Call(r), s)
    BY DEF Sends, ReceivesFrom
  <2>5. /\ a = "send" => j = k /\ out[s] # <<>>
        /\ a = "recv" => j = k /\ in[s] # <<>>
    <3>1. /\ Messages(r, <<"send", s>>, call[r], j) = Sizes(Call(r), r, s, j)
          /\ Messages(r, <<"recv", s>>, call[r], j) = Sizes(Call(r), s, r, j)
      BY <2>4, MessagesOf
    <3> QED BY <2>3, <3>1 DEF Asked
  <2>6. \E x \in ToSet(out[s]) \cup ToSet(in[s]) : Channel(x) = channel
    <3>1. OneOf(out[s], <<"send", s>>) /\ OneOf(in[s], <<"recv", s>>)
      BY DEF Between
    <3>2. out[s] # <<>> => \E x \in ToSet(out[s]) : Channel(x) = <<"send", s>>
      BY <3>1, OneDistinct
    <3>3. in[s] # <<>> => \E x \in ToSet(in[s]) : Channel(x) = <<"recv", s>>
      BY <3>1, OneDistinct
    <3> QED BY <2>3, <2>5, <3>2, <3>3
  <2>7. PICK n \in 1..NRanks : s = n - 1
    <3>1. s + 1 \in 1..NRanks /\ s = (s + 1) - 1
      BY NRanksAssumption DEF Rank
    <3> QED BY <3>1
  <2>8. ToSet(rows[n]) = ToSet(out[s]) \cup ToSet(in[s])
    BY <1>1, <2>7
  <2>9. \E x \in ToSet(ops) : Channel(x) = channel
    BY <1>2, <2>6, <2>8
  <2> QED BY <1>3, <2>3, <2>5, <2>9
<1>7. Call(r).op # "class_center_sample" /\ Call(r).op # "p_recv"
  BY DEF Exchanges
<1>8. Post(r, ops) /\ call[r] \in {0, call[r]}
  BY DEF ops
<1> QED BY <1>5, <1>6, <1>7, <1>8, KernelPost
-----------------------------------------------------------------------------
\* An allocated buffer has its size.
LEMMA AllocSized ==
  ASSUME NEW labels, CountsInv(labels), NEW r \in Rank, NEW b \in 0..Len(program[r]),
         NEW n \in Nat, Alloc(r, b, n)
  PROVE  received'[r][b] = Fresh(n) /\ Sized(received'[r][b], n)
<1>1. DOMAIN received = Rank /\ received[r] = [d \in 0..Len(program[r]) |-> received[r][d]]
  BY InvParts DEF OfRank
<1> DEFINE f == Fresh(n)
<1>2. received' = [received EXCEPT ![r][b] = f]
  BY DEF Alloc
<1>3. f = [k \in 1..n |-> f[k]]
  BY DEF Fresh
<1> HIDE DEF f
<1>4. Sized(f, n)
  BY <1>3, FunctionSized
<1>5. received'[r] = [received[r] EXCEPT ![b] = f]
  BY <1>1, <1>2
<1>6. received'[r][b] = f
  <2>1. b \in DOMAIN received[r]
    BY <1>1
  <2> QED BY <1>5, <2>1
<1> QED BY <1>4, <1>6 DEF f

\* One operation for a rank.
LEMMA OneSent ==
  ASSUME NEW x, NEW channel, Channel(x) = channel
  PROVE  OneOf(<<x>>, channel) /\ \A y \in ToSet(<<x>>) : y = x
BY OneIsSeq DEF OneOf

\* None for a rank.
LEMMA NoneSent ==
  ASSUME NEW channel PROVE OneOf(<<>>, channel) /\ \A y \in ToSet(<<>>) : FALSE
BY DEF OneOf, ToSet

\* A send and a receive.
LEMMA TwoJoined ==
  ASSUME NEW x, NEW y PROVE <<x>> \o <<y>> = <<x, y>>
<1> DEFINE S == {x, y}
<1>1. <<x>> \in Seq(S) /\ <<y>> \in Seq(S) /\ <<x, y>> \in Seq(S)
  OBVIOUS
<1>2. <<x>> \o <<y>> \in Seq(S) /\ Len(<<x>> \o <<y>>) = 2
  BY <1>1, ConcatProperties
<1>3. (<<x>> \o <<y>>)[1] = x /\ (<<x>> \o <<y>>)[2] = y
  BY <1>1, ConcatProperties
<1>4. Len(<<x, y>>) = 2 /\ <<x, y>>[1] = x /\ <<x, y>>[2] = y
  OBVIOUS
<1>5. \A i \in 1..2 : i = 1 \/ i = 2
  OBVIOUS
<1> HIDE DEF S
<1> QED BY <1>1, <1>2, <1>3, <1>4, <1>5, SeqEqual

\* all_to_all keeps the invariant.
LEMMA AllToAllInv ==
  ASSUME NEW labels, CountsInv(labels), NEW r \in Rank, AllToAll(r)
  PROVE  \E labels2 : CountsInv(labels2)'
<1> DEFINE n == Call(r).numel \div NRanks
           sent(s) == Send(s, Part(r, s * n, n), FALSE)
           taken(s) == Recv(s, call[r], s * n, n, FALSE)
           out == [s \in Rank |-> <<sent(s)>>]
           in == [s \in Rank |-> <<taken(s)>>]
           rows == [k \in 1..NRanks |-> <<sent(k - 1), taken(k - 1)>>]
<1>1. /\ ~Finished(r) /\ Call(r).op = "all_to_all" /\ step[r] = 0 /\ Return(r)
      /\ Post(r, FlattenSeq(rows)) /\ Alloc(r, call[r], Call(r).numel)
  BY DEF AllToAll, At
<1>2. Call(r).numel \in Nat
  <2>1. WellFormed(Call(r))
    BY <1>1, Here
  <2> QED BY <1>1, <2>1 DEF WellFormed, CrossEntropies
<1>3. Goes(r, Nat) /\ 0 \in Nat
  BY <1>1, ReturnGoes
<1>4. Receives(r, call[r])
  BY <1>1, AllocReceives
<1>5. Call(r).op \in Exchanges
  BY <1>1 DEF Exchanges
<1>6. OutSize(Call(r), r) = Call(r).numel
  BY <1>1 DEF OutSize
<1>7. OwnBuffer(r)
  <2>1. call[r] \in 0..Len(program[r])
    BY <1>1, Here
  <2>2. Sized(received'[r][call[r]], Call(r).numel)
    BY <1>1, <1>2, <2>1, AllocSized
  <2> QED BY <1>1, <1>6, <2>2 DEF OwnBuffer, CrossEntropies
<1>8. /\ \A s, d : Sizes(Call(r), s, d, 0) = {n}
      /\ \A s, d : \A k \in Nat : k # 0 => Sizes(Call(r), s, d, k) = {}
  BY <1>1 DEF Sizes
<1>9. \A s \in Rank : n \in Nat /\ s * n \in Nat /\ s * n + n <= Call(r).numel
  <2> SUFFICES ASSUME NEW s \in Rank PROVE n \in Nat /\ s * n \in Nat /\ s * n + n <= Call(r).numel
    OBVIOUS
  <2>1. PICK k \in 1..NRanks : k - 1 = s
    <3>1. s + 1 \in 1..NRanks /\ (s + 1) - 1 = s
      BY NRanksAssumption DEF Rank
    <3> QED BY <3>1
  <2>2. /\ n \in Nat /\ (k - 1) * n \in Nat /\ (k - 1) * n + n <= Call(r).numel
    BY <1>2, PartsOf
  <2> QED BY <2>1, <2>2
<1> HIDE DEF n
<1>10. ASSUME NEW s \in Rank
       PROVE  Between(r, 0, s, out[s], in[s]) /\ out[s] # <<>> /\ in[s] # <<>>
  <2> DEFINE a == sent(s)
             b == taken(s)
  <2>1. a.kind = "send" /\ a.peer = s /\ a.data = Part(r, s * n, n)
    BY DEF Send
  <2>2. b.kind = "recv" /\ b.peer = s /\ b.at = s * n /\ b.count = n /\ b.buffer = call[r]
    BY DEF Recv
  <2>3. out[s] = <<a>> /\ in[s] = <<b>>
    OBVIOUS
  <2> HIDE DEF a, b, out, in
  <2>4. Len(a.data) = n
    BY <1>9, <2>1, PartSized
  <2>5. Sends(Call(r), s) /\ ReceivesFrom(Call(r), s)
    BY <1>5 DEF Sends, ReceivesFrom
  <2>6. Channel(a) = <<"send", s>> /\ Fits(r, call[r], 0, a)
    <3>1. Sends(Call(r), a.peer) /\ a.peer \in Rank /\ Sizes(Call(r), r, a.peer, 0) = {Len(a.data)}
      BY <1>8, <2>1, <2>4, <2>5
    <3> QED BY <1>1, <2>1, <3>1, SendFits
  <2>7. Channel(b) = <<"recv", s>> /\ Fits(r, call[r], 0, b)
    <3>1. ReceivesFrom(Call(r), b.peer) /\ b.peer \in Rank /\ Sizes(Call(r), b.peer, r, 0) = {b.count}
      BY <1>8, <2>2, <2>5
    <3>2. b.at \in Nat /\ b.count \in Nat /\ b.at + b.count <= OutSize(Call(r), r)
      BY <1>6, <1>9, <2>2
    <3>3. ~ToBuffer0(Call(r), 0)
      BY <1>1 DEF ToBuffer0
    <3> QED BY <1>1, <2>2, <3>1, <3>2, <3>3, RecvFits
  <2>8. /\ OneOf(<<a>>, <<"send", s>>) /\ \A y \in ToSet(<<a>>) : y = a
        /\ OneOf(<<b>>, <<"recv", s>>) /\ \A y \in ToSet(<<b>>) : y = b
    BY <2>6, <2>7, OneSent
  <2>9. <<a>> # <<>> /\ <<b>> # <<>>
    OBVIOUS
  <2> QED BY <2>1, <2>2, <2>3, <2>6, <2>7, <2>8, <2>9 DEF Between
<1>11. Asked(r, Nat, 0, out, in)
  <2> HIDE DEF out, in
  <2> QED BY <1>8, <1>10 DEF Asked
<1>12. RowsOf(rows, out, in)
  <2>1. ASSUME NEW k \in 1..NRanks PROVE rows[k] = out[k - 1] \o in[k - 1]
    <3>1. k - 1 \in Rank
      BY NRanksAssumption DEF Rank
    <3>2. out[k - 1] = <<sent(k - 1)>> /\ in[k - 1] = <<taken(k - 1)>>
      BY <3>1
    <3>3. rows[k] = <<sent(k - 1), taken(k - 1)>>
      OBVIOUS
    <3> HIDE DEF sent, taken, rows, out, in
    <3> QED BY <3>2, <3>3, TwoJoined
  <2>2. rows = [k \in 1..NRanks |-> rows[k]]
    OBVIOUS
  <2> HIDE DEF rows, out, in
  <2> QED BY <2>1, <2>2 DEF RowsOf
<1> HIDE DEF rows, out, in
<1>13. \A s \in Rank : Between(r, 0, s, out[s], in[s])
  BY <1>10
<1> QED BY ONLY CountsInv(labels), r \in Rank, <1>1, <1>3, <1>4, <1>5, <1>7, <1>11, <1>12, <1>13, ExchangeStep
-----------------------------------------------------------------------------
\* A count is sent as one operation, or as none when it is zero.
Counted(r, k, s, m, n, at) ==
  /\ Sizes(Call(r), r, s, k) = {m} \ {0} /\ Sizes(Call(r), s, r, k) = {n} \ {0}
  /\ at + n <= OutSize(Call(r), r)
AsCounted(r, s, m, n, from, at, out, in) ==
  /\ m = 0 => out = <<>>
  /\ m # 0 => out = <<Send(s, Part(r, from, m), FALSE)>>
  /\ n = 0 => in = <<>>
  /\ n # 0 => in = <<Recv(s, call[r], at, n, FALSE)>>

\* A count of zero is neither sent nor received.
LEMMA CountSent ==
  ASSUME NEW labels, CountsInv(labels), NEW r \in Rank, ~Finished(r), Call(r).op \in Exchanges,
         NEW k, NEW s \in Rank, NEW m \in Nat, NEW n \in Nat, NEW from, NEW at \in Nat,
         Counted(r, k, s, m, n, at), NEW out, NEW in, AsCounted(r, s, m, n, from, at, out, in)
  PROVE  /\ Between(r, k, s, out, in)
         /\ m # 0 => out # <<>>
         /\ n # 0 => in # <<>>
<1> DEFINE a == Send(s, Part(r, from, m), FALSE)
           b == Recv(s, call[r], at, n, FALSE)
<1>1. a.kind = "send" /\ a.peer = s /\ a.data = Part(r, from, m)
  BY DEF Send
<1>2. b.kind = "recv" /\ b.peer = s /\ b.at = at /\ b.count = n /\ b.buffer = call[r]
  BY DEF Recv
<1>3. out = (IF m = 0 THEN <<>> ELSE <<a>>) /\ in = (IF n = 0 THEN <<>> ELSE <<b>>)
  BY DEF AsCounted
<1> HIDE DEF a, b
<1>4. Len(a.data) = m
  BY <1>1, PartSized
<1>5. Sends(Call(r), s) /\ ReceivesFrom(Call(r), s) /\ Call(r).op # "p_send" /\ Call(r).op # "p_recv"
  BY DEF Sends, ReceivesFrom, Exchanges
<1>6. ASSUME m # 0 PROVE Channel(a) = <<"send", s>> /\ Fits(r, call[r], k, a)
  <2>1. Sends(Call(r), a.peer) /\ a.peer \in Rank /\ Sizes(Call(r), r, a.peer, k) = {Len(a.data)}
    BY <1>1, <1>4, <1>5, <1>6 DEF Counted
  <2> QED BY <1>1, <1>5, <2>1, SendFits
<1>7. ASSUME n # 0 PROVE Channel(b) = <<"recv", s>> /\ Fits(r, call[r], k, b)
  <2>1. ReceivesFrom(Call(r), b.peer) /\ b.peer \in Rank /\ Sizes(Call(r), b.peer, r, k) = {b.count}
    BY <1>2, <1>5, <1>7 DEF Counted
  <2>2. b.at \in Nat /\ b.count \in Nat /\ b.at + b.count <= OutSize(Call(r), r)
    BY <1>2 DEF Counted
  <2>3. ~ToBuffer0(Call(r), k)
    BY <1>5 DEF ToBuffer0
  <2> QED BY <1>2, <2>1, <2>2, <2>3, RecvFits
<1>8. /\ OneOf(out, <<"send", s>>) /\ (\A x \in ToSet(out) : Fits(r, call[r], k, x) /\ x.kind = "send")
      /\ m # 0 => out # <<>>
  <2>1. CASE m = 0
    BY <1>3, <2>1, NoneSent
  <2>2. CASE m # 0
    <3>1. OneOf(<<a>>, <<"send", s>>) /\ (\A y \in ToSet(<<a>>) : y = a) /\ <<a>> # <<>>
      BY <1>6, <2>2, OneSent
    <3> QED BY <1>1, <1>3, <1>6, <2>2, <3>1
  <2> QED BY <2>1, <2>2
<1>9. /\ OneOf(in, <<"recv", s>>) /\ (\A x \in ToSet(in) : Fits(r, call[r], k, x) /\ x.kind = "recv")
      /\ n # 0 => in # <<>>
  <2>1. CASE n = 0
    BY <1>3, <2>1, NoneSent
  <2>2. CASE n # 0
    <3>1. OneOf(<<b>>, <<"recv", s>>) /\ (\A y \in ToSet(<<b>>) : y = b) /\ <<b>> # <<>>
      BY <1>7, <2>2, OneSent
    <3> QED BY <1>2, <1>3, <1>7, <2>2, <3>1
  <2> QED BY <2>1, <2>2
<1> QED BY <1>8, <1>9 DEF Between

\* McclAll2All keeps the invariant.
LEMMA McclAll2AllInv ==
  ASSUME NEW labels, CountsInv(labels), NEW r \in Rank, McclAll2All(r)
  PROVE  \E labels2 : CountsInv(labels2)'
<1> DEFINE count == Call(r).count
           f == [s \in Rank |-> count[s][r]]
           sent(j) == IF count[r][j] = 0 THEN <<>>
                      ELSE <<Send(j, Part(r, Sum(count[r], j), count[r][j]), FALSE)>>
           taken(j) == IF count[j][r] = 0 THEN <<>>
                       ELSE <<Recv(j, call[r], Sum(f, j), count[j][r], FALSE)>>
           out == [s \in Rank |-> sent(s)]
           in == [s \in Rank |-> taken(s)]
           rows == [k \in 1..NRanks |-> sent(k - 1) \o taken(k - 1)]
<1>1. /\ ~Finished(r) /\ Call(r).op = "all2all" /\ step[r] = 0 /\ Return(r)
      /\ Post(r, FlattenSeq(rows)) /\ Alloc(r, call[r], Sum(f, NRanks))
  BY DEF McclAll2All, At
<1>2. count \in [Rank -> [Rank -> Nat]]
  <2>1. WellFormed(Call(r))
    BY <1>1, Here
  <2> QED BY <1>1, <2>1 DEF WellFormed, CrossEntropies, Wholes
<1>3. Goes(r, Nat) /\ 0 \in Nat
  BY <1>1, ReturnGoes
<1>4. Receives(r, call[r])
  BY <1>1, AllocReceives
<1>5. Call(r).op \in Exchanges
  BY <1>1 DEF Exchanges
<1>6. OutSize(Call(r), r) = Sum(f, NRanks)
  BY <1>1 DEF OutSize
<1>7. /\ NRanks \in Nat /\ Rank = 0..(NRanks - 1)
      /\ \A k \in 0..(NRanks - 1) : f[k] \in Nat /\ f[k] = count[k][r]
  BY <1>2, NRanksAssumption DEF Rank
<1>8. Sum(f, NRanks) \in Nat /\ \A s \in Rank : Sum(f, s) \in Nat /\ Sum(f, s) + f[s] <= Sum(f, NRanks)
  <2> HIDE DEF f
  <2>1. PICK g : g = f
    OBVIOUS
  <2>2. PICK n \in Nat : n = NRanks
    BY <1>7
  <2>3. \A k \in 0..(n - 1) : g[k] \in Nat
    BY <1>7, <2>1, <2>2
  <2>4. ASSUME NEW s \in 0..(n - 1) PROVE Sum(g, s) \in Nat /\ Sum(g, s) + g[s] <= Sum(g, n)
    BY <2>3, PartWithinSum
  <2>5. Sum(g, n) \in Nat
    <3>1. \A j \in 0..n : Sum(g, j) \in Nat
      BY <2>3, SumSteps
    <3> QED BY <3>1
  <2> QED BY <1>7, <2>1, <2>2, <2>4, <2>5
<1>9. OwnBuffer(r)
  <2>1. call[r] \in 0..Len(program[r])
    BY <1>1, Here
  <2> HIDE DEF f
  <2>2. Sized(received'[r][call[r]], Sum(f, NRanks))
    BY <1>1, <1>8, <2>1, AllocSized
  <2> QED BY <1>1, <1>6, <2>2 DEF OwnBuffer, CrossEntropies
<1>10. /\ \A s, d : Sizes(Call(r), s, d, 0) = {count[s][d]} \ {0}
       /\ \A s, d : \A k \in Nat : k # 0 => Sizes(Call(r), s, d, k) = {}
  BY <1>1 DEF Sizes
<1>11. ASSUME NEW s \in Rank
       PROVE  /\ Between(r, 0, s, out[s], in[s])
              /\ count[r][s] # 0 => out[s] # <<>>
              /\ count[s][r] # 0 => in[s] # <<>>
  <2>1. count[r][s] \in Nat /\ count[s][r] \in Nat
    BY <1>2
  <2>2. Sum(f, s) \in Nat /\ Sum(f, s) + count[s][r] <= OutSize(Call(r), r)
    <3> HIDE DEF f
    <3> QED BY <1>6, <1>7, <1>8
  <2>3. out[s] = sent(s) /\ in[s] = taken(s)
    OBVIOUS
  <2>4. /\ Sizes(Call(r), r, s, 0) = {count[r][s]} \ {0}
        /\ Sizes(Call(r), s, r, 0) = {count[s][r]} \ {0}
    BY <1>10
  <2>5. PICK m \in Nat : m = count[r][s]
    BY <2>1
  <2>6. PICK n \in Nat : n = count[s][r]
    BY <2>1
  <2>7. PICK from : from = Sum(count[r], s)
    OBVIOUS
  <2>8. PICK at \in Nat : at = Sum(f, s)
    BY <2>2
  <2>9. /\ out[s] = (IF m = 0 THEN <<>> ELSE <<Send(s, Part(r, from, m), FALSE)>>)
        /\ in[s] = (IF n = 0 THEN <<>> ELSE <<Recv(s, call[r], at, n, FALSE)>>)
    <3> HIDE DEF f, out, in, count
    <3> QED BY ONLY <2>3, <2>5, <2>6, <2>7, <2>8
  <2>10. Counted(r, 0, s, m, n, at)
    <3> HIDE DEF f, out, in, count
    <3> QED BY ONLY <2>2, <2>4, <2>5, <2>6, <2>8 DEF Counted
  <2> HIDE DEF f, out, in, count
  <2>11. AsCounted(r, s, m, n, from, at, out[s], in[s])
    BY ONLY <2>9 DEF AsCounted
  <2>12. /\ Between(r, 0, s, out[s], in[s])
         /\ m # 0 => out[s] # <<>>
         /\ n # 0 => in[s] # <<>>
    BY <1>1, <1>5, <2>10, <2>11, CountSent
  <2> QED BY ONLY <2>5, <2>6, <2>12
<1>12. Asked(r, Nat, 0, out, in)
  <2> HIDE DEF out, in
  <2> QED BY <1>10, <1>11 DEF Asked
<1>13. RowsOf(rows, out, in)
  <2>1. ASSUME NEW k \in 1..NRanks PROVE rows[k] = out[k - 1] \o in[k - 1]
    <3>1. k - 1 \in Rank
      BY NRanksAssumption DEF Rank
    <3>2. out[k - 1] = sent(k - 1) /\ in[k - 1] = taken(k - 1)
      BY <3>1
    <3> HIDE DEF sent, taken, out, in
    <3> QED BY <3>2
  <2>2. rows = [k \in 1..NRanks |-> rows[k]]
    OBVIOUS
  <2> HIDE DEF rows, out, in
  <2> QED BY <2>1, <2>2 DEF RowsOf
<1> HIDE DEF rows, out, in
<1>14. \A s \in Rank : Between(r, 0, s, out[s], in[s])
  BY <1>11
<1> QED BY ONLY CountsInv(labels), r \in Rank, <1>1, <1>3, <1>4, <1>5, <1>9, <1>12, <1>13, <1>14, ExchangeStep
-----------------------------------------------------------------------------
\* A kernel of several steps goes on, or returns from the last.
LEMMA NextOrReturn ==
  ASSUME NEW labels, CountsInv(labels), NEW r \in Rank, ~Finished(r), NEW i \in Nat, step[r] = i,
         Call(r).op # "c_scatter", NEW n \in Nat, Steps(Call(r)) = n,
         IF i + 1 < n THEN Goto(r, i + 1) ELSE Return(r)
  PROVE  \E leaving : /\ Goes(r, leaving) /\ i \in leaving
                      /\ \A k \in leaving : k \in Nat /\ (k < n => k = i)
<1>1. Posted(r) = i
  BY DEF Posted
<1>2. i < n
  <2>1. step[r] < Steps(Call(r))
    BY Here
  <2> QED BY <2>1
<1>3. CASE i + 1 < n
  <2> DEFINE leaving == {k \in Nat : /\ Posted(r) <= k
                                     /\ k < (IF Call(r).op = "c_scatter" THEN 2 * (i + 1) ELSE i + 1)}
  <2>1. PICK j \in Nat : j = i + 1
    OBVIOUS
  <2>2. Goto(r, j) /\ step[r] <= j /\ j # 0 /\ j < Steps(Call(r))
        /\ leaving = {k \in Nat : /\ Posted(r) <= k
                                     /\ k < (IF Call(r).op = "c_scatter" THEN 2 * j ELSE j)}
    BY <1>3, <2>1
  <2>3. \A k : k \in leaving <=> k = i
    BY <1>1
  <2> HIDE DEF leaving
  <2>4. Goes(r, leaving)
    BY <2>2 DEF Goes
  <2> QED BY <2>3, <2>4
<1>4. CASE ~(i + 1 < n)
  <2> DEFINE leaving == {k \in Nat : k >= Posted(r)}
  <2>1. Goes(r, leaving)
    BY <1>4 DEF Goes
  <2>2. i \in leaving /\ \A k \in leaving : k \in Nat /\ (k < n => k = i)
    BY <1>1, <1>2, <1>4
  <2> QED BY <2>1, <2>2
<1> QED BY <1>3, <1>4

\* The tensor that a kernel of several steps receives into is allocated by the first.
LEMMA FirstAllocs ==
  ASSUME NEW labels, CountsInv(labels), NEW r \in Rank, ~Finished(r), IsReceiving(Call(r)),
         Call(r).op # "p_recv", Call(r).op \notin CrossEntropies,
         NEW i \in Nat, step[r] = i, NEW n \in Nat, OutSize(Call(r), r) = n,
         IF i = 0 THEN Alloc(r, call[r], n) ELSE received' = received
  PROVE  Receives(r, call[r]) /\ OwnBuffer(r)
<1>1. call[r] \in 0..Len(program[r]) /\ call[r] \in DOMAIN program[r] /\ Call(r) = program[r][call[r]]
      /\ call[r] \in Nat
  BY Here
<1>2. CASE i = 0
  <2>1. Receives(r, call[r])
    BY <1>2, AllocReceives
  <2>2. Sized(received'[r][call[r]], n)
    BY <1>1, <1>2, AllocSized
  <2> QED BY <2>1, <2>2 DEF OwnBuffer
<1>3. CASE i # 0
  <2>1. Receives(r, call[r])
    BY <1>1, <1>3 DEF Receives
  <2>2. Buffers(r)
    BY InvParts DEF OfRank
  <2>3. Sized(received[r][call[r]], OutSize(Call(r), r))
    BY <1>1, <1>3, <2>2 DEF Buffers
  <2>4. received'[r][call[r]] = received[r][call[r]]
    BY <1>3
  <2> QED BY <2>1, <2>3, <2>4 DEF OwnBuffer
<1> QED BY <1>2, <1>3

\* global_scatter keeps the invariant, in every round of its loop over the experts.
LEMMA GlobalScatterInv ==
  ASSUME NEW labels, CountsInv(labels), NEW r \in Rank, NEW i \in 0..step[r], GlobalScatter(r, i)
  PROVE  \E labels2 : CountsInv(labels2)'
<1>1. /\ ~Finished(r) /\ Call(r).op = "global_scatter" /\ step[r] = i
      /\ Post(r, ExpertGroup(Call(r), r, i))
      /\ IF i = 0
         THEN Alloc(r, call[r], Sum(GlobalCount(Call(r), r), Call(r).experts * NRanks))
         ELSE received' = received
      /\ IF i + 1 < Call(r).experts THEN Goto(r, i + 1) ELSE Return(r)
  BY DEF GlobalScatter, At
<1>2. PICK c : c = Call(r)
  OBVIOUS
<1>3. c.experts \in Nat \ {0} /\ c.local \in [Rank -> [0..(c.experts * NRanks - 1) -> Nat]]
  <2>1. WellFormed(c)
    BY <1>1, <1>2, Here
  <2> QED BY <1>1, <1>2, <2>1 DEF WellFormed, CrossEntropies, Wholes
<1>4. i \in Nat /\ Steps(c) = c.experts /\ i \in 0..(c.experts - 1)
  <2>1. step[r] \in Nat /\ step[r] < Steps(c)
    BY <1>1, <1>2, Here
  <2>2. Steps(c) = c.experts
    BY <1>1, <1>2 DEF Steps
  <2> QED BY <1>1, <1>3, <2>1, <2>2
<1>5. PICK E \in Nat \ {0} : E = c.experts
  BY <1>3
<1>6. PICK leaving : /\ Goes(r, leaving) /\ i \in leaving
                     /\ \A k \in leaving : k \in Nat /\ (k < E => k = i)
  <2>1. IF i + 1 < E THEN Goto(r, i + 1) ELSE Return(r)
    BY <1>1, <1>2, <1>5
  <2>2. Steps(Call(r)) = E /\ Call(r).op # "c_scatter" /\ step[r] = i /\ i \in Nat /\ E \in Nat
    BY <1>1, <1>2, <1>4, <1>5
  <2> QED BY <1>1, <2>1, <2>2, NextOrReturn
<1>7. Call(r).op \in Exchanges /\ IsReceiving(Call(r)) /\ Call(r).op # "p_recv"
      /\ Call(r).op \notin CrossEntropies
  BY <1>1 DEF Exchanges, IsReceiving, CrossEntropies
<1>8. PICK G : G = GlobalCount(c, r)
  OBVIOUS
<1>9. /\ E * NRanks \in Nat
      /\ \A s \in Rank : /\ i + s * E \in 0..(E * NRanks - 1)
                         /\ (i + s * E) \div E = s /\ (i + s * E) % E = i
                         /\ G[i + s * E] = c.local[s][i + r * E]
      /\ \A k \in 0..(E * NRanks - 1) : G[k] \in Nat
  <2>1. Table(c, r)
    BY <1>3, CountsOfScatter
  <2> QED BY <1>4, <1>5, <1>8, <2>1 DEF Table
<1>10. PICK n \in Nat : n = Sum(G, E * NRanks)
  <2>1. PICK m \in Nat : m = E * NRanks
    BY <1>9
  <2>2. \A k \in 0..(m - 1) : G[k] \in Nat
    BY <1>9, <2>1
  <2>3. \A k \in 0..m : Sum(G, k) \in Nat
    BY <2>2, SumSteps
  <2> QED BY <2>1, <2>3
<1>11. OutSize(Call(r), r) = n
  BY <1>1, <1>2, <1>5, <1>8, <1>10 DEF OutSize
<1>12. Receives(r, call[r]) /\ OwnBuffer(r)
  <2>1. IF i = 0 THEN Alloc(r, call[r], n) ELSE received' = received
    BY <1>1, <1>2, <1>5, <1>8, <1>10
  <2> QED BY <1>1, <1>4, <1>7, <1>11, <2>1, FirstAllocs
<1> DEFINE idx(s) == i + s * E
           sent(s) == SendRows(c, r, idx(s))
           taken(s) == RecvRows(c, r, idx(s))
           out == [s \in Rank |-> sent(s)]
           in == [s \in Rank |-> taken(s)]
           rows == [k \in 1..NRanks |-> sent(k - 1) \o taken(k - 1)]
<1>13. ASSUME NEW s \in Rank
       PROVE  /\ c.local[r][idx(s)] \in Nat /\ G[idx(s)] \in Nat
              /\ Sizes(Call(r), r, s, i) = {c.local[r][idx(s)]} \ {0}
              /\ Sizes(Call(r), s, r, i) = {G[idx(s)]} \ {0}
              /\ \A k \in leaving : k # i => Sizes(Call(r), r, s, k) = {} /\ Sizes(Call(r), s, r, k) = {}
  <2>1. PICK x : x = idx(s)
    OBVIOUS
  <2>2. x \in 0..(E * NRanks - 1) /\ G[x] = c.local[s][i + r * E]
    BY <1>9, <2>1
  <2>3. c.local[r][x] \in Nat /\ G[x] \in Nat
    <3>1. c.local \in [Rank -> [0..(E * NRanks - 1) -> Nat]]
      BY <1>3, <1>5
    <3> QED BY <1>9, <2>2, <3>1
  <2>4. \A a, b, k : Sizes(Call(r), a, b, k) = IF k < E THEN {c.local[a][k + b * E]} \ {0} ELSE {}
    BY <1>1, <1>2, <1>5 DEF Sizes
  <2>5. i < E
    BY <1>4, <1>5
  <2>6. Sizes(Call(r), r, s, i) = {c.local[r][i + s * E]} \ {0}
    BY <2>4, <2>5
  <2>7. Sizes(Call(r), s, r, i) = {c.local[s][i + r * E]} \ {0}
    BY <2>4, <2>5
  <2>8. \A k \in leaving : k # i => ~(k < E)
    BY <1>6
  <2>9. \A k \in leaving : k # i => Sizes(Call(r), r, s, k) = {} /\ Sizes(Call(r), s, r, k) = {}
    BY <2>4, <2>8
  <2> QED BY <2>1, <2>2, <2>3, <2>6, <2>7, <2>9
<1>14. ASSUME NEW s \in Rank
       PROVE  /\ Between(r, i, s, out[s], in[s])
              /\ c.local[r][idx(s)] # 0 => out[s] # <<>>
              /\ G[idx(s)] # 0 => in[s] # <<>>
  <2>1. PICK x : x = idx(s)
    OBVIOUS
  <2>2. x \div E = s /\ x % E = i /\ x = i + s * E
    BY <1>9, <2>1
  <2>3. PICK m \in Nat : m = c.local[r][x]
    BY <1>13, <2>1
  <2>4. PICK k \in Nat : k = G[x]
    BY <1>13, <2>1
  <2>5. PICK from : from = Sum(c.local[r], x)
    OBVIOUS
  <2>6. RecvPtr(c, r, i, s) \in Nat /\ RecvPtr(c, r, i, s) + k <= n
    <3>1. RecvPtr(c, r, i, s) \in Nat
      BY <1>3, <1>4, RowsFit
    <3>2. RecvPtr(c, r, i, s) + GlobalCount(c, r)[i + s * c.experts]
              <= Sum(GlobalCount(c, r), c.experts * NRanks)
      BY <1>3, <1>4, RowsFit
    <3> QED BY <1>5, <1>8, <1>10, <2>2, <2>4, <3>1, <3>2
  <2>7. PICK at \in Nat : at = RecvPtr(c, r, i, s)
    BY <2>6
  <2>8. Counted(r, i, s, m, k, at)
    <3>1. Sizes(Call(r), r, s, i) = {m} \ {0} /\ Sizes(Call(r), s, r, i) = {k} \ {0}
      BY <1>13, <2>1, <2>3, <2>4
    <3> QED BY <1>11, <2>6, <2>7, <3>1 DEF Counted
  <2>9. out[s] = SendRows(c, r, x) /\ in[s] = RecvRows(c, r, x)
    BY <2>1
  <2> HIDE DEF out, in, idx
  <2>10. SendRows(c, r, x) = IF m = 0 THEN <<>> ELSE <<Send(s, Part(r, from, m), FALSE)>>
    BY <1>5, <2>2, <2>3, <2>5 DEF SendRows
  <2>11. RecvRows(c, r, x) = IF k = 0 THEN <<>> ELSE <<Recv(s, call[r], at, k, FALSE)>>
    BY <1>5, <1>8, <2>2, <2>4, <2>7 DEF RecvRows
  <2>12. AsCounted(r, s, m, k, from, at, out[s], in[s])
    BY <2>9, <2>10, <2>11 DEF AsCounted
  <2>13. /\ Between(r, i, s, out[s], in[s])
         /\ m # 0 => out[s] # <<>>
         /\ k # 0 => in[s] # <<>>
    BY <1>1, <1>7, <2>8, <2>12, CountSent
  <2> QED BY ONLY <2>1, <2>3, <2>4, <2>13
<1>15. Asked(r, leaving, i, out, in)
  <2> HIDE DEF out, in, idx
  <2> QED BY <1>13, <1>14 DEF Asked
<1>16. RowsOf(rows, out, in)
  <2>1. ASSUME NEW k \in 1..NRanks PROVE rows[k] = out[k - 1] \o in[k - 1]
    <3>1. k - 1 \in Rank
      BY NRanksAssumption DEF Rank
    <3>2. out[k - 1] = sent(k - 1) /\ in[k - 1] = taken(k - 1)
      BY <3>1
    <3> HIDE DEF sent, taken, out, in
    <3> QED BY <3>2
  <2>2. rows = [k \in 1..NRanks |-> rows[k]]
    OBVIOUS
  <2> HIDE DEF rows, out, in
  <2> QED BY <2>1, <2>2 DEF RowsOf
<1>17. ExpertGroup(c, r, i) = FlattenSeq(rows)
  BY <1>5 DEF ExpertGroup
<1> HIDE DEF rows, out, in, idx
<1>18. \A s \in Rank : Between(r, i, s, out[s], in[s])
  BY <1>14
<1>19. Post(r, FlattenSeq(rows)) /\ ~Finished(r)
  BY <1>1, <1>2, <1>17
<1> QED BY ONLY CountsInv(labels), r \in Rank, <1>6, <1>7, <1>12, <1>15, <1>16, <1>18, <1>19, ExchangeStep
-----------------------------------------------------------------------------
\* A message to or from one rank.
LEMMA PointSuits ==
  ASSUME NEW labels, CountsInv(labels), NEW r \in Rank, ~Finished(r),
         NEW leaving, NEW k \in leaving, NEW op, op.kind \in {"send", "recv"},
         op.kind = "send" => Call(r).op \in {"p_send", "p_send_array"},
         op.kind = "recv" => Call(r).op \in {"p_recv", "p_recv_array"},
         Channel(op) = <<op.kind, Call(r).peer>>, Fits(r, call[r], k, op),
         \A j \in leaving : \A a, b : Sizes(Call(r), a, b, j) # {} => j = k
  PROVE  Suits(r, k, <<op>>) /\ Covers(r, leaving, k, <<op>>)
<1> DEFINE ops == <<op>>
<1>1. DOMAIN ops = {1} /\ ops[1] = op
  OBVIOUS
<1> HIDE DEF ops
<1>2. Suits(r, k, ops)
  BY <1>1 DEF Suits
<1>3. ASSUME NEW channel \in Channels, NEW j \in leaving, Messages(r, channel, call[r], j) # {}
      PROVE  j = k /\ channel = Channel(op)
  <2>1. /\ Call(r).op \notin Joint /\ Call(r).op \notin Exchanges
    BY DEF Joint, Wholes, CrossEntropies, Exchanges
  <2>2. channel # <<"all", 0>>
    BY <1>3, <2>1, MessagesOf
  <2>3. PICK a \in {"send", "recv"}, s \in Rank : channel = <<a, s>>
    BY <2>2 DEF Channels
  <2>4. CASE a = "send"
    <3>1. Sends(Call(r), s) /\ Sizes(Call(r), r, s, j) # {}
      BY <1>3, <2>3, <2>4, MessagesOf
    <3>2. op.kind = "send" /\ Call(r).peer = s
      BY <2>1, <3>1 DEF Sends
    <3> QED BY <2>3, <2>4, <3>1, <3>2
  <2>5. CASE a = "recv"
    <3>1. ReceivesFrom(Call(r), s) /\ Sizes(Call(r), s, r, j) # {}
      BY <1>3, <2>3, <2>5, MessagesOf
    <3>2. op.kind = "recv" /\ Call(r).peer = s
      BY <2>1, <3>1 DEF ReceivesFrom
    <3> QED BY <2>3, <2>5, <3>1, <3>2
  <2> QED BY <2>4, <2>5
<1>4. Covers(r, leaving, k, ops)
  BY <1>1, <1>3 DEF Covers
<1> QED BY <1>2, <1>4 DEF ops

\* What a call to one rank sends or receives, by steps.
LEMMA PointSizes ==
  ASSUME NEW x, WellFormed(x)
  PROVE  /\ x.op \in {"p_send", "p_recv"} =>
              /\ x.peer \in Rank /\ x.dynamic \in BOOLEAN /\ x.shape \in Seq(Nat)
              /\ Product(x.shape) \in Nat
              /\ Steps(x) = (IF x.dynamic THEN 3 ELSE 1)
              /\ \A a, b : Sizes(x, a, b, 2) = {Product(x.shape)}
              /\ \A a, b : \A k \in Nat : Sizes(x, a, b, k) # {} => k = 2 \/ (x.dynamic /\ k \in {0, 1})
         /\ x.op \in {"p_send_array", "p_recv_array"} =>
              /\ x.peer \in Rank /\ x.tensors \in Nat \ {0}
              /\ x.numels \in [0..(x.tensors - 1) -> Nat]
              /\ Steps(x) = x.tensors
              /\ \A a, b, k : Sizes(x, a, b, k) = IF k < x.tensors THEN {x.numels[k]} ELSE {}
<1>1. ASSUME x.op \in {"p_send", "p_recv"}
      PROVE  /\ x.peer \in Rank /\ x.dynamic \in BOOLEAN /\ x.shape \in Seq(Nat)
             /\ Product(x.shape) \in Nat
             /\ Steps(x) = (IF x.dynamic THEN 3 ELSE 1)
             /\ \A a, b : Sizes(x, a, b, 2) = {Product(x.shape)}
             /\ \A a, b : \A k \in Nat : Sizes(x, a, b, k) # {} => k = 2 \/ (x.dynamic /\ k \in {0, 1})
  <2>1. x.peer \in Rank /\ x.dynamic \in BOOLEAN /\ x.shape \in Seq(Nat)
    BY <1>1 DEF WellFormed, Exchanges, Wholes, CrossEntropies
  <2>2. Product(x.shape) \in Nat
    BY <2>1, ProductIsNat
  <2>3. Steps(x) = (IF x.dynamic THEN 3 ELSE 1)
    BY <1>1 DEF Steps
  <2>4. \A a, b : Sizes(x, a, b, 2) = {Product(x.shape)}
    BY <1>1 DEF Sizes
  <2>5. ASSUME NEW a, NEW b, NEW k \in Nat, Sizes(x, a, b, k) # {}
        PROVE  k = 2 \/ (x.dynamic /\ k \in {0, 1})
    <3>1. k = 2 \/ ~(k > 2 \/ ~x.dynamic)
      BY <1>1, <2>5 DEF Sizes
    <3> QED BY <3>1
  <2> QED BY <2>1, <2>2, <2>3, <2>4, <2>5
<1>2. ASSUME x.op \in {"p_send_array", "p_recv_array"}
      PROVE  /\ x.peer \in Rank /\ x.tensors \in Nat \ {0}
             /\ x.numels \in [0..(x.tensors - 1) -> Nat]
             /\ Steps(x) = x.tensors
             /\ \A a, b, k : Sizes(x, a, b, k) = IF k < x.tensors THEN {x.numels[k]} ELSE {}
  <2>1. x.peer \in Rank /\ x.tensors \in Nat \ {0} /\ x.numels \in [0..(x.tensors - 1) -> Nat]
    BY <1>2 DEF WellFormed, Exchanges, Wholes, CrossEntropies
  <2>2. Steps(x) = x.tensors
    BY <1>2 DEF Steps
  <2>3. \A a, b, k : Sizes(x, a, b, k) = IF k < x.tensors THEN {x.numels[k]} ELSE {}
    BY <1>2 DEF Sizes
  <2> QED BY <2>1, <2>2, <2>3
<1> QED BY <1>1, <1>2
-----------------------------------------------------------------------------
\* A step that sends to one rank.
LEMMA SendStep ==
  ASSUME NEW labels, CountsInv(labels), NEW r \in Rank, ~Finished(r),
         Call(r).op \in {"p_send", "p_send_array"},
         NEW leaving, Goes(r, leaving), NEW k \in leaving, NEW data, NEW temp,
         Post(r, <<Send(Call(r).peer, data, temp)>>), received' = received,
         \A a, b : Sizes(Call(r), a, b, k) = {Len(data)},
         Call(r).op = "p_send" /\ k < 2 => data = ShapeInfo(Call(r), k),
         \A j \in leaving : \A a, b : Sizes(Call(r), a, b, j) # {} => j = k
  PROVE  \E labels2 : CountsInv(labels2)'
<1> DEFINE op == Send(Call(r).peer, data, temp)
<1>1. op.kind = "send" /\ op.peer = Call(r).peer /\ op.data = data
  BY DEF Send
<1>2. Post(r, <<op>>)
  OBVIOUS
<1> HIDE DEF op
<1>3. Call(r).peer \in Rank
  <2>1. WellFormed(Call(r))
    BY Here
  <2> QED BY <2>1, PointSizes
<1>4. Sends(Call(r), op.peer)
  BY <1>1 DEF Sends
<1>5. Sizes(Call(r), r, op.peer, k) = {Len(op.data)}
  BY <1>1
<1>6. Channel(op) = <<op.kind, Call(r).peer>> /\ Fits(r, call[r], k, op)
  BY <1>1, <1>3, <1>4, <1>5, SendFits
<1>7. Suits(r, k, <<op>>) /\ Covers(r, leaving, k, <<op>>)
  BY <1>1, <1>6, PointSuits
<1>8. call[r] \in 0..Len(program[r])
  BY Here
<1>9. Receives(r, call[r])
  BY <1>8 DEF Receives
<1>10. OwnBuffer(r) /\ Call(r).op # "class_center_sample" /\ Call(r).op # "p_recv"
  BY DEF OwnBuffer, IsReceiving, Exchanges, CrossEntropies
<1> QED BY <1>2, <1>7, <1>9, <1>10, KernelPost

\* A step that receives from one rank into the tensor of the call.
LEMMA RecvStep ==
  ASSUME NEW labels, CountsInv(labels), NEW r \in Rank, ~Finished(r),
         Call(r).op \in {"p_recv", "p_recv_array"},
         NEW leaving, Goes(r, leaving), NEW k \in leaving, NEW at \in Nat, NEW count \in Nat, NEW temp,
         Post(r, <<Recv(Call(r).peer, call[r], at, count, temp)>>),
         at + count <= OutSize(Call(r), r), ~ToBuffer0(Call(r), k),
         \A a, b : Sizes(Call(r), a, b, k) = {count},
         \A j \in leaving : \A a, b : Sizes(Call(r), a, b, j) # {} => j = k,
         Receives(r, call[r]), OwnBuffer(r),
         Call(r).op = "p_recv" => Return(r) /\ k \notin {0, 1} /\ (step[r] = 0 \/ Drained(r))
  PROVE  \E labels2 : CountsInv(labels2)'
<1> DEFINE op == Recv(Call(r).peer, call[r], at, count, temp)
<1>1. op.kind = "recv" /\ op.peer = Call(r).peer /\ op.buffer = call[r] /\ op.at = at /\ op.count = count
  BY DEF Recv
<1>2. Post(r, <<op>>)
  OBVIOUS
<1> HIDE DEF op
<1>3. Call(r).peer \in Rank
  <2>1. WellFormed(Call(r))
    BY Here
  <2> QED BY <2>1, PointSizes
<1>4. ReceivesFrom(Call(r), op.peer)
  BY <1>1 DEF ReceivesFrom
<1>5. Sizes(Call(r), op.peer, r, k) = {op.count}
  BY <1>1
<1>6. Channel(op) = <<op.kind, Call(r).peer>> /\ Fits(r, call[r], k, op)
  BY <1>1, <1>3, <1>4, <1>5, RecvFits
<1>7. Suits(r, k, <<op>>) /\ Covers(r, leaving, k, <<op>>)
  BY <1>1, <1>6, PointSuits
<1>8. Call(r).op # "class_center_sample" /\ call[r] \in {0, call[r]}
  OBVIOUS
<1> QED BY <1>2, <1>7, <1>8, KernelPost

\* send_shape_info keeps the invariant.
LEMMA SendShapeInv ==
  ASSUME NEW labels, CountsInv(labels), NEW r \in Rank, SendShapeSize(r) \/ SendShape(r)
  PROVE  \E labels2 : CountsInv(labels2)'
<1>1. ~Finished(r) /\ Call(r).op = "p_send" /\ received' = received
  BY DEF SendShapeSize, SendShape, At
<1>2. PICK x : x = Call(r)
  OBVIOUS
<1>3. /\ WellFormed(x) /\ step[r] \in Nat /\ step[r] < Steps(x)
  BY <1>1, <1>2, Here
<1>4. /\ x.op = "p_send" /\ x.dynamic \in BOOLEAN /\ x.shape \in Seq(Nat)
      /\ Steps(x) = (IF x.dynamic THEN 3 ELSE 1)
  BY <1>1, <1>2, <1>3, PointSizes
<1>5. PICK k \in {0, 1} : /\ step[r] = k /\ x.dynamic /\ Goto(r, k + 1)
                          /\ \E data : /\ data = ShapeInfo(x, k)
                                       /\ Post(r, <<Send(x.peer, data, TRUE)>>)
  <2>1. CASE SendShapeSize(r)
    <3>1. step[r] = 0 /\ x.dynamic /\ Goto(r, 0 + 1) /\ Post(r, <<Send(x.peer, <<<<Len(x.shape)>>>>, TRUE)>>)
      BY <1>2, <2>1 DEF SendShapeSize, At
    <3>2. <<<<Len(x.shape)>>>> = ShapeInfo(x, 0)
      BY DEF ShapeInfo
    <3> QED BY <3>1, <3>2
  <2>2. CASE SendShape(r)
    <3>1. step[r] = 1 /\ Goto(r, 1 + 1)
          /\ Post(r, <<Send(x.peer, [d \in DOMAIN x.shape |-> <<x.shape[d]>>], TRUE)>>)
      BY <1>2, <2>2 DEF SendShape, At
    <3>2. [d \in DOMAIN x.shape |-> <<x.shape[d]>>] = ShapeInfo(x, 1)
      BY DEF ShapeInfo
    <3>3. x.dynamic
      BY <1>3, <1>4, <3>1
    <3> QED BY <3>1, <3>2, <3>3
  <2> QED BY <2>1, <2>2
<1>6. PICK data : data = ShapeInfo(x, k) /\ Post(r, <<Send(x.peer, data, TRUE)>>)
  BY <1>5
<1>7. ASSUME NEW a, NEW b PROVE Sizes(Call(r), a, b, k) = {Len(data)}
  <2>1. x.op \in {"p_send", "p_recv"}
    BY <1>4
  <2>2. x.dynamic \in BOOLEAN /\ x.shape \in Seq(Nat) /\ k \in {0, 1}
    BY <1>4, <1>5
  <2>3. /\ x.dynamic => Sizes(x, a, b, k) = {Len(ShapeInfo(x, k))}
        /\ ~x.dynamic => Sizes(x, a, b, k) = {}
    BY ONLY <2>1, <2>2, SizesOfShape
  <2> QED BY <1>2, <1>5, <1>6, <2>3
<1> DEFINE leaving == {j \in Nat : /\ Posted(r) <= j
                                   /\ j < (IF Call(r).op = "c_scatter" THEN 2 * (k + 1) ELSE k + 1)}
<1>8. PICK n \in Nat : n = k + 1
  BY <1>5
<1>9. Goto(r, n) /\ step[r] <= n /\ n # 0 /\ n < Steps(Call(r))
      /\ leaving = {j \in Nat : /\ Posted(r) <= j
                                /\ j < (IF Call(r).op = "c_scatter" THEN 2 * n ELSE n)}
  BY <1>2, <1>4, <1>5, <1>8
<1>10. Posted(r) = k
  BY <1>1, <1>5 DEF Posted
<1>11. \A j : j \in leaving <=> j = k
  BY <1>1, <1>10
<1> HIDE DEF leaving
<1>12. Goes(r, leaving)
  BY <1>9 DEF Goes
<1>13. Call(r).op \in {"p_send", "p_send_array"} /\ Post(r, <<Send(Call(r).peer, data, TRUE)>>)
       /\ data = ShapeInfo(Call(r), k) /\ k \in leaving
  BY <1>1, <1>2, <1>6, <1>11
<1>14. \A j \in leaving : \A a, b : Sizes(Call(r), a, b, j) # {} => j = k
  BY <1>11
<1> QED BY ONLY CountsInv(labels), r \in Rank, <1>1, <1>7, <1>12, <1>13, <1>14, SendStep

\* p_send keeps the invariant.
LEMMA PSendInv ==
  ASSUME NEW labels, CountsInv(labels), NEW r \in Rank, PSend(r)
  PROVE  \E labels2 : CountsInv(labels2)'
<1>1. PICK x : x = Call(r)
  OBVIOUS
<1>2. PICK n : n = Product(x.shape)
  OBVIOUS
<1>3. PICK data : data = Part(r, 0, n)
  OBVIOUS
<1>4. /\ ~Finished(r) /\ x.op = "p_send" /\ received' = received /\ Return(r)
      /\ step[r] = (IF x.dynamic THEN 2 ELSE 0)
      /\ Post(r, <<Send(Call(r).peer, data, FALSE)>>)
  BY <1>1, <1>2, <1>3 DEF PSend
<1>5. WellFormed(x)
  BY <1>1, <1>4, Here
<1>6. /\ n \in Nat /\ x.dynamic \in BOOLEAN
      /\ \A a, b : Sizes(x, a, b, 2) = {n}
      /\ \A a, b : \A k \in Nat : Sizes(x, a, b, k) # {} => k = 2 \/ (x.dynamic /\ k \in {0, 1})
  BY <1>2, <1>4, <1>5, PointSizes
<1>7. Len(data) = n
  BY <1>3, <1>6, PartSized
<1> DEFINE leaving == {k \in Nat : k >= Posted(r)}
<1>8. Posted(r) = step[r]
  BY <1>1, <1>4 DEF Posted
<1>9. 2 \in leaving /\ \A k \in leaving : k \in Nat /\ (x.dynamic => k >= 2)
  BY <1>4, <1>6, <1>8
<1>10. Goes(r, leaving)
  BY <1>4 DEF Goes
<1> HIDE DEF leaving
<1>11. \A j \in leaving : \A a, b : Sizes(Call(r), a, b, j) # {} => j = 2
  <2> SUFFICES ASSUME NEW j \in leaving, NEW a, NEW b, Sizes(x, a, b, j) # {} PROVE j = 2
    BY <1>1
  <2>1. j \in Nat /\ (x.dynamic => j >= 2)
    BY <1>9
  <2>2. j = 2 \/ (x.dynamic /\ j \in {0, 1})
    BY <1>4, <1>5, <2>1, PointSizes
  <2> QED BY <2>1, <2>2
<1>12. Call(r).op \in {"p_send", "p_send_array"} /\ ~(2 < 2)
       /\ \A a, b : Sizes(Call(r), a, b, 2) = {Len(data)}
  BY <1>1, <1>4, <1>6, <1>7
<1> QED BY <1>4, <1>9, <1>10, <1>11, <1>12, SendStep
-----------------------------------------------------------------------------
\* p_send_array keeps the invariant, in every round of its loop over the tensors.
LEMMA PSendArrayInv ==
  ASSUME NEW labels, CountsInv(labels), NEW r \in Rank, NEW i \in 0..step[r], PSendArray(r, i)
  PROVE  \E labels2 : CountsInv(labels2)'
<1>1. PICK x : x = Call(r)
  OBVIOUS
<1>2. /\ ~Finished(r) /\ x.op = "p_send_array" /\ step[r] = i /\ received' = received
      /\ Post(r, <<Send(x.peer, Part(r, Sum(x.numels, i), x.numels[i]), FALSE)>>)
      /\ IF i + 1 < x.tensors THEN Goto(r, i + 1) ELSE Return(r)
  BY <1>1 DEF PSendArray, At
<1>3. /\ WellFormed(x) /\ step[r] \in Nat /\ step[r] < Steps(x)
  BY <1>1, <1>2, Here
<1>4. /\ x.tensors \in Nat \ {0} /\ x.numels \in [0..(x.tensors - 1) -> Nat] /\ Steps(x) = x.tensors
      /\ \A a, b, k : Sizes(x, a, b, k) = IF k < x.tensors THEN {x.numels[k]} ELSE {}
  BY <1>2, <1>3, PointSizes
<1>5. PICK n \in Nat : n = x.tensors
  BY <1>4
<1>6. i \in Nat /\ i < n /\ x.numels[i] \in Nat
  BY <1>2, <1>3, <1>4, <1>5
<1>7. PICK data : data = Part(r, Sum(x.numels, i), x.numels[i])
  OBVIOUS
<1>8. Len(data) = x.numels[i]
  BY <1>6, <1>7, PartSized
<1>9. PICK leaving : Goes(r, leaving) /\ i \in leaving
                     /\ \A k \in leaving : k \in Nat /\ (k < n => k = i)
  <2>1. IF i + 1 < n THEN Goto(r, i + 1) ELSE Return(r)
    BY <1>2, <1>5
  <2>2. Steps(Call(r)) = n /\ Call(r).op # "c_scatter"
    BY <1>1, <1>2, <1>4, <1>5
  <2> QED BY <1>2, <1>6, <2>1, <2>2, NextOrReturn
<1>10. \A a, b : Sizes(Call(r), a, b, i) = {Len(data)}
  BY <1>1, <1>4, <1>5, <1>6, <1>8
<1>11. \A j \in leaving : \A a, b : Sizes(Call(r), a, b, j) # {} => j = i
  BY <1>1, <1>4, <1>5, <1>9
<1>12. /\ Call(r).op \in {"p_send", "p_send_array"} /\ Call(r).op # "p_send"
       /\ Post(r, <<Send(Call(r).peer, data, FALSE)>>)
  BY <1>1, <1>2, <1>7
<1>13. ~Finished(r) /\ received' = received /\ (Call(r).op = "p_send" /\ i < 2 => data = ShapeInfo(Call(r), i))
  BY <1>2, <1>12
<1>14. Goes(r, leaving) /\ i \in leaving
  BY <1>9
<1> QED BY ONLY CountsInv(labels), r \in Rank, <1>10, <1>11, <1>12, <1>13, <1>14, SendStep

\* p_recv_array keeps the invariant, in every round of its loop over the tensors.
LEMMA PRecvArrayInv ==
  ASSUME NEW labels, CountsInv(labels), NEW r \in Rank, NEW i \in 0..step[r], PRecvArray(r, i)
  PROVE  \E labels2 : CountsInv(labels2)'
<1>1. PICK x : x = Call(r)
  OBVIOUS
<1>2. /\ ~Finished(r) /\ x.op = "p_recv_array" /\ step[r] = i
      /\ Post(r, <<Recv(x.peer, call[r], Sum(x.numels, i), x.numels[i], FALSE)>>)
      /\ IF i = 0 THEN Alloc(r, call[r], Sum(x.numels, x.tensors)) ELSE received' = received
      /\ IF i + 1 < x.tensors THEN Goto(r, i + 1) ELSE Return(r)
  BY <1>1 DEF PRecvArray, At
<1>3. /\ WellFormed(x) /\ step[r] \in Nat /\ step[r] < Steps(x)
  BY <1>1, <1>2, Here
<1>4. /\ x.tensors \in Nat \ {0} /\ x.numels \in [0..(x.tensors - 1) -> Nat] /\ Steps(x) = x.tensors
      /\ \A a, b, k : Sizes(x, a, b, k) = IF k < x.tensors THEN {x.numels[k]} ELSE {}
  BY <1>2, <1>3, PointSizes
<1>5. PICK n \in Nat : n = x.tensors
  BY <1>4
<1>6. i \in Nat /\ i < n
  BY <1>2, <1>3, <1>4, <1>5
<1>7. PICK count \in Nat : count = x.numels[i]
  BY <1>4, <1>5, <1>6
<1>8. Sum(x.numels, i) \in Nat /\ Sum(x.numels, i) + count <= Sum(x.numels, n) /\ Sum(x.numels, n) \in Nat
  <2>1. (\A k \in 0..(n - 1) : x.numels[k] \in Nat) /\ i \in 0..(n - 1)
    BY <1>4, <1>5, <1>6
  <2>2. Sum(x.numels, i) \in Nat /\ Sum(x.numels, i) + x.numels[i] <= Sum(x.numels, n)
    BY <2>1, PartWithinSum
  <2>3. \A k \in 0..n : Sum(x.numels, k) \in Nat
    BY <2>1, SumSteps
  <2> QED BY <1>7, <2>2, <2>3
<1>9. PICK at \in Nat : at = Sum(x.numels, i)
  BY <1>8
<1>10. PICK total \in Nat : total = Sum(x.numels, n)
  BY <1>8
<1>11. OutSize(Call(r), r) = total
  BY <1>1, <1>2, <1>5, <1>10 DEF OutSize
<1>12. PICK leaving : Goes(r, leaving) /\ i \in leaving
                      /\ \A k \in leaving : k \in Nat /\ (k < n => k = i)
  <2>1. IF i + 1 < n THEN Goto(r, i + 1) ELSE Return(r)
    BY <1>2, <1>5
  <2>2. Steps(Call(r)) = n /\ Call(r).op # "c_scatter"
    BY <1>1, <1>2, <1>4, <1>5
  <2> QED BY <1>2, <1>6, <2>1, <2>2, NextOrReturn
<1>13. Receives(r, call[r]) /\ OwnBuffer(r)
  <2>1. IF i = 0 THEN Alloc(r, call[r], total) ELSE received' = received
    BY <1>2, <1>5, <1>10
  <2>2. IsReceiving(Call(r)) /\ Call(r).op # "p_recv" /\ Call(r).op \notin CrossEntropies
    BY <1>1, <1>2 DEF IsReceiving, CrossEntropies
  <2> QED BY <1>2, <1>6, <1>11, <2>1, <2>2, FirstAllocs
<1>14. \A a, b : Sizes(Call(r), a, b, i) = {count}
  BY <1>1, <1>4, <1>5, <1>6, <1>7
<1>15. \A j \in leaving : \A a, b : Sizes(Call(r), a, b, j) # {} => j = i
  BY <1>1, <1>4, <1>5, <1>12
<1>16. /\ Call(r).op \in {"p_recv", "p_recv_array"} /\ Call(r).op # "p_recv"
       /\ Post(r, <<Recv(Call(r).peer, call[r], at, count, FALSE)>>)
       /\ ~ToBuffer0(Call(r), i)
  BY <1>1, <1>2, <1>7, <1>9 DEF ToBuffer0
<1>17. at + count <= OutSize(Call(r), r)
  BY <1>8, <1>9, <1>10, <1>11
<1> QED BY ONLY CountsInv(labels), r \in Rank, at \in Nat, count \in Nat,
             <1>2, <1>12, <1>13, <1>14, <1>15, <1>16, <1>17, RecvStep

\* Once the stream is done, what came is the shape.
LEMMA ShapeCame ==
  ASSUME NEW labels, CountsInv(labels), NEW r \in Rank, ~Finished(r), Call(r).op = "p_recv",
         step[r] > 0, Drained(r)
  PROVE  received[r][0] = ShapeInfo(Call(r), step[r] - 1)
<1>1. Shapes(r, labels[r])
  BY InvParts DEF OfRank
<1>2. stream[r] = <<>>
  BY DEF Drained
<1>3. ~\E i \in 1..Len(stream[r]) : \E e \in stream[r][i] : e.op.kind = "recv" /\ e.op.buffer = 0
  <2>1. Len(stream[r]) = 0
    BY <1>2
  <2> QED BY <2>1
<1> QED BY <1>1, <1>3 DEF Shapes

\* p_recv keeps the invariant.
LEMMA PRecvInv ==
  ASSUME NEW labels, CountsInv(labels), NEW r \in Rank, PRecv(r)
  PROVE  \E labels2 : CountsInv(labels2)'
<1>1. PICK x : x = Call(r)
  OBVIOUS
<1>2. /\ ~Finished(r) /\ x.op = "p_recv" /\ Return(r)
      /\ step[r] = (IF x.dynamic THEN 2 ELSE 0) /\ (x.dynamic => Drained(r))
  BY <1>1 DEF PRecv
<1>3. WellFormed(x)
  BY <1>1, <1>2, Here
<1>4. /\ x.dynamic \in BOOLEAN /\ x.shape \in Seq(Nat) /\ Product(x.shape) \in Nat
      /\ \A a, b : Sizes(x, a, b, 2) = {Product(x.shape)}
      /\ \A a, b : \A k \in Nat : Sizes(x, a, b, k) # {} => k = 2 \/ (x.dynamic /\ k \in {0, 1})
  BY <1>2, <1>3, PointSizes
<1>5. PICK n \in Nat : n = Product(x.shape)
  BY <1>4
<1> DEFINE shape == IF x.dynamic THEN [d \in DOMAIN received[r][0] |-> received[r][0][d][1]]
                    ELSE x.shape
<1>6. Alloc(r, call[r], Product(shape)) /\ Post(r, <<Recv(x.peer, call[r], 0, Product(shape), FALSE)>>)
  BY <1>1 DEF PRecv
<1>7. shape = x.shape
  <2>1. CASE x.dynamic
    <3>1. received[r][0] = ShapeInfo(x, 1)
      BY <1>1, <1>2, <2>1, ShapeCame
    <3>2. PICK f : f = ShapeInfo(x, 1)
      OBVIOUS
    <3>3. f = [d \in DOMAIN x.shape |-> <<x.shape[d]>>]
      BY <3>2 DEF ShapeInfo
    <3>4. [d \in DOMAIN f |-> f[d][1]] = [d \in DOMAIN x.shape |-> x.shape[d]]
      BY <3>3
    <3>5. x.shape = [d \in DOMAIN x.shape |-> x.shape[d]]
      BY <1>4
    <3> QED BY <2>1, <3>1, <3>2, <3>4, <3>5
  <2> QED BY <2>1
<1> HIDE DEF shape
<1>8. Alloc(r, call[r], n) /\ Post(r, <<Recv(x.peer, call[r], 0, n, FALSE)>>)
  BY <1>5, <1>6, <1>7
<1> DEFINE leaving == {k \in Nat : k >= Posted(r)}
<1>9. Posted(r) = step[r]
  BY <1>1, <1>2 DEF Posted
<1>10. 2 \in leaving /\ \A k \in leaving : k \in Nat /\ (x.dynamic => k >= 2)
  BY <1>2, <1>4, <1>9
<1>11. Goes(r, leaving)
  BY <1>2 DEF Goes
<1> HIDE DEF leaving
<1>12. \A j \in leaving : \A a, b : Sizes(Call(r), a, b, j) # {} => j = 2
  <2> SUFFICES ASSUME NEW j \in leaving, NEW a, NEW b, Sizes(x, a, b, j) # {} PROVE j = 2
    BY <1>1
  <2>1. j \in Nat /\ (x.dynamic => j >= 2)
    BY <1>10
  <2>2. j = 2 \/ (x.dynamic /\ j \in {0, 1})
    BY <1>4, <2>1
  <2> QED BY <2>1, <2>2
<1>13. OutSize(Call(r), r) = n
  BY <1>1, <1>2, <1>5 DEF OutSize
<1>14. Receives(r, call[r]) /\ OwnBuffer(r)
  <2>1. Receives(r, call[r])
    BY <1>2, <1>8, AllocReceives
  <2>2. call[r] \in 0..Len(program[r])
    BY <1>2, Here
  <2>3. Sized(received'[r][call[r]], n)
    BY <1>8, <2>2, AllocSized
  <2> QED BY <1>1, <1>2, <1>13, <2>1, <2>3 DEF OwnBuffer, CrossEntropies
<1>15. /\ Call(r).op \in {"p_recv", "p_recv_array"} /\ ~ToBuffer0(Call(r), 2)
       /\ Post(r, <<Recv(Call(r).peer, call[r], 0, n, FALSE)>>)
       /\ \A a, b : Sizes(Call(r), a, b, 2) = {n}
       /\ 2 \notin {0, 1} /\ (step[r] = 0 \/ Drained(r)) /\ 0 + n <= OutSize(Call(r), r) /\ 0 \in Nat
  BY <1>1, <1>2, <1>4, <1>5, <1>8, <1>13 DEF ToBuffer0
<1> QED BY ONLY CountsInv(labels), r \in Rank, n \in Nat, <1>2, <1>10, <1>11, <1>12, <1>14, <1>15, RecvStep
-----------------------------------------------------------------------------
\* A step that receives a shape, or its size, into buffer 0.
LEMMA RecvShapeStep ==
  ASSUME NEW labels, CountsInv(labels), NEW r \in Rank, ~Finished(r), Call(r).op = "p_recv",
         Call(r).dynamic, NEW k \in {0, 1}, step[r] = k, k = 1 => Drained(r),
         NEW n \in Nat, n = Len(ShapeInfo(Call(r), k)), NEW temp,
         Alloc(r, 0, n), Post(r, <<Recv(Call(r).peer, 0, 0, n, temp)>>), Goto(r, k + 1)
  PROVE  \E labels2 : CountsInv(labels2)'
<1>1. PICK x : x = Call(r)
  OBVIOUS
<1>2. /\ OfRank(labels, r) /\ Framework /\ DOMAIN call = Rank /\ DOMAIN step = Rank /\ DOMAIN stream = Rank
      /\ stream = [q \in Rank |-> stream[q]]
  BY InvParts
<1>3. /\ WellFormed(x) /\ IsSeq(stream[r]) /\ call[r] \in Nat /\ call[r] \in DOMAIN program[r]
      /\ 0 \in 0..Len(program[r]) /\ x = program[r][call[r]]
  BY <1>1, Here
<1>4. /\ x.op = "p_recv" /\ x.peer \in Rank /\ x.dynamic \in BOOLEAN /\ x.shape \in Seq(Nat)
      /\ Steps(x) = (IF x.dynamic THEN 3 ELSE 1) /\ x.dynamic
  BY <1>1, <1>3, PointSizes
<1>5. ASSUME NEW a, NEW b PROVE Sizes(Call(r), a, b, k) = {n}
  <2>1. x.op \in {"p_send", "p_recv"}
    BY <1>4
  <2>2. x.dynamic \in BOOLEAN /\ x.shape \in Seq(Nat) /\ k \in {0, 1}
    BY <1>4
  <2>3. /\ x.dynamic => Sizes(x, a, b, k) = {Len(ShapeInfo(x, k))}
        /\ ~x.dynamic => Sizes(x, a, b, k) = {}
    BY ONLY <2>1, <2>2, SizesOfShape
  <2> QED BY <1>1, <1>4, <2>3
<1> DEFINE leaving == {j \in Nat : /\ Posted(r) <= j
                                   /\ j < (IF Call(r).op = "c_scatter" THEN 2 * (k + 1) ELSE k + 1)}
<1>6. PICK m \in Nat : m = k + 1
  OBVIOUS
<1>7. Goto(r, m) /\ step[r] <= m /\ m # 0 /\ m < Steps(Call(r))
      /\ leaving = {j \in Nat : /\ Posted(r) <= j
                                /\ j < (IF Call(r).op = "c_scatter" THEN 2 * m ELSE m)}
  BY <1>1, <1>4, <1>6
<1>8. Posted(r) = k
  BY DEF Posted
<1>9. \A j : j \in leaving <=> j = k
  BY <1>8
<1> HIDE DEF leaving
<1>10. PICK left : /\ Goes(r, left) /\ left \subseteq Nat /\ k \in left
                   /\ \A j \in left : j = k
  BY <1>7, <1>9 DEF Goes
<1> DEFINE op == Recv(Call(r).peer, 0, 0, n, temp)
<1>11. /\ op.kind = "recv" /\ op.peer = Call(r).peer /\ op.buffer = 0 /\ op.at = 0 /\ op.count = n
       /\ Post(r, <<op>>)
  BY DEF Recv
<1> HIDE DEF op
<1>12. Channel(op) = <<op.kind, Call(r).peer>> /\ Fits(r, call[r], k, op)
  <2>1. ReceivesFrom(Call(r), op.peer) /\ op.peer \in Rank
    BY <1>1, <1>4, <1>11 DEF ReceivesFrom
  <2>2. Sizes(Call(r), op.peer, r, k) = {op.count}
    BY <1>5, <1>11
  <2>3. ToBuffer0(Call(r), k)
    BY DEF ToBuffer0
  <2>4. op.at \in Nat /\ op.count \in Nat /\ op.kind = "recv" /\ op.buffer = 0 /\ op.at = 0
    BY <1>11
  <2>5. Channel(op) = <<"recv", op.peer>> /\ Fits(r, call[r], k, op)
    BY ONLY CountsInv(labels), r \in Rank, ~Finished(r), <2>1, <2>2, <2>3, <2>4, RecvFits
  <2> QED BY <1>11, <2>5
<1> DEFINE ops == <<op>>
<1>13. ops # <<>> /\ DOMAIN ops = {1} /\ ops[1] = op
  OBVIOUS
<1>14. Suits(r, k, ops) /\ Covers(r, left, k, ops)
  <2>1. \A j \in left : \A a, b : Sizes(Call(r), a, b, j) # {} => j = k
    BY <1>10

  <2>2. PICK g \in left : g = k
    BY <1>10
  <2>3. PICK o : o = op
    OBVIOUS
  <2>4. /\ o.kind = "recv" /\ Call(r).op \in {"p_recv", "p_recv_array"}
        /\ Channel(o) = <<o.kind, Call(r).peer>> /\ Fits(r, call[r], g, o)
    BY <1>11, <1>12, <2>2, <2>3
  <2>5. \A j \in left : \A a, b : Sizes(Call(r), a, b, j) # {} => j = g
    BY <2>1, <2>2
  <2>6. Suits(r, g, <<o>>) /\ Covers(r, left, g, <<o>>)
    BY ONLY CountsInv(labels), r \in Rank, ~Finished(r), g \in left, <2>4, <2>5, PointSuits
  <2> QED BY <2>6, <2>2, <2>3 DEF ops
<1> HIDE DEF ops
<1> DEFINE t == GroupsOf(ops)
           tl == LabelsOf(r, ops, k)
<1>15. /\ Launched(r, ops) = stream[r] \o t
       /\ Launches(r, left, t, tl)
       /\ \A buffers : Reductions(r, t, tl, buffers)
       /\ Leads(r, t, tl)
  BY <1>3, <1>10, <1>14, GroupLaunched
<1>16. t = <<GroupOf(ops)>> /\ tl = <<<<call[r], k>>>>
  BY <1>13 DEF GroupsOf, LabelsOf
<1>17. \A e : e \in GroupOf(ops) <=> e = [n |-> 1, op |-> op]
  BY <1>13 DEF GroupOf
<1> HIDE DEF t, tl
<1>18. /\ stream' = [stream EXCEPT ![r] = stream[r] \o t] /\ stream'[r] = stream[r] \o t
  <2>1. Post(r, ops)
    BY <1>11 DEF ops
  <2> QED BY <1>2, <1>15, <2>1 DEF Post
<1>19. Receives(r, 0) /\ 0 \in {0, call[r]}
  BY <1>3 DEF Alloc, Receives
<1>20. /\ program' = program /\ call' = call /\ step'[r] = m
  BY <1>2, <1>7 DEF Goto
<1>21. OwnBuffer(r)
  <2>1. ~Return(r)
    BY <1>2, <1>3, <1>20 DEF Return
  <2> QED BY <2>1 DEF OwnBuffer, CrossEntropies
<1>22. Sized(received'[r][0], n)
  BY <1>3, AllocSized
<1>23. ASSUME NEW l, l = labels[r] \o tl PROVE Shapes(r, l)'
  <2>1. NoShape(stream[r])
    <3>1. step[r] = 0 \/ Drained(r)
      OBVIOUS
    <3> QED BY <1>2, <3>1, NoShapeBefore
  <2>2. /\ Len(stream[r]) \in Nat /\ Len(labels[r]) = Len(stream[r]) /\ IsSeq(labels[r])
        /\ Len(t) = 1 /\ t[1] = GroupOf(ops) /\ IsSeq(t)
        /\ Len(tl) = 1 /\ tl[1] = <<call[r], k>> /\ IsSeq(tl)
    <3>1. IsSeq(stream[r]) /\ labels[r] \in Seq(Nat \X Nat) /\ Len(labels[r]) = Len(stream[r])
      BY <1>2 DEF OfRank, Labelled
    <3>2. Len(stream[r]) \in Nat /\ IsSeq(labels[r])
      BY <3>1, SeqOfSet, LenProperties
    <3>3. PICK g : g = GroupOf(ops)
      OBVIOUS
    <3>4. PICK a : a = <<call[r], k>>
      OBVIOUS
    <3> QED BY <1>16, <3>1, <3>2, <3>3, <3>4, OneIsSeq
  <2>3. /\ Len(stream[r] \o t) = Len(stream[r]) + 1
        /\ \A i \in 1..Len(stream[r]) : (stream[r] \o t)[i] = stream[r][i]
        /\ (stream[r] \o t)[Len(stream[r]) + 1] = t[1]
    <3>1. IsSeq(stream[r]) /\ IsSeq(t) /\ 1 \in 1..Len(t)
      BY <1>3, <2>2
    <3>2. /\ Len(stream[r] \o t) = Len(stream[r]) + Len(t)
          /\ \A i \in 1..Len(stream[r]) : (stream[r] \o t)[i] = stream[r][i]
          /\ \A i \in 1..Len(t) : (stream[r] \o t)[Len(stream[r]) + i] = t[i]
      BY ONLY <3>1, JoinedAt
    <3> QED BY <2>2, <3>1, <3>2
  <2>4. l[Len(stream[r]) + 1] = <<call[r], k>>
    <3>1. IsSeq(labels[r]) /\ IsSeq(tl) /\ 1 \in 1..Len(tl)
      BY <2>2
    <3>2. \A i \in 1..Len(tl) : (labels[r] \o tl)[Len(labels[r]) + i] = tl[i]
      BY ONLY <3>1, JoinedAt
    <3>3. (labels[r] \o tl)[Len(labels[r]) + 1] = tl[1]
      BY <3>1, <3>2
    <3> QED BY <1>23, <2>2, <3>3
  <2>5. PICK last \in Nat : last = Len(stream[r]) + 1
    BY <2>2
  <2>6. /\ 1..Len(stream'[r]) = 1..last /\ last \in 1..last
        /\ stream'[r][last] = GroupOf(ops) /\ l[last] = <<call[r], k>>
        /\ \A i \in 1..last : i # last => \A e \in stream'[r][i] : ~(e.op.kind = "recv" /\ e.op.buffer = 0)
    <3>1. ASSUME NEW i \in 1..last, i # last
          PROVE  \A e \in stream'[r][i] : ~(e.op.kind = "recv" /\ e.op.buffer = 0)
      <4>1. i \in 1..Len(stream[r])
        BY <2>2, <2>5, <3>1
      <4>2. stream'[r][i] = stream[r][i]
        BY <1>18, <2>3, <4>1
      <4> QED BY <2>1, <4>1, <4>2 DEF NoShape
    <3> QED BY <1>18, <2>2, <2>3, <2>4, <2>5, <3>1
  <2>7. /\ Call(r)' = Call(r) /\ ~Finished(r)' /\ step'[r] = k + 1 /\ step'[r] > 0 /\ step'[r] - 1 = k
    BY <1>6, <1>20 DEF Call, Finished
  <2>8. ASSUME NEW i \in 1..last, NEW e \in stream'[r][i], e.op.kind = "recv", e.op.buffer = 0
        PROVE  l[i] = <<call'[r], step'[r] - 1>>
    BY <1>20, <2>6, <2>7, <2>8
  <2>9. ShapeInfo(Call(r), step[r] - 1)' = ShapeInfo(Call(r), k)
    BY <2>7 DEF ShapeInfo
  <2>10. Sized(received[r][0], Len(ShapeInfo(Call(r), step[r] - 1)))'
    BY <1>22, <2>9 DEF Sized
  <2>11. \E i \in 1..last : \E e \in stream'[r][i] : e.op.kind = "recv" /\ e.op.buffer = 0
    <3>1. [n |-> 1, op |-> op] \in GroupOf(ops) /\ [n |-> 1, op |-> op].op = op
      BY <1>17
    <3> QED BY <1>11, <2>6, <3>1
  <2> QED BY <2>6, <2>7, <2>8, <2>10, <2>11 DEF Shapes
<1>24. \A l : l = labels[r] \o tl => Shapes(r, l)'
  BY <1>23
<1>25. Call(r).op # "class_center_sample" /\ Reductions(r, t, tl, received'[r])
  BY <1>15
<1> QED BY ONLY CountsInv(labels), r \in Rank, ~Finished(r), <1>10, <1>15, <1>18, <1>19, <1>21, <1>24, <1>25,
             KernelStep

\* recv_shape_info keeps the invariant: the shape that it waits for is that of the sender.
LEMMA RecvShapeInv ==
  ASSUME NEW labels, CountsInv(labels), NEW r \in Rank, RecvShapeSize(r) \/ RecvShape(r)
  PROVE  \E labels2 : CountsInv(labels2)'
<1>1. PICK x : x = Call(r)
  OBVIOUS
<1>2. ~Finished(r) /\ x.op = "p_recv"
  BY <1>1 DEF RecvShapeSize, RecvShape, At
<1>3. WellFormed(x) /\ step[r] < Steps(x)
  BY <1>1, <1>2, Here
<1>4. /\ x.dynamic \in BOOLEAN /\ x.shape \in Seq(Nat)
      /\ Steps(x) = (IF x.dynamic THEN 3 ELSE 1)
  BY <1>2, <1>3, PointSizes
<1>5. /\ Len(ShapeInfo(x, 0)) = 1 /\ ShapeInfo(x, 0)[1][1] = Len(x.shape)
      /\ Len(ShapeInfo(x, 1)) = Len(x.shape) /\ Len(x.shape) \in Nat
  <2>1. Len(x.shape) \in Nat
    BY <1>4, LenProperties
  <2>2. x.op \in {"p_send", "p_recv"} /\ 0 \in {0, 1}
    BY <1>2
  <2> QED BY ONLY <1>4, <2>1, <2>2, SizesOfShape
<1>6. CASE RecvShapeSize(r)
  <2>1. /\ step[r] = 0 /\ x.dynamic /\ Alloc(r, 0, 1) /\ Goto(r, 0 + 1)
        /\ Post(r, <<Recv(x.peer, 0, 0, 1, TRUE)>>)
    BY <1>1, <1>6 DEF RecvShapeSize, At
  <2>2. 0 \in {0, 1} /\ 1 \in Nat /\ ~(0 = 1)
    OBVIOUS
  <2> QED BY <1>1, <1>2, <1>5, <2>1, <2>2, RecvShapeStep
<1>7. CASE RecvShape(r)
  <2>1. PICK n : n = received[r][0][1][1]
    OBVIOUS
  <2>2. /\ step[r] = 1 /\ Drained(r) /\ Alloc(r, 0, n) /\ Goto(r, 1 + 1)
        /\ Post(r, <<Recv(x.peer, 0, 0, n, TRUE)>>)
    BY <1>1, <1>7, <2>1 DEF RecvShape, At
  <2>3. received[r][0] = ShapeInfo(x, 0)
    <3>1. received[r][0] = ShapeInfo(x, step[r] - 1)
      BY <1>1, <1>2, <2>2, ShapeCame
    <3>2. step[r] - 1 = 0
      BY <2>2
    <3> QED BY <3>1, <3>2
  <2>4. n \in Nat /\ n = Len(ShapeInfo(x, 1))
    BY <1>5, <2>1, <2>3
  <2>5. x.dynamic
    BY <1>3, <1>4, <2>2
  <2>6. 1 \in {0, 1}
    OBVIOUS
  <2> QED BY <1>1, <1>2, <2>2, <2>4, <2>5, <2>6, RecvShapeStep
<1> QED BY <1>6, <1>7
-----------------------------------------------------------------------------
\* The theorems.

\* Every step of a kernel keeps the invariant.
LEMMA HostInv ==
  ASSUME NEW labels, CountsInv(labels), NEW r \in Rank, Host(r)
  PROVE  \E labels2 : CountsInv(labels2)'
<1>1. CASE \E i \in 0..step[r] : GlobalScatter(r, i)
  BY <1>1, GlobalScatterInv
<1>2. CASE \E i \in 0..step[r] : PSendArray(r, i)
  BY <1>2, PSendArrayInv
<1>3. CASE \E i \in 0..step[r] : PRecvArray(r, i)
  BY <1>3, PRecvArrayInv
<1>4. CASE AllToAll(r)
  BY <1>4, AllToAllInv
<1>5. CASE McclAll2All(r)
  BY <1>5, McclAll2AllInv
<1>6. CASE PartialAllGather(r)
  BY <1>6, PartialAllGatherInv
<1>7. CASE CConcat(r)
  BY <1>7, CConcatInv
<1>8. CASE CScatter(r)
  BY <1>8, CScatterInv
<1>9. CASE CScatterCopied(r)
  BY <1>9, CScatterCopiedInv
<1>10. CASE SendShapeSize(r) \/ SendShape(r)
  BY <1>10, SendShapeInv
<1>11. CASE PSend(r)
  BY <1>11, PSendInv
<1>12. CASE \/ AllGatherKernel(r) \/ AllReduceKernel(r) \/ MpAllReduceSumKernel(r)
            \/ ReduceScatterKernel(r) \/ BroadcastKernel(r)
  BY <1>12, WholeKernelsInv
<1>13. CASE CSoftmax(r)
  BY <1>13, CSoftmaxInv
<1>14. CASE ClassCenterSampleDims(r)
  BY <1>14, ClassCenterSampleDimsInv
<1>15. CASE ClassCenterSampleKernel(r)
  BY <1>15, ClassCenterSampleKernelInv
<1>16. CASE RecvShapeSize(r) \/ RecvShape(r)
  BY <1>16, RecvShapeInv
<1>17. CASE PRecv(r)
  BY <1>17, PRecvInv
<1> QED BY <1>1, <1>2, <1>3, <1>4, <1>5, <1>6, <1>7, <1>8, <1>9, <1>10, <1>11, <1>12, <1>13,
           <1>14, <1>15, <1>16, <1>17 DEF Host

\* At first everything is ahead, on both ends of a channel.
LEMMA CountsInit ==
  ASSUME Init PROVE \E labels : CountsInv(labels)
<1>1. PICK labels : labels = [r \in Rank |-> <<>>]
  OBVIOUS
<1>2. /\ program \in Programs /\ Framework
      /\ DOMAIN stream = Rank /\ DOMAIN received = Rank /\ DOMAIN call = Rank /\ DOMAIN step = Rank
      /\ stream = [r \in Rank |-> stream[r]] /\ received = [r \in Rank |-> received[r]]
      /\ \A r \in Rank : stream[r] = <<>> /\ call[r] = 1 /\ step[r] = 0 /\ labels[r] = <<>>
  BY <1>1, FrameworkKept DEF Init
<1>3. ASSUME NEW r \in Rank PROVE OfRank(labels, r)
  <2>1. received[r] = [b \in 0..Len(program[r]) |-> <<>>]
    BY DEF Init
  <2>2. received[r] = [b \in 0..Len(program[r]) |-> received[r][b]]
    BY <2>1
  <2>3. Labelled(r, <<>>, <<>>) /\ Len(<<>>) = 0
    BY EmptyLabelled
  <2>4. Len(program[r]) \in Nat /\ DOMAIN program[r] = 1..Len(program[r])
        /\ \A c \in DOMAIN program[r] : WellFormed(program[r][c])
    BY <1>2 DEF Framework
  <2>5. Reductions(r, <<>>, <<>>, received[r])
    BY <2>3 DEF Reductions
  <2>6. Buffers(r)
    BY <1>2, <2>4 DEF Buffers
  <2>7. Counters(r)
    <3>1. CASE Finished(r)
      <4>1. call[r] \in 1..(Len(program[r]) + 1) /\ step[r] = 0
        BY <1>2, <2>4
      <4> QED BY <3>1, <4>1 DEF Counters
    <3>2. CASE ~Finished(r)
      <4>1. call[r] \in DOMAIN program[r]
        BY <1>2, <2>4, <3>2 DEF Finished
      <4>2. PICK c : c = Call(r)
        OBVIOUS
      <4>3. WellFormed(c)
        BY <2>4, <4>1, <4>2 DEF Call
      <4>4. 0 < Steps(c)
        BY <4>3 DEF WellFormed, Steps, Wholes, CrossEntropies
      <4>5. call[r] \in 1..(Len(program[r]) + 1)
        BY <2>4, <4>1
      <4> QED BY <1>2, <3>2, <4>2, <4>4, <4>5 DEF Counters
    <3> QED BY <3>1, <3>2
  <2>8. Shapes(r, <<>>)
    BY <1>2, <2>3 DEF Shapes
  <2> QED BY <1>2, <2>2, <2>3, <2>5, <2>6, <2>7, <2>8 DEF OfRank
<1>4. ASSUME NEW r \in Rank, NEW channel, NEW c \in Concerned(r, channel), NEW k \in Nat
      PROVE  Left(labels, r, channel, c, k) <=> Messages(r, channel, c, k) # {}
  <2>1. c \in Nat \ {0}
    BY <1>2 DEF Framework
  <2>2. Posted(r) = 0
    BY <1>2 DEF Posted
  <2>3. Ahead(r, c, k)
    BY <1>2, <2>1, <2>2 DEF Ahead
  <2> QED BY <2>3 DEF Left
<1>5. ASSUME NEW r \in Rank, NEW s \in Rank, NEW channel1, NEW channel2, Ends(r, channel1, s, channel2)
      PROVE  Agree(labels, r, channel1, s, channel2)
  <2> SUFFICES ASSUME NEW m \in Pairings(program[r], program[s], Concerned(r, channel1),
                                         Concerned(s, channel2)),
                      NEW c \in Concerned(r, channel1), NEW k \in Nat
               PROVE  Left(labels, r, channel1, c, k) <=> Left(labels, s, channel2, m[c], k)
    BY DEF Agree
  <2>1. m[c] \in Concerned(s, channel2)
    BY DEF Pairings
  <2>2. Messages(r, channel1, c, k) = Messages(s, channel2, m[c], k)
    BY <1>5, SameMessages
  <2> QED BY <1>4, <2>1, <2>2
<1> QED BY <1>2, <1>3, <1>5, PartsInv

\* A step of nothing keeps it too.
LEMMA CountsStutter ==
  ASSUME NEW labels, CountsInv(labels), UNCHANGED vars
  PROVE  \E labels2 : CountsInv(labels2)'
<1>1. /\ program' = program /\ call' = call /\ step' = step
      /\ stream' = stream /\ received' = received
  BY DEF vars
<1>2. ASSUME NEW r \in Rank PROVE OfRank(labels, r)'
  <2>1. OfRank(labels, r)
    BY InvParts
  <2> QED BY <1>1, <2>1, RankKept
<1>3. ASSUME NEW r, NEW s, NEW channel1, NEW channel2, Agree(labels, r, channel1, s, channel2)
      PROVE  Agree(labels, r, channel1, s, channel2)'
  <2>1. ASSUME NEW q, NEW channel, NEW c, NEW k
        PROVE  Left(labels, q, channel, c, k)' <=> Left(labels, q, channel, c, k)
    BY <1>1, LeftKept
  <2> QED BY <1>1, <1>3, <2>1 DEF Agree, Concerned
<1>4. \A r, s \in Rank : /\ Agree(labels, r, <<"send", s>>, s, <<"recv", r>>)'
                         /\ Agree(labels, r, <<"all", 0>>, s, <<"all", 0>>)'
  <2>1. \A r, s \in Rank : /\ Agree(labels, r, <<"send", s>>, s, <<"recv", r>>)
                           /\ Agree(labels, r, <<"all", 0>>, s, <<"all", 0>>)
    BY DEF CountsInv
  <2> QED BY <1>3, <2>1
<1>5. /\ program' \in Programs
      /\ DOMAIN stream' = Rank /\ DOMAIN received' = Rank /\ DOMAIN call' = Rank /\ DOMAIN step' = Rank
      /\ stream' = [r \in Rank |-> stream'[r]] /\ received' = [r \in Rank |-> received'[r]]
  BY <1>1, InvParts
<1>6. CountsInv(labels)'
  BY <1>2, <1>4, <1>5 DEF CountsInv, OfRank
<1> QED BY <1>6

\* Every step keeps the invariant.
LEMMA CountsNext ==
  ASSUME \E labels : CountsInv(labels), [Next]_vars
  PROVE  \E labels : CountsInv(labels)'
<1>1. PICK labels : CountsInv(labels)
  OBVIOUS
<1>2. CASE \E r \in Rank : Host(r)
  BY <1>1, <1>2, HostInv
<1>3. CASE Progress /\ UNCHANGED <<program, call, step>>
  BY <1>1, <1>3, ProgressInv
<1>4. CASE \E r \in Rank : RunKernel(r)
  BY <1>1, <1>4, RunKernelInv
<1>5. CASE UNCHANGED vars
  BY <1>1, <1>5, CountsStutter
<1> QED BY <1>2, <1>3, <1>4, <1>5 DEF Next

\* The invariant, for every number of ranks and every program that the framework may
\* run: the groups in the streams can be labelled with their calls and steps, and both
\* ends of each channel have the same calls and steps left.
THEOREM CountsInvariant == Spec => [](\E labels : CountsInv(labels))
<1> DEFINE Labelling == \E labels : CountsInv(labels)
<1>1. Init => Labelling
  BY CountsInit
<1>2. Labelling /\ [Next]_vars => Labelling'
  BY CountsNext
<1> HIDE DEF Labelling
<1>3. Spec => []Labelling
  BY <1>1, <1>2, PTL DEF Spec
<1> QED BY <1>3 DEF Labelling

\* A receive that waits on a stream is from another rank of the group and inside of
\* the buffer that its kernel has allocated: recv_ptr and the offsets of the other
\* kernels never lead a message past the end of the output.
THEOREM CollectivesTypeCorrect == Spec => []TypeOK
<1> DEFINE Labelling == \E labels : CountsInv(labels)
<1>1. Labelling => TypeOK
  BY TypeFollows
<1>2. Spec => []Labelling
  BY CountsInvariant
<1> HIDE DEF Labelling
<1> QED BY <1>1, <1>2, PTL

\* A send and the receive that it meets, and the collectives that the ranks meet in,
\* have the same number of elements: the counts that the kernels compute on both ends
\* (global_scatter from local_count and global_count, the others from shapes) agree,
\* whatever the other ranks have launched meanwhile.
THEOREM CountsAlwaysMatch == Spec => []CountsMatch
<1> DEFINE Labelling == \E labels : CountsInv(labels)
<1>1. Labelling => CountsMatch
  BY CountsFollow
<1>2. Spec => []Labelling
  BY CountsInvariant
<1> HIDE DEF Labelling
<1> QED BY <1>1, <1>2, PTL
=============================================================================
