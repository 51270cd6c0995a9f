-------------------------- MODULE SequenceLemmas --------------------------
(***************************************************************************)
(* What the proofs keep needing of sequences: what appending, joining and  *)
(* flattening them puts in, and the least element of a set of naturals,    *)
(* by which the recursive functions of the operators are shown to exist.   *)
(***************************************************************************)
EXTENDS SequencesExt, SequenceTheorems, WellFoundedInduction, TLAPS

\* A sequence, whatever its elements are.
IsSeq(s) == s \in Seq(ToSet(s))

\* Every sequence is one of its own elements.
LEMMA SeqOfSet ==
  ASSUME NEW S, NEW s \in Seq(S) PROVE IsSeq(s)
BY DEF IsSeq, ToSet

\* Appending, joining and taking away the first element.
LEMMA AppendIsSeq ==
  ASSUME NEW s, IsSeq(s), NEW x
  PROVE  IsSeq(Append(s, x)) /\ ToSet(Append(s, x)) = ToSet(s) \cup {x}
<1> DEFINE S == ToSet(s) \cup {x}
<1>1. s \in Seq(S) /\ x \in S
  BY DEF IsSeq
<1>2. Append(s, x) \in Seq(S)
  BY <1>1
<1>3. /\ DOMAIN s = 1..Len(s) /\ Len(s) \in Nat /\ DOMAIN Append(s, x) = 1..Len(s) + 1
      /\ \A i \in 1..Len(s) : Append(s, x)[i] = s[i]
      /\ Append(s, x)[Len(s) + 1] = x
  BY <1>1
<1>4. ToSet(Append(s, x)) = ToSet(s) \cup {x}
  BY <1>3 DEF ToSet
<1> QED BY <1>2, <1>4, SeqOfSet

LEMMA ConcatIsSeq ==
  ASSUME NEW s, IsSeq(s), NEW t, IsSeq(t)
  PROVE  IsSeq(s \o t) /\ ToSet(s \o t) = ToSet(s) \cup ToSet(t)
<1> DEFINE S == ToSet(s) \cup ToSet(t)
<1>1. s \in Seq(S) /\ t \in Seq(S)
  BY DEF IsSeq
<1>2. s \o t \in Seq(S)
  BY <1>1
<1>3. /\ DOMAIN s = 1..Len(s) /\ Len(s) \in Nat /\ DOMAIN t = 1..Len(t) /\ Len(t) \in Nat
      /\ DOMAIN (s \o t) = 1..Len(s) + Len(t)
      /\ \A i \in 1..Len(s) + Len(t) : (s \o t)[i] = IF i <= Len(s) THEN s[i] ELSE t[i - Len(s)]
  BY <1>1, <1>2, ConcatProperties
<1>4. ToSet(s \o t) \subseteq ToSet(s) \cup ToSet(t)
  BY <1>3 DEF ToSet
<1>5. ToSet(s) \subseteq ToSet(s \o t)
  BY <1>3 DEF ToSet
<1>6. ASSUME NEW i \in 1..Len(t) PROVE t[i] \in ToSet(s \o t)
  <2>1. i + Len(s) \in DOMAIN (s \o t) /\ (s \o t)[i + Len(s)] = t[i]
    BY <1>3
  <2> QED BY <2>1 DEF ToSet
<1>7. ToSet(t) \subseteq ToSet(s \o t)
  BY <1>3, <1>6 DEF ToSet
<1> QED BY <1>2, <1>4, <1>5, <1>7, SeqOfSet

LEMMA TailIsSeq ==
  ASSUME NEW s, IsSeq(s), s # <<>>
  PROVE  IsSeq(Tail(s)) /\ ToSet(Tail(s)) \subseteq ToSet(s) /\ Head(s) \in ToSet(s)
<1>1. s \in Seq(ToSet(s))
  BY DEF IsSeq
<1>2. Tail(s) \in Seq(ToSet(s)) /\ Head(s) \in ToSet(s)
  BY <1>1, HeadTailProperties
<1>3. ToSet(Tail(s)) \subseteq ToSet(s)
  <2> HIDE DEF ToSet
  <2>1. DOMAIN Tail(s) = 1..Len(Tail(s)) /\ \A i \in 1..Len(Tail(s)) : Tail(s)[i] \in ToSet(s)
    BY <1>2, LenProperties, ElementOfSeq
  <2>2. ToSet(Tail(s)) = {Tail(s)[i] : i \in DOMAIN Tail(s)}
    BY DEF ToSet
  <2> QED BY <2>1, <2>2
<1> QED BY <1>2, <1>3, SeqOfSet

LEMMA OneIsSeq ==
  ASSUME NEW x PROVE IsSeq(<<x>>) /\ ToSet(<<x>>) = {x}
BY DEF IsSeq, ToSet
-----------------------------------------------------------------------------
\* The least element of a set of naturals is one of its elements.
LEMMA LeastOf ==
  ASSUME NEW S \in SUBSET Nat, S # {}
  PROVE  \E m \in S : \A k \in S : m <= k
<1>1. PICK m \in S : \A k \in S : ~(<<k, m>> \in OpToRel(<, Nat))
  BY WFMin, NatLessThanWellFounded
<1>2. ASSUME NEW k \in S PROVE m <= k
  <2>1. <<k, m>> \in Nat \X Nat /\ ~(k < m)
    BY <1>1 DEF OpToRel
  <2> QED BY <2>1
<1> QED BY <1>2

\* FlattenSeq puts one sequence behind the other: its recursive function exists,
\* since there is no least length for which it does not, and there is no least
\* place where it leaves Seq(S).
Flattens(f, n, S, seqs) ==
  /\ FlattenSeq(seqs) = f[n]
  /\ \A i \in 1..n : /\ f[i] \in Seq(S)
                     /\ f[i] = IF i = 1 THEN seqs[i] ELSE f[i - 1] \o seqs[i]

LEMMA FlattenSteps ==
  ASSUME NEW n \in Nat \ {0}, NEW S, NEW seqs \in [1..n -> Seq(S)]
  PROVE  \E f : Flattens(f, n, S, seqs)
<1> DEFINE Put(f, i) == IF i = 1 THEN seqs[i] ELSE f[i - 1] \o seqs[i]
           Puts(f, k) == f = [i \in 1..k |-> f[i]] /\ \A i \in 1..k : f[i] = Put(f, i)
           bad == {k \in 1..n : ~(\E f : Puts(f, k))}
<1>1. bad = {}
  <2> SUFFICES ASSUME bad # {} PROVE FALSE
    OBVIOUS
  <2>1. bad \in SUBSET Nat
    OBVIOUS
  <2>2. PICK k \in bad : \A j \in bad : k <= j
    <3> HIDE DEF bad
    <3> QED BY <2>1, LeastOf
  <2>3. k \in 1..n /\ ~(\E f : Puts(f, k))
    OBVIOUS
  <2>4. CASE k = 1
    <3> DEFINE g == [i \in 1..1 |-> seqs[1]]
    <3>1. Puts(g, 1)
      OBVIOUS
    <3> QED BY <2>3, <2>4, <3>1
  <2>5. CASE k # 1
    <3>1. k - 1 \in 1..n /\ ~(k <= k - 1)
      BY <2>3, <2>5
    <3>2. k - 1 \notin bad
      BY <2>2, <3>1
    <3>3. PICK f : Puts(f, k - 1)
      BY <3>1, <3>2
    <3> DEFINE g == [i \in 1..k |-> IF i = k THEN Put(f, k) ELSE f[i]]
    <3>4. g = [i \in 1..k |-> g[i]]
      OBVIOUS
    <3>5. ASSUME NEW i \in 1..k PROVE g[i] = Put(g, i)
      <4>1. i # 1 => g[i - 1] = f[i - 1]
        BY <2>3
      <4>2. g[i] = IF i = k THEN Put(f, k) ELSE f[i]
        OBVIOUS
      <4>3. i # k => f[i] = Put(f, i)
        <5>1. i # k => i \in 1..k - 1
          BY <2>3
        <5> QED BY <5>1, <3>3
      <4>4. Put(g, i) = Put(f, i)
        BY <4>1
      <4> QED BY <4>2, <4>3, <4>4
    <3>6. Puts(g, k)
      BY <3>4, <3>5
    <3> QED BY <2>3, <3>6
  <2> QED BY <2>4, <2>5
<1> DEFINE flatten == CHOOSE f : f = [i \in 1..n |-> Put(f, i)]
<1>2. flatten = [i \in 1..n |-> Put(flatten, i)]
  <2>1. n \in 1..n /\ n \notin bad
    <3> HIDE DEF bad
    <3> QED BY <1>1
  <2>2. PICK f : Puts(f, n)
    BY <2>1
  <2>3. f = [i \in 1..n |-> Put(f, i)]
    <3>1. f = [i \in 1..n |-> f[i]]
      BY <2>2
    <3>2. \A i \in 1..n : f[i] = Put(f, i)
      BY <2>2
    <3> HIDE DEF Puts
    <3> QED BY <3>1, <3>2
  <2> QED BY <2>3
<1> DEFINE wrong == {i \in 1..n : flatten[i] \notin Seq(S)}
<1>3. wrong = {}
  <2> SUFFICES ASSUME wrong # {} PROVE FALSE
    OBVIOUS
  <2> HIDE DEF flatten
  <2>1. wrong \in SUBSET Nat
    OBVIOUS
  <2>2. PICK k \in wrong : \A j \in wrong : k <= j
    <3> HIDE DEF wrong
    <3> QED BY <2>1, LeastOf
  <2>3. k \in 1..n /\ flatten[k] \notin Seq(S)
    OBVIOUS
  <2>4. flatten[k] = Put(flatten, k)
    BY <1>2, <2>3
  <2>5. k # 1 /\ flatten[k] = flatten[k - 1] \o seqs[k]
    BY <2>3, <2>4
  <2>6. k - 1 \in 1..n /\ ~(k <= k - 1)
    BY <2>3, <2>5
  <2>7. flatten[k - 1] \in Seq(S)
    BY <2>2, <2>6
  <2> QED BY <2>3, <2>5, <2>7, ConcatProperties
<1>4. Len(seqs) = n
  BY SeqDef, LenProperties
<1>5. FlattenSeq(seqs) = flatten[n]
  BY <1>4 DEF FlattenSeq
<1> HIDE DEF flatten
<1>6. \A i \in 1..n : flatten[i] = Put(flatten, i)
  BY <1>2
<1>7. Flattens(flatten, n, S, seqs)
  BY <1>3, <1>5, <1>6 DEF Flattens
<1> QED BY <1>7

\* So what is in the flattened sequence is in one of them ...
LEMMA FlattenedElements ==
  ASSUME NEW n \in Nat \ {0}, NEW S, NEW seqs \in [1..n -> Seq(S)]
  PROVE  FlattenSeq(seqs) \in Seq(S)
BY FlattenSteps DEF Flattens

\* ... also where there is none of them.
LEMMA FlattenedIsSeq ==
  ASSUME NEW n \in Nat, NEW S, NEW seqs \in [1..n -> Seq(S)]
  PROVE  FlattenSeq(seqs) \in Seq(S)
<1>1. CASE n = 0
  <2>1. seqs \in [1..0 -> S]
    BY <1>1
  <2>2. seqs \in Seq(S)
    BY <2>1, SeqDef
  <2>3. Len(seqs) = 0
    BY <1>1, <2>2, LenProperties
  <2> QED BY <2>2, <2>3 DEF FlattenSeq
<1>2. CASE n # 0
  BY <1>2, FlattenedElements
<1> QED BY <1>1, <1>2

\* Min of a set of naturals is one of them.
LEMMA MinInSet ==
  ASSUME NEW S \in SUBSET Nat, S # {}
  PROVE  Min(S) \in S
<1>1. PICK m \in S : \A k \in S : m <= k
  BY LeastOf
<1> QED BY <1>1 DEF Min
-----------------------------------------------------------------------------
\* What holds of the first value of a function and is kept by each of its steps
\* holds of all of its values.
LEMMA StaysIn ==
  ASSUME NEW n \in Nat, NEW V, NEW f, f[0] \in V,
         \A k \in 1..n : f[k - 1] \in V => f[k] \in V
  PROVE  \A k \in 0..n : f[k] \in V
<1> DEFINE wrong == {k \in 0..n : f[k] \notin V}
<1> SUFFICES ASSUME wrong # {} PROVE FALSE
  OBVIOUS
<1>1. wrong \in SUBSET Nat
  OBVIOUS
<1>2. PICK k \in wrong : \A j \in wrong : k <= j
  <2> HIDE DEF wrong
  <2> QED BY <1>1, LeastOf
<1>3. k \in 1..n /\ f[k] \notin V
  OBVIOUS
<1>4. k - 1 \in 0..n /\ ~(k <= k - 1)
  BY <1>3
<1>5. f[k - 1] \in V
  BY <1>2, <1>4
<1> QED BY <1>3, <1>5

\* A step on the elements of V can be repeated.
Iterates(f, n, V, v, step) ==
  /\ f = [k \in 0..n |-> IF k = 0 THEN v ELSE step[<<f[k - 1], k>>]]
  /\ \A k \in 0..n : f[k] \in V

LEMMA Iterated ==
  ASSUME NEW n \in Nat, NEW V, NEW v \in V, NEW step \in [V \X (1..n) -> V]
  PROVE  \E f : Iterates(f, n, V, v, step)
<1> DEFINE Put(f, k) == IF k = 0 THEN v ELSE step[<<f[k - 1], k>>]
           Puts(f, m) == f = [k \in 0..m |-> f[k]] /\ \A k \in 0..m : f[k] = Put(f, k)
           bad == {m \in 0..n : ~(\E f : Puts(f, m))}
<1>1. bad = {}
  <2> SUFFICES ASSUME bad # {} PROVE FALSE
    OBVIOUS
  <2>1. bad \in SUBSET Nat
    OBVIOUS
  <2>2. PICK m \in bad : \A j \in bad : m <= j
    <3> HIDE DEF bad
    <3> QED BY <2>1, LeastOf
  <2>3. m \in 0..n /\ ~(\E f : Puts(f, m))
    OBVIOUS
  <2>4. CASE m = 0
    <3> DEFINE g == [k \in 0..0 |-> v]
    <3>1. Puts(g, 0)
      OBVIOUS
    <3> QED BY <2>3, <2>4, <3>1
  <2>5. CASE m # 0
    <3>1. m - 1 \in 0..n /\ ~(m <= m - 1)
      BY <2>3, <2>5
    <3>2. m - 1 \notin bad
      BY <2>2, <3>1
    <3>3. PICK f : Puts(f, m - 1)
      BY <3>1, <3>2
    <3> DEFINE g == [k \in 0..m |-> IF k = m THEN Put(f, m) ELSE f[k]]
    <3>4. g = [k \in 0..m |-> g[k]]
      OBVIOUS
    <3>5. ASSUME NEW k \in 0..m PROVE g[k] = Put(g, k)
      <4>1. k # 0 => g[k - 1] = f[k - 1]
        BY <2>3
      <4>2. g[k] = IF k = m THEN Put(f, m) ELSE f[k]
        OBVIOUS
      <4>3. k # m => f[k] = Put(f, k)
        <5>1. k # m => k \in 0..m - 1
          BY <2>3
        <5> QED BY <5>1, <3>3
      <4>4. Put(g, k) = Put(f, k)
        <5>1. CASE k = 0
          BY <5>1
        <5>2. CASE k # 0
          <6> HIDE DEF g
          <6> QED BY <4>1, <5>2
        <5> QED BY <5>1, <5>2
      <4> QED BY <4>2, <4>3, <4>4
    <3>6. Puts(g, m)
      BY <3>4, <3>5
    <3> QED BY <2>3, <3>6
  <2> QED BY <2>4, <2>5
<1>2. n \in 0..n /\ n \notin bad
  <2> HIDE DEF bad
  <2> QED BY <1>1
<1>3. PICK f : Puts(f, n)
  BY <1>2
<1>4. f = [k \in 0..n |-> Put(f, k)]
  <2>1. f = [k \in 0..n |-> f[k]]
    BY <1>3
  <2>2. \A k \in 0..n : f[k] = Put(f, k)
    BY <1>3
  <2> HIDE DEF Puts
  <2> QED BY <2>1, <2>2
<1>5. f[0] = v
  <2>1. 0 \in 0..n /\ \A k \in 0..n : f[k] = Put(f, k)
    BY <1>3
  <2> HIDE DEF Puts
  <2> QED BY <2>1
<1>6. ASSUME NEW k \in 1..n, f[k - 1] \in V PROVE f[k] \in V
  <2>1. k \in 0..n /\ k # 0 /\ f[k] = Put(f, k)
    <3>1. k \in 0..n /\ k # 0
      OBVIOUS
    <3>2. \A j \in 0..n : f[j] = Put(f, j)
      BY <1>3
    <3> HIDE DEF Puts, Put
    <3> QED BY <3>1, <3>2
  <2>2. f[k] = step[<<f[k - 1], k>>]
    BY <2>1
  <2>3. <<f[k - 1], k>> \in V \X (1..n)
    BY <1>6
  <2> HIDE DEF Puts
  <2> QED BY <2>2, <2>3
<1>7. \A k \in 0..n : f[k] \in V
  <2> HIDE DEF Puts
  <2> QED BY <1>5, <1>6, StaysIn
<1>8. Iterates(f, n, V, v, step)
  BY <1>4, <1>7 DEF Iterates
<1> QED BY <1>8
-----------------------------------------------------------------------------
\* Where every sequence is empty, nothing is put together.
LEMMA FlattenedEmpty ==
  ASSUME NEW n \in Nat, NEW seqs \in [1..n -> {<<>>}]
  PROVE  FlattenSeq(seqs) = <<>>
<1>1. seqs \in [1..n -> Seq({})]
  <2>1. <<>> \in Seq({})
    BY EmptySeq
  <2> QED BY <2>1
<1>2. FlattenSeq(seqs) \in Seq({})
  BY <1>1, FlattenedIsSeq
<1>3. Len(FlattenSeq(seqs)) = 0
  <2>1. Len(FlattenSeq(seqs)) \in Nat
    BY <1>2, LenProperties
  <2>2. \A i \in 1..Len(FlattenSeq(seqs)) : FlattenSeq(seqs)[i] \in {}
    BY <1>2, ElementOfSeq
  <2>3. ASSUME Len(FlattenSeq(seqs)) # 0 PROVE FALSE
    <3>1. 1 \in 1..Len(FlattenSeq(seqs))
      BY <2>1, <2>3
    <3> QED BY <2>2, <3>1
  <2> QED BY <2>3
<1> QED BY <1>2, <1>3, EmptySeq

\* The last of the sequences that is not empty gives the last element.
LEMMA FlattenedLast ==
  ASSUME NEW n \in Nat, NEW S, NEW seqs \in [1..n -> Seq(S)], NEW k \in 1..n, seqs[k] # <<>>,
         \A j \in k + 1..n : seqs[j] = <<>>
  PROVE  FlattenSeq(seqs) # <<>> /\ Last(FlattenSeq(seqs)) = Last(seqs[k])
<1>1. n # 0
  OBVIOUS
<1>2. PICK f : Flattens(f, n, S, seqs)
  BY <1>1, FlattenSteps
<1> DEFINE V == {s \in Seq(S) : s # <<>> /\ Last(s) = Last(seqs[k])}
           g == [j \in 0..n - k |-> f[k + j]]
<1>3. seqs[k] \in V
  OBVIOUS
<1>4. f[k] \in V
  <2>1. CASE k = 1
    BY <1>2, <1>3, <2>1 DEF Flattens
  <2>2. CASE k # 1
    <3>1. k - 1 \in 1..n
      BY <2>2
    <3>2. f[k] = f[k - 1] \o seqs[k] /\ f[k - 1] \in Seq(S) /\ f[k] \in Seq(S)
      BY <1>2, <2>2, <3>1 DEF Flattens
    <3> DEFINE s == f[k - 1]
               t == seqs[k]
    <3>3. Len(s) \in Nat /\ Len(t) \in Nat /\ Len(t) # 0
      BY <3>2, EmptySeq, LenProperties
    <3>4. s \in Seq(S) /\ t \in Seq(S) /\ t # <<>>
      BY <3>2
    <3> HIDE DEF s, t
    <3>5. Len(s \o t) = Len(s) + Len(t) /\ (s \o t)[Len(s) + Len(t)] = t[Len(t)]
      BY <3>3, <3>4, ConcatProperties
    <3>6. s \o t # <<>> /\ Last(s \o t) = Last(t)
      BY <3>3, <3>4, <3>5, EmptySeq DEF Last
    <3> QED BY <3>2, <3>6 DEF s, t
  <2> QED BY <2>1, <2>2
<1>5. ASSUME NEW j \in 1..n - k, g[j - 1] \in V PROVE g[j] \in V
  <2>1. g[j - 1] = f[k + j - 1] /\ g[j] = f[k + j]
    <3>1. j - 1 \in 0..n - k /\ j \in 0..n - k /\ k + (j - 1) = k + j - 1
      OBVIOUS
    <3> QED BY <3>1
  <2>2. k + j \in k + 1..n /\ k + j \in 1..n /\ k + j # 1 /\ k + j - 1 \in 1..n
    OBVIOUS
  <2> DEFINE i == k + j
  <2>3. i \in 1..n /\ i # 1 /\ i - 1 \in 1..n /\ seqs[i] = <<>>
    BY <2>2
  <2> HIDE DEF i
  <2>4. f[i] = f[i - 1] \o <<>> /\ f[i - 1] \in Seq(S)
    BY <1>2, <2>3 DEF Flattens
  <2>5. f[i] = f[i - 1]
    BY <2>4, ConcatEmptySeq
  <2>6. f[k + j] = f[k + j - 1]
    BY <2>5 DEF i
  <2> HIDE DEF V, g
  <2> QED BY <1>5, <2>1, <2>6
<1>6. g[0] = f[k] /\ n - k \in Nat /\ g[n - k] = f[n]
  OBVIOUS
<1>7. \A j \in 0..n - k : g[j] \in V
  <2> HIDE DEF V, g
  <2> DEFINE m == n - k
  <2>1. m \in Nat /\ g[0] \in V /\ \A j \in 1..m : g[j - 1] \in V => g[j] \in V
    BY <1>4, <1>5, <1>6
  <2> HIDE DEF m
  <2>2. \A j \in 0..m : g[j] \in V
    BY <2>1, StaysIn
  <2> QED BY <2>2 DEF m
<1>8. f[n] \in V
  <2> HIDE DEF V, g
  <2> QED BY <1>6, <1>7
<1> QED BY <1>2, <1>8 DEF Flattens

\* What is in one of the sequences is in what they are put together to.
LEMMA FlattenedHas ==
  ASSUME NEW n \in Nat, NEW S, NEW seqs \in [1..n -> Seq(S)], NEW k \in 1..n, NEW x \in ToSet(seqs[k])
  PROVE  x \in ToSet(FlattenSeq(seqs))
<1>1. n # 0
  OBVIOUS
<1>2. PICK f : Flattens(f, n, S, seqs)
  BY <1>1, FlattenSteps
<1> DEFINE V == {s \in Seq(S) : x \in ToSet(s)}
           g == [j \in 0..n - k |-> f[k + j]]
           m == n - k
<1>3. ASSUME NEW i \in 1..n, i # 1
      PROVE  f[i] \in Seq(S) /\ ToSet(f[i]) = ToSet(f[i - 1]) \cup ToSet(seqs[i])
  <2>1. i - 1 \in 1..n
    BY <1>3
  <2>2. f[i] = f[i - 1] \o seqs[i] /\ f[i - 1] \in Seq(S) /\ f[i] \in Seq(S) /\ seqs[i] \in Seq(S)
    BY <1>2, <1>3, <2>1 DEF Flattens
  <2>3. IsSeq(f[i - 1]) /\ IsSeq(seqs[i])
    BY <2>2, SeqOfSet
  <2> QED BY <2>2, <2>3, ConcatIsSeq
<1>4. f[k] \in V
  <2>1. CASE k = 1
    BY <1>2, <2>1 DEF Flattens
  <2>2. CASE k # 1
    <3> HIDE DEF m, g
    <3> QED BY <1>3, <2>2
  <2> QED BY <2>1, <2>2
<1>5. ASSUME NEW j \in 1..m, g[j - 1] \in V PROVE g[j] \in V
  <2>1. /\ j - 1 \in 0..n - k /\ j \in 0..n - k /\ k + (j - 1) = (k + j) - 1
        /\ k + j \in 1..n /\ k + j # 1
    OBVIOUS
  <2>2. g[j - 1] = f[(k + j) - 1] /\ g[j] = f[k + j]
    BY <2>1
  <2> HIDE DEF g, m
  <2>3. f[k + j] \in Seq(S) /\ ToSet(f[k + j]) = ToSet(f[(k + j) - 1]) \cup ToSet(seqs[k + j])
    BY <1>3, <2>1
  <2> QED BY <1>5, <2>2, <2>3
<1>6. m \in Nat /\ g[0] = f[k] /\ g[m] = f[n]
  OBVIOUS
<1> HIDE DEF V, g, m
<1>7. \A j \in 0..m : g[j] \in V
  BY <1>4, <1>5, <1>6, StaysIn
<1>8. f[n] \in V
  BY <1>6, <1>7
<1> QED BY <1>2, <1>8 DEF Flattens, V
=============================================================================
