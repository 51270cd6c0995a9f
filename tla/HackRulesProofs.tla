--------------------------- MODULE HackRulesProofs ---------------------------
(***************************************************************************)
(* Proofs about HackRules, for every mapping, every tree and any number of *)
(* runs: a run that fails or is interrupted leaves every target as a number*)
(* of complete rule files made it, but for the one it was writing, and     *)
(* writes none that is not selected.                                       *)
(***************************************************************************)
EXTENDS HackRules, SequenceLemmas, FiniteSetTheorems

\* What a rule file makes of what the rule files before it made of a target.
AfterFile(result, file) == Then(result, ApplyRuleFile, file)

\* f are the results along work, beginning with v: the rule files of other targets
\* leave them alone.
Along(f, v, work, p) ==
  /\ f[0] = v
  /\ \A k \in 1..Len(work) :
       f[k] = IF work[k].path = p THEN AfterFile(f[k - 1], work[k].file) ELSE f[k - 1]

\* Replay, beginning with any result.
After(v, work, p) ==
  CHOOSE f : f = [k \in 0..Len(work) |->
    IF k = 0 THEN v
    ELSE IF work[k].path = p THEN Then(f[k - 1], ApplyRuleFile, work[k].file) ELSE f[k - 1]]

LEMMA ReplayIsAfter ==
  ASSUME NEW lines, NEW work, NEW p
  PROVE  Replay(lines, work, p) = After(Unchanged(lines), work, p)
BY DEF Replay, After

LEMMA AfterSteps ==
  ASSUME NEW v, NEW work, Len(work) \in Nat, NEW p
  PROVE  Along(After(v, work, p), v, work, p)
<1> DEFINE n == Len(work)
           One(r, k) == IF work[k].path = p
                        THEN IF ~r.ok THEN r
                             ELSE LET next == ApplyRuleFile(r.lines, work[k].file)
                                  IN  [ok |-> next.ok, lines |-> next.lines,
                                       count |-> r.count + next.count]
                        ELSE r
           Put(f, k) == IF k = 0 THEN v ELSE One(f[k - 1], k)
           after == CHOOSE f : f = [k \in 0..n |-> Put(f, k)]
<1>1. After(v, work, p) = after
  BY DEF After, Then
<1>2. \A r, k : One(r, k) = IF work[k].path = p THEN AfterFile(r, work[k].file) ELSE r
  BY DEF AfterFile, Then
<1> HIDE DEF One
<1> DEFINE Steps(f, m) == f = [k \in 0..m |-> f[k]] /\ \A k \in 0..m : f[k] = Put(f, k)
           bad == {m \in 0..n : ~(\E f : Steps(f, m))}
<1>3. bad = {}
  <2> SUFFICES ASSUME bad # {} PROVE FALSE
    OBVIOUS
  <2>1. bad \in SUBSET Nat
    OBVIOUS
  <2>2. PICK m \in bad : \A j \in bad : m <= j
    <3> HIDE DEF bad
    <3> QED BY <2>1, LeastOf
  <2>3. m \in 0..n /\ ~(\E f : Steps(f, m))
    OBVIOUS
  <2>4. CASE m = 0
    <3> DEFINE g == [k \in 0..0 |-> v]
    <3>1. Steps(g, 0)
      OBVIOUS
    <3> QED BY <2>3, <2>4, <3>1
  <2>5. CASE m # 0
    <3>1. m - 1 \in 0..n /\ ~(m <= m - 1)
      BY <2>3, <2>5
    <3>2. m - 1 \notin bad
      BY <2>2, <3>1
    <3>3. PICK f : Steps(f, m - 1)
      BY <3>1, <3>2
    <3> DEFINE g == [k \in 0..m |-> IF k = m THEN Put(f, m) ELSE f[k]]
    <3>4. g = [k \in 0..m |-> g[k]]
      OBVIOUS
    <3>5. ASSUME NEW k \in 0..m PROVE g[k] = Put(g, k)
      <4>1. k # 0 => g[k - 1] = f[k - 1]
        BY <2>3
      <4>2. g[k] = IF k = m THEN Put(f, m) ELSE f[k]
        OBVIOUS
      <4>3. k # m => f[k] = Put(f, k)
        <5>1. k # m => k \in 0..m - 1
          BY <2>3
        <5> QED BY <5>1, <3>3
      <4>4. Put(g, k) = Put(f, k)
        BY <4>1
      <4> QED BY <4>2, <4>3, <4>4
    <3>6. Steps(g, m)
      BY <3>4, <3>5
    <3> QED BY <2>3, <3>6
  <2> QED BY <2>4, <2>5
<1>4. after = [k \in 0..n |-> Put(after, k)]
  <2>1. n \in 0..n /\ n \notin bad
    <3> HIDE DEF bad
    <3> QED BY <1>3
  <2>2. PICK f : Steps(f, n)
    BY <2>1
  <2>3. f = [k \in 0..n |-> Put(f, k)]
    <3>1. f = [k \in 0..n |-> f[k]]
      BY <2>2
    <3>2. \A k \in 0..n : f[k] = Put(f, k)
      BY <2>2
    <3> HIDE DEF Steps
    <3> QED BY <3>1, <3>2
  <2> QED BY <2>3
<1> HIDE DEF after
<1>5. after[0] = v /\ \A k \in 1..n : after[k] = One(after[k - 1], k)
  BY <1>4
<1> QED BY <1>1, <1>2, <1>5 DEF Along

LEMMA ReplaySteps ==
  ASSUME NEW lines, NEW work, Len(work) \in Nat, NEW p
  PROVE  Along(Replay(lines, work, p), Unchanged(lines), work, p)
BY AfterSteps, ReplayIsAfter
-----------------------------------------------------------------------------
RuleFiles == UNION {ToSet(mapping[i].rules) : i \in DOMAIN mapping}
WorkOf(selected) == [path : selected, file : RuleFiles]

LEMMA MappingIsSeq ==
  ASSUME mapping \in Mappings
  PROVE  /\ Len(mapping) \in Nat /\ DOMAIN mapping = 1..Len(mapping)
         /\ \A i \in DOMAIN mapping : mapping[i].rules \in Seq(ToSet(mapping[i].rules))
BY MappingsAssumption, LenProperties

\* A pass over an item is a sequence of rule files for its target.
LEMMA PassIsSeq ==
  ASSUME mapping \in Mappings, NEW i \in DOMAIN mapping, NEW hackdiff
  PROVE  PassOver(mapping[i], hackdiff) \in Seq(WorkOf({mapping[i].path}))
<1> DEFINE rules == mapping[i].rules
           path == mapping[i].path
           one(j) == IF (rules[j].suffix = ".hackdiff") = hackdiff
                     THEN <<[path |-> path, file |-> rules[j]]>> ELSE <<>>
           seqs == [j \in DOMAIN rules |-> one(j)]
<1>1. Len(rules) \in Nat /\ DOMAIN rules = 1..Len(rules)
  BY MappingIsSeq, LenProperties
<1>2. ASSUME NEW j \in DOMAIN rules PROVE one(j) \in Seq(WorkOf({path}))
  <2>1. rules[j] \in RuleFiles
    BY DEF RuleFiles, ToSet
  <2>2. [path |-> path, file |-> rules[j]] \in WorkOf({path})
    BY <2>1 DEF WorkOf
  <2> DEFINE x == [path |-> path, file |-> rules[j]]
             S == WorkOf({path})
  <2>3. one(j) = <<x>> \/ one(j) = <<>>
    OBVIOUS
  <2>4. x \in S
    BY <2>2
  <2> HIDE DEF x, S, one
  <2>5. <<x>> \in Seq(S) /\ <<>> \in Seq(S)
    BY <2>4
  <2>6. one(j) \in Seq(S)
    BY <2>3, <2>5
  <2> QED BY <2>6 DEF S
<1>3. PassOver(mapping[i], hackdiff) = FlattenSeq(seqs)
  BY DEF PassOver
<1> HIDE DEF rules, path, one
<1>4. seqs \in [1..Len(rules) -> Seq(WorkOf({path}))]
  BY <1>1, <1>2
<1> HIDE DEF seqs
<1>5. PassOver(mapping[i], hackdiff) \in Seq(WorkOf({path}))
  BY <1>1, <1>3, <1>4, FlattenedIsSeq
<1> QED BY <1>5 DEF path

\* The work of a run is a sequence of rule files for its targets.
LEMMA WorkIsSeq ==
  ASSUME mapping \in Mappings, NEW selected
  PROVE  Work(selected) \in Seq(WorkOf(selected))
<1>1. Len(mapping) \in Nat /\ DOMAIN mapping = 1..Len(mapping)
  BY MappingIsSeq
<1>2. ASSUME NEW i \in DOMAIN mapping, mapping[i].path \in selected, NEW hackdiff
      PROVE  PassOver(mapping[i], hackdiff) \in Seq(WorkOf(selected))
  <2>1. WorkOf({mapping[i].path}) \subseteq WorkOf(selected)
    BY <1>2 DEF WorkOf
  <2>2. PassOver(mapping[i], hackdiff) \in Seq(WorkOf({mapping[i].path}))
    BY PassIsSeq
  <2> QED BY <2>1, <2>2, SeqMonotonic
<1>3. ASSUME NEW hackdiff
      PROVE  FlattenSeq([i \in DOMAIN mapping |->
               IF mapping[i].path \in selected THEN PassOver(mapping[i], hackdiff) ELSE <<>>])
             \in Seq(WorkOf(selected))
  <2> DEFINE seqs == [i \in DOMAIN mapping |->
               IF mapping[i].path \in selected THEN PassOver(mapping[i], hackdiff) ELSE <<>>]
  <2>1. seqs \in [1..Len(mapping) -> Seq(WorkOf(selected))]
    BY <1>1, <1>2
  <2> HIDE DEF seqs
  <2>2. FlattenSeq(seqs) \in Seq(WorkOf(selected))
    BY <1>1, <2>1, FlattenedIsSeq
  <2> QED BY <2>2 DEF seqs
<1> QED BY <1>3, ConcatProperties DEF Work
-----------------------------------------------------------------------------
(***************************************************************************)
(* The inductive invariant: what is left of the work of a run are its last *)
(* rule files, and the tree is what the rule files before them made of it. *)
(***************************************************************************)
Left(work, k) == SubSeq(work, k + 1, Len(work))

MadeBy(start, work, k, now) ==
  \A p \in DOMAIN start :
     /\ Replay(start[p], work, p)[k].ok
     /\ now[p] = Replay(start[p], work, p)[k].lines

RunOK ==
  /\ run.active \in BOOLEAN
  /\ ~run.active => todo = <<>>
  /\ run.active =>
       /\ run.dry \in BOOLEAN
       /\ run = [active |-> TRUE, dry |-> run.dry, selected |-> run.selected,
                 start |-> run.start, total |-> run.total, done |-> run.done]
       /\ DOMAIN run.start = DOMAIN tree
       /\ todo \in Seq(WorkOf(run.selected))
       /\ IF run.dry THEN run.start = tree
          ELSE \E k \in 0..Len(Work(run.selected)) :
                 /\ todo = Left(Work(run.selected), k)
                 /\ MadeBy(run.start, Work(run.selected), k, tree)

\* A run that is done has applied all of its work.
DoneRunsAreWhole ==
  \A r \in reports : r.outcome = "done" /\ ~r.dry =>
    MadeBy(r.start, Work(r.selected), Len(Work(r.selected)), r.end)

ReplayInv == mapping \in Mappings /\ RunOK /\ NoHalfAppliedFile /\ DoneRunsAreWhole

LEMMA MadeByNothing ==
  ASSUME mapping \in Mappings, NEW selected, NEW start
  PROVE  MadeBy(start, Work(selected), 0, start)
<1>1. Len(Work(selected)) \in Nat
  BY WorkIsSeq, LenProperties
<1>2. \A p : Replay(start[p], Work(selected), p)[0] = Unchanged(start[p])
  BY <1>1, ReplaySteps DEF Along
<1>3. ASSUME NEW p
      PROVE  /\ Replay(start[p], Work(selected), p)[0].ok
             /\ start[p] = Replay(start[p], Work(selected), p)[0].lines
  <2>1. Unchanged(start[p]).ok = TRUE /\ Unchanged(start[p]).lines = start[p]
    BY DEF Unchanged
  <2> QED BY <1>2, <2>1, Zenon
<1> QED BY <1>3 DEF MadeBy

\* Where no write was cut short, every target is whole.
LEMMA NothingTorn ==
  ASSUME NEW start, NEW work, NEW k, NEW now
  PROVE  LeftBy(start, work, k, now, {}) <=> MadeBy(start, work, k, now)
BY DEF LeftBy, MadeBy

\* A report of a run that has ended keeps the promise.
LEMMA ReportKeeps ==
  ASSUME ReplayInv, NEW r, NEW outcome, NEW torn, UNCHANGED mapping,
         reports' = reports \cup {Report(r, outcome, torn)},
         IF r.dry THEN r.start = tree' /\ torn = {}
         ELSE \E k \in 0..Len(Work(r.selected)) :
                /\ LeftBy(r.start, Work(r.selected), k, tree', torn)
                /\ outcome = "done" => k = Len(Work(r.selected)) /\ torn = {}
  PROVE  NoHalfAppliedFile' /\ DoneRunsAreWhole'
<1> DEFINE Kept(q) == \E k \in 0..(IF q.dry THEN 0 ELSE Len(Work(q.selected))) :
                        LeftBy(q.start, Work(q.selected), k, q.end, q.torn)
           q1 == Report(r, outcome, torn)
<1>1. \A selected : Work(selected)' = Work(selected)
  BY DEF Work
<1>2. \A q \in reports : Kept(q)
  BY DEF ReplayInv, NoHalfAppliedFile
<1>3. /\ q1.dry = r.dry /\ q1.selected = r.selected /\ q1.start = r.start
      /\ q1.end = tree' /\ q1.torn = torn
  BY DEF Report
<1>4. Kept(q1)
  <2>1. LeftBy(r.start, Work(r.selected), 0, r.start, {})
    <3>1. MadeBy(r.start, Work(r.selected), 0, r.start)
      BY MadeByNothing DEF ReplayInv
    <3> QED BY <3>1, NothingTorn
  <2>2. CASE r.dry
    <3>1. LeftBy(q1.start, Work(q1.selected), 0, q1.end, q1.torn)
      <4> HIDE DEF q1
      <4> QED BY <1>3, <2>1, <2>2
    <3> HIDE DEF q1
    <3> QED BY <1>3, <2>2, <3>1
  <2>3. CASE ~r.dry
    <3>1. PICK k \in 0..Len(Work(r.selected)) : LeftBy(r.start, Work(r.selected), k, tree', torn)
      BY <2>3
    <3>2. LeftBy(q1.start, Work(q1.selected), k, q1.end, q1.torn)
      <4> HIDE DEF q1
      <4> QED BY <1>3, <3>1
    <3> HIDE DEF q1
    <3> QED BY <1>3, <2>3, <3>1, <3>2
  <2> QED BY <2>2, <2>3
<1>5. \A q \in reports' : Kept(q)
  <2> HIDE DEF Kept, q1
  <2> QED BY <1>2, <1>4 DEF q1
<1>6. NoHalfAppliedFile'
  <2> SUFFICES ASSUME NEW q \in reports'
               PROVE  \E k \in 0..(IF q.dry THEN 0 ELSE Len(Work(q.selected)')) :
                         LeftBy(q.start, Work(q.selected)', k, q.end, q.torn)
    BY DEF NoHalfAppliedFile, LeftBy
  <2> QED BY <1>1, <1>5
<1>7. ASSUME NEW q \in reports', q.outcome = "done", ~q.dry
      PROVE  MadeBy(q.start, Work(q.selected), Len(Work(q.selected)), q.end)
  <2>1. CASE q \in reports
    BY <1>7, <2>1 DEF ReplayInv, DoneRunsAreWhole
  <2>2. CASE q = q1
    <3>1. q1.outcome = outcome
      BY DEF Report
    <3> HIDE DEF q1
    <3>2. LeftBy(r.start, Work(r.selected), Len(Work(r.selected)), tree', {})
      BY <1>3, <1>7, <2>2, <3>1
    <3> QED BY <1>3, <2>2, <3>2, NothingTorn
  <2> QED BY <2>1, <2>2
<1>8. DoneRunsAreWhole'
  BY <1>1, <1>7 DEF DoneRunsAreWhole, MadeBy
<1> QED BY <1>6, <1>8

LEMMA NoReportKeeps ==
  ASSUME ReplayInv, UNCHANGED <<mapping, reports>>
  PROVE  NoHalfAppliedFile' /\ DoneRunsAreWhole'
<1>1. \A selected : Work(selected)' = Work(selected)
  BY DEF Work
<1>2. NoHalfAppliedFile'
  <2> SUFFICES ASSUME NEW q \in reports'
               PROVE  \E k \in 0..(IF q.dry THEN 0 ELSE Len(Work(q.selected)')) :
                         LeftBy(q.start, Work(q.selected)', k, q.end, q.torn)
    BY DEF NoHalfAppliedFile, LeftBy
  <2> QED BY <1>1 DEF ReplayInv, NoHalfAppliedFile
<1>3. DoneRunsAreWhole'
  BY <1>1 DEF ReplayInv, DoneRunsAreWhole, MadeBy
<1> QED BY <1>2, <1>3
-----------------------------------------------------------------------------
LEMMA StartKeeps ==
  ASSUME ReplayInv, NEW selected, NEW dry \in BOOLEAN, Start(selected, dry)
  PROVE  ReplayInv'
<1> DEFINE work == Work(selected)
<1>1. work \in Seq(WorkOf(selected)) /\ Len(work) \in Nat
  BY WorkIsSeq, LenProperties DEF ReplayInv
<1>2. \A other : Work(other)' = Work(other) /\ WorkOf(other)' = WorkOf(other)
  BY DEF Start, Work, WorkOf, RuleFiles
<1>3. /\ run' = [active |-> TRUE, dry |-> dry, selected |-> selected, start |-> tree,
                 total |-> 0, done |-> 0]
      /\ todo' = work /\ UNCHANGED <<mapping, tree, reports>>
  BY DEF Start
<1>4. work = Left(work, 0)
  BY <1>1, SubSeqFull DEF Left
<1>5. MadeBy(tree, work, 0, tree)
  BY MadeByNothing DEF ReplayInv
<1> HIDE DEF work
<1>6. RunOK'
  <2>1. todo' \in Seq(WorkOf(run.selected)') /\ Work(run.selected)' = work
    BY <1>1, <1>2, <1>3 DEF work
  <2>2. ~dry => \E k \in 0..Len(Work(run.selected)') :
                  /\ todo' = Left(Work(run.selected)', k)
                  /\ MadeBy(run'.start, Work(run.selected)', k, tree')
    <3>1. 0 \in 0..Len(work)
      BY <1>1
    <3> QED BY <1>3, <1>4, <1>5, <2>1, <3>1
  <2> QED BY <1>3, <2>1, <2>2 DEF RunOK, Left, MadeBy
<1>7. NoHalfAppliedFile' /\ DoneRunsAreWhole'
  BY <1>3, NoReportKeeps
<1> QED BY <1>3, <1>6, <1>7 DEF ReplayInv

\* A state in which no run is active.
LEMMA IdleIsOK ==
  ASSUME run' = NoRun, todo' = <<>>
  PROVE  RunOK'
BY DEF RunOK, NoRun

LEMMA StartWithoutTargetKeeps ==
  ASSUME ReplayInv, NEW selected, NEW dry \in BOOLEAN, StartWithoutTarget(selected, dry)
  PROVE  ReplayInv'
<1> DEFINE r == [dry |-> dry, selected |-> selected, start |-> tree, total |-> 0]
<1>1. reports' = reports \cup {Report(r, "failed", {})} /\ UNCHANGED <<mapping, tree, run, todo>>
  BY DEF StartWithoutTarget
<1>2. LeftBy(r.start, Work(r.selected), 0, tree', {}) /\ r.start = tree'
  <2>1. MadeBy(r.start, Work(r.selected), 0, r.start)
    BY MadeByNothing DEF ReplayInv
  <2>2. r.start = tree'
    BY <1>1
  <2> HIDE DEF r
  <2> QED BY <2>1, <2>2, NothingTorn
<1>3. Len(Work(r.selected)) \in Nat
  BY WorkIsSeq, LenProperties DEF ReplayInv
<1> HIDE DEF r
<1>4. NoHalfAppliedFile' /\ DoneRunsAreWhole'
  <2>1. ~r.dry => \E k \in 0..Len(Work(r.selected)) : LeftBy(r.start, Work(r.selected), k, tree', {})
    BY <1>2, <1>3
  <2>2. UNCHANGED mapping /\ "failed" # "done"
    BY <1>1
  <2> QED BY <1>1, <1>2, <2>1, <2>2, ReportKeeps
<1>5. RunOK'
  <2>1. \A other : Work(other)' = Work(other) /\ WorkOf(other)' = WorkOf(other)
    BY <1>1 DEF Work, WorkOf, RuleFiles
  <2> QED BY <1>1, <2>1 DEF ReplayInv, RunOK, Left, MadeBy
<1> QED BY <1>1, <1>4, <1>5 DEF ReplayInv

\* A run that ends between two writes.
LEMMA EndKeeps ==
  ASSUME ReplayInv, run.active, NEW outcome, outcome = "done" => todo = <<>>,
         run' = NoRun, todo' = <<>>,
         UNCHANGED <<mapping, tree>>, reports' = reports \cup {Report(run, outcome, {})}
  PROVE  ReplayInv'
<1> DEFINE work == Work(run.selected)
<1>1. work \in Seq(WorkOf(run.selected)) /\ Len(work) \in Nat
  BY WorkIsSeq, LenProperties DEF ReplayInv
<1> HIDE DEF work
<1>2. ASSUME NEW k \in 0..Len(work), Left(work, k) = <<>> PROVE k = Len(work)
  <2>1. SubSeq(work, k + 1, Len(work)) = <<>>
    BY <1>2 DEF Left
  <2>2. ASSUME k # Len(work) PROVE FALSE
    <3>1. k + 1 \in 1..Len(work) /\ Len(work) \in Int /\ k + 1 <= Len(work)
      BY <1>1, <2>2
    <3>2. \A i \in k + 1..Len(work) : work[i] \in WorkOf(run.selected)
      BY <1>1, ElementOfSeq
    <3>3. Len(SubSeq(work, k + 1, Len(work))) = Len(work) - (k + 1) + 1
      <4> DEFINE S == WorkOf(run.selected)
                 m == k + 1
                 n == Len(work)
      <4>1. m \in Int /\ n \in Int /\ m <= n /\ \A i \in m..n : work[i] \in S
        BY <3>1, <3>2
      <4> HIDE DEF S, m, n
      <4>2. Len(SubSeq(work, m, n)) = n - m + 1
        BY <4>1, SubSeqProperties
      <4> QED BY <4>2 DEF m, n
    <3>4. Len(<<>>) = 0
      BY EmptySeq
    <3>5. Len(SubSeq(work, k + 1, Len(work))) = 0
      BY <2>1, <3>4
    <3>6. Len(work) - (k + 1) + 1 # 0
      BY <1>1, <3>1
    <3> QED BY <3>3, <3>5, <3>6
  <2> QED BY <2>2
<1>3. IF run.dry THEN run.start = tree
      ELSE \E k \in 0..Len(Work(run.selected)) :
             /\ LeftBy(run.start, Work(run.selected), k, tree, {})
             /\ outcome = "done" => k = Len(Work(run.selected))
  BY <1>2, NothingTorn DEF ReplayInv, RunOK, work
<1>4. NoHalfAppliedFile' /\ DoneRunsAreWhole'
  BY <1>3, ReportKeeps
<1> QED BY <1>4, IdleIsOK DEF ReplayInv

\* The next rule file, if it does not raise: one more step of the replay gives
\* what is to be written.
LEMMA NextFileSteps ==
  ASSUME ReplayInv, run.active, todo # <<>>, Result.ok,
         NEW k \in 0..Len(Work(run.selected)), todo = Left(Work(run.selected), k),
         MadeBy(run.start, Work(run.selected), k, tree)
  PROVE  /\ k + 1 \in 1..Len(Work(run.selected))
         /\ Head(todo) = Work(run.selected)[k + 1] /\ Tail(todo) = Left(Work(run.selected), k + 1)
         /\ \A p \in DOMAIN run.start :
              LET replay == Replay(run.start[p], Work(run.selected), p)
              IN  /\ replay[k + 1].ok
                  /\ replay[k + 1].lines = IF Head(todo).path = p THEN Result.lines ELSE tree[p]
<1> DEFINE work == Work(run.selected)
           path == Head(todo).path
           made(p, j) == Replay(run.start[p], work, p)[j]
<1>1. work \in Seq(WorkOf(run.selected)) /\ Len(work) \in Nat
  BY WorkIsSeq, LenProperties DEF ReplayInv
<1>2. k \in 0..Len(work) /\ todo = Left(work, k) /\ MadeBy(run.start, work, k, tree)
  OBVIOUS
<1> HIDE DEF work
<1>3. k + 1 \in 1..Len(work)
  <2>1. k # Len(work)
    BY <1>1, <1>2, SubSeqEmpty DEF Left
  <2> QED BY <1>1, <1>2, <2>1
<1>4. Head(todo) = work[k + 1] /\ Tail(todo) = Left(work, k + 1)
  <2>1. Len(work) \in k + 1..Len(work)
    BY <1>1, <1>3
  <2> QED BY <1>1, <1>2, <1>3, <2>1, HeadTailOfSubSeq DEF Left
<1>5. ASSUME NEW p \in DOMAIN run.start
      PROVE  /\ made(p, k + 1).ok
             /\ made(p, k + 1).lines = IF path = p THEN Result.lines ELSE tree[p]
  <2>1. made(p, k).ok /\ tree[p] = made(p, k).lines
    BY <1>2 DEF MadeBy
  <2>2. made(p, k + 1) = IF work[k + 1].path = p
                         THEN AfterFile(made(p, k), work[k + 1].file)
                         ELSE made(p, k)
    <3>1. k + 1 \in 1..Len(work) /\ (k + 1) - 1 = k
      BY <1>2, <1>3
    <3>2. \A j \in 1..Len(work) :
            made(p, j) = IF work[j].path = p THEN AfterFile(made(p, j - 1), work[j].file)
                         ELSE made(p, j - 1)
      <4>1. Along(Replay(run.start[p], work, p), Unchanged(run.start[p]), work, p)
        BY <1>1, ReplaySteps
      <4> QED BY <4>1 DEF Along
    <3> HIDE DEF made
    <3> QED BY <3>1, <3>2
  <2> HIDE DEF made
  <2>3. CASE path = p
    <3>1. made(p, k + 1) = AfterFile(made(p, k), work[k + 1].file)
      BY <1>4, <2>2, <2>3
    <3>2. Result = ApplyRuleFile(made(p, k).lines, work[k + 1].file)
      BY <1>4, <2>1, <2>3 DEF Result
    <3>3. made(p, k + 1) = [ok |-> Result.ok, lines |-> Result.lines,
                            count |-> made(p, k).count + Result.count]
      BY <2>1, <3>1, <3>2 DEF AfterFile, Then
    <3> DEFINE new == made(p, k + 1)
               counted == made(p, k).count + Result.count
    <3> HIDE DEF new, counted
    <3>4. new = [ok |-> Result.ok, lines |-> Result.lines, count |-> counted]
      BY <3>3 DEF new, counted
    <3>5. new.ok
      BY <3>4
    <3>6. new.lines = Result.lines
      BY <3>4
    <3> QED BY <2>3, <3>5, <3>6 DEF new
  <2>4. CASE path # p
    BY <1>4, <2>1, <2>2, <2>4
  <2> QED BY <2>3, <2>4
<1> QED BY <1>3, <1>4, <1>5 DEF work

LEMMA ApplyKeeps ==
  ASSUME ReplayInv, Apply
  PROVE  ReplayInv'
<1> DEFINE work == Work(run.selected)
           path == Head(todo).path
           made(p, k) == Replay(run.start[p], work, p)[k]
<1>1. /\ run.active = TRUE /\ run.dry \in BOOLEAN /\ todo # <<>> /\ todo \in Seq(WorkOf(run.selected))
      /\ run = [active |-> TRUE, dry |-> run.dry, selected |-> run.selected,
                start |-> run.start, total |-> run.total, done |-> run.done]
      /\ DOMAIN run.start = DOMAIN tree
  BY DEF Apply, ReplayInv, RunOK
<1>2. /\ run' = [active |-> TRUE, dry |-> run.dry, selected |-> run.selected,
                 start |-> run.start, total |-> run.total + Result.count,
                 done |-> run.done + 1]
      /\ UNCHANGED <<mapping, reports>> /\ todo' = Tail(todo)
  BY <1>1 DEF Apply
<1> DEFINE sameRun == /\ run'.active = TRUE /\ run'.dry = run.dry
                      /\ run'.selected = run.selected /\ run'.start = run.start
                      /\ run' = [active |-> TRUE, dry |-> run'.dry, selected |-> run'.selected,
                                 start |-> run'.start, total |-> run'.total, done |-> run'.done]
<1>3. sameRun /\ Work(run.selected)' = work /\ WorkOf(run.selected)' = WorkOf(run.selected)
  <2>1. sameRun
    BY <1>1, <1>2
  <2>2. \A other : Work(other)' = Work(other) /\ WorkOf(other)' = WorkOf(other)
    BY <1>2 DEF Work, WorkOf, RuleFiles
  <2> QED BY <2>1, <2>2
<1>4. todo' \in Seq(WorkOf(run.selected)')
  BY <1>1, <1>2, <1>3, HeadTailProperties
<1>5. DOMAIN tree' = DOMAIN tree
  BY DEF Apply
<1>6. ASSUME run.dry PROVE RunOK'
  <2>1. tree' = tree
    BY <1>6 DEF Apply
  <2>2. run'.start = tree' /\ run'.dry
    BY <1>1, <1>3, <1>6, <2>1 DEF ReplayInv, RunOK
  <2> QED BY <1>1, <1>3, <1>4, <1>5, <2>2 DEF RunOK
<1>7. ASSUME ~run.dry PROVE RunOK'
  <2>1. PICK k \in 0..Len(work) : todo = Left(work, k) /\ MadeBy(run.start, work, k, tree)
    BY <1>1, <1>7 DEF ReplayInv, RunOK
  <2>2. Result.ok /\ tree' = [tree EXCEPT ![path] = Result.lines]
    BY <1>7 DEF Apply
  <2>3. k + 1 \in 1..Len(work)
    BY <1>1, <2>1, <2>2, NextFileSteps
  <2>4. Head(todo) = work[k + 1] /\ todo' = Left(work, k + 1)
    BY <1>1, <1>2, <2>1, <2>2, NextFileSteps
  <2>5. \A p \in DOMAIN run.start :
          made(p, k + 1).ok /\ made(p, k + 1).lines = IF path = p THEN Result.lines ELSE tree[p]
    BY <1>1, <2>1, <2>2, NextFileSteps
  <2> HIDE DEF work
  <2>6. ASSUME NEW p \in DOMAIN run.start
        PROVE  made(p, k + 1).ok /\ tree'[p] = made(p, k + 1).lines
    <3> HIDE DEF made
    <3> QED BY <1>1, <2>2, <2>5
  <2>7. MadeBy(run.start, work, k + 1, tree')
    BY <2>6 DEF MadeBy
  <2>8. Work(run.selected)' = work /\ run'.start = run.start /\ run'.active
        /\ DOMAIN run'.start = DOMAIN tree'
    BY <1>1, <1>3, <1>5 DEF work
  <2>9. \E j \in 0..Len(Work(run.selected)') :
          /\ todo' = Left(Work(run.selected)', j)
          /\ MadeBy(run'.start, Work(run.selected)', j, tree')
    <3>1. k + 1 \in 0..Len(work)
      BY <2>3
    <3> QED BY <2>4, <2>7, <2>8, <3>1
  <2>10. ~run'.dry /\ run'.dry \in BOOLEAN
    BY <1>1, <1>3, <1>7
  <2> QED BY <1>1, <1>3, <1>4, <2>8, <2>9, <2>10 DEF RunOK, Left, MadeBy
<1>8. RunOK'
  BY <1>6, <1>7
<1> QED BY <1>2, <1>8, NoReportKeeps DEF ReplayInv

\* A run that is killed inside a write leaves part of what the next step of the
\* replay gives its target, and the other targets whole.
LEMMA InterruptedWritingKeeps ==
  ASSUME ReplayInv, InterruptedWriting
  PROVE  ReplayInv'
<1> DEFINE work == Work(run.selected)
           path == Head(todo).path
<1>1. /\ run.active /\ ~run.dry /\ todo # <<>> /\ Result.ok
      /\ DOMAIN run.start = DOMAIN tree
  BY DEF InterruptedWriting, ReplayInv, RunOK
<1>2. /\ run' = NoRun /\ todo' = <<>> /\ UNCHANGED mapping
      /\ reports' = reports \cup {Report(run, "interrupted", {path})}
  BY DEF InterruptedWriting
<1>3. PICK n \in 0..Len(Result.lines) - 1 : tree' = [tree EXCEPT ![path] = SubSeq(Result.lines, 1, n)]
  BY DEF InterruptedWriting
<1>4. PICK k \in 0..Len(work) : todo = Left(work, k) /\ MadeBy(run.start, work, k, tree)
  BY <1>1 DEF ReplayInv, RunOK
<1>5. k + 1 \in 1..Len(work)
  BY <1>1, <1>4, NextFileSteps
<1>6. Head(todo) = work[k + 1]
  BY <1>1, <1>4, NextFileSteps
<1>7. ASSUME NEW p \in DOMAIN run.start
      PROVE  LET replay == Replay(run.start[p], work, p)
             IN  /\ replay[k + 1].ok /\ replay[k].ok /\ tree[p] = replay[k].lines
                 /\ path = p => replay[k + 1].lines = Result.lines
  <2>1. LET replay == Replay(run.start[p], work, p)
        IN  /\ replay[k + 1].ok
            /\ replay[k + 1].lines = IF path = p THEN Result.lines ELSE tree[p]
    BY <1>1, <1>4, NextFileSteps
  <2> QED BY <1>4, <2>1 DEF MadeBy
<1>8. Len(work) \in Nat
  BY WorkIsSeq, LenProperties DEF ReplayInv
<1> HIDE DEF work
<1>9. LeftBy(run.start, work, k, tree', {path})
  <2> SUFFICES ASSUME NEW p \in DOMAIN run.start
               PROVE  LET replay == Replay(run.start[p], work, p)
                      IN  IF p \in {path}
                          THEN /\ k < Len(work) /\ work[k + 1].path = p /\ replay[k + 1].ok
                               /\ \E m \in 0..Len(replay[k + 1].lines) - 1 :
                                    tree'[p] = SubSeq(replay[k + 1].lines, 1, m)
                          ELSE replay[k].ok /\ tree'[p] = replay[k].lines
    BY DEF LeftBy
  <2>1. CASE p = path
    <3>1. k < Len(work) /\ work[k + 1].path = p
      BY <1>4, <1>5, <1>6, <1>8, <2>1
    <3>2. tree'[p] = SubSeq(Result.lines, 1, n)
      BY <1>1, <1>3, <2>1
    <3> QED BY <1>3, <1>7, <2>1, <3>1, <3>2
  <2>2. CASE p # path
    BY <1>1, <1>3, <1>7, <2>2
  <2> QED BY <2>1, <2>2
<1>10. NoHalfAppliedFile' /\ DoneRunsAreWhole'
  <2>1. \E j \in 0..Len(Work(run.selected)) : LeftBy(run.start, Work(run.selected), j, tree', {path})
    BY <1>9 DEF work
  <2> QED BY <1>1, <1>2, <2>1, ReportKeeps
<1> QED BY <1>2, <1>10, IdleIsOK DEF ReplayInv

LEMMA RestoreKeeps ==
  ASSUME ReplayInv, Restore
  PROVE  ReplayInv'
<1>1. run' = run /\ todo' = todo /\ ~run.active /\ UNCHANGED <<mapping, reports>>
  BY DEF Restore
<1>2. RunOK'
  BY <1>1 DEF RunOK, ReplayInv
<1> QED BY <1>1, <1>2, NoReportKeeps DEF ReplayInv

LEMMA ReplayStuttering ==
  ASSUME ReplayInv, UNCHANGED vars
  PROVE  ReplayInv'
<1>1. \A other : Work(other)' = Work(other) /\ WorkOf(other)' = WorkOf(other)
  BY DEF vars, Work, WorkOf, RuleFiles
<1>2. RunOK'
  BY <1>1 DEF vars, ReplayInv, RunOK, Left, MadeBy
<1> QED BY <1>2, NoReportKeeps DEF vars, ReplayInv

LEMMA ReplayNext ==
  ASSUME ReplayInv, [Next]_vars
  PROVE  ReplayInv'
<1>1. CASE \E selected \in SUBSET Paths, dry \in BOOLEAN :
             Start(selected, dry) \/ StartWithoutTarget(selected, dry)
  BY <1>1, StartKeeps, StartWithoutTargetKeeps
<1>2. CASE Apply
  BY <1>2, ApplyKeeps
<1>3. CASE Raises
  <2>1. run.active
    BY <1>3 DEF Raises, ReplayInv, RunOK
  <2> QED BY <1>3, <2>1, EndKeeps DEF Raises
<1>4. CASE Ends
  BY <1>4, EndKeeps DEF Ends
<1>5. CASE Interrupted
  BY <1>5, EndKeeps DEF Interrupted
<1>6. CASE InterruptedWriting
  BY <1>6, InterruptedWritingKeeps
<1>7. CASE Restore
  BY <1>7, RestoreKeeps
<1>8. CASE UNCHANGED vars
  BY <1>8, ReplayStuttering
<1> QED BY <1>1, <1>2, <1>3, <1>4, <1>5, <1>6, <1>7, <1>8 DEF Next

\* The invariant, for every mapping, tree and number of runs.
THEOREM ReplayInvariant == Spec => []ReplayInv
<1>1. Init => ReplayInv
  BY DEF Init, ReplayInv, RunOK, NoRun, NoHalfAppliedFile, DoneRunsAreWhole
<1>2. ReplayInv /\ [Next]_vars => ReplayInv'
  BY ReplayNext
<1> QED BY <1>1, <1>2, PTL DEF Spec

\* A run that failed, or was interrupted anywhere, leaves every target as some
\* number of complete rule files made it, one number for all of them; only the
\* target being written may hold a part, of what the next rule file makes of it.
\* A dry run leaves them as they were.
THEOREM FailedRunsLeaveWholeFiles == Spec => []NoHalfAppliedFile
<1>1. ReplayInv => NoHalfAppliedFile
  BY DEF ReplayInv
<1> QED BY <1>1, ReplayInvariant, PTL

\* The script writes no target that was not selected, and none in a dry run;
\* all else that happens to the tree is its reset.
WritesSelectedOnly ==
  tree' # tree =>
    \/ /\ run.active /\ ~run.dry
       /\ \A p \in DOMAIN tree : tree'[p] # tree[p] => p \in run.selected
    \/ ~run.active /\ tree' = head

THEOREM OthersAreNotWritten == Spec => [][WritesSelectedOnly]_vars
<1>1. ASSUME ReplayInv, [Next]_vars PROVE [WritesSelectedOnly]_vars
  <2>1. CASE Apply \/ InterruptedWriting
    <3>1. run.active /\ todo # <<>> /\ todo \in Seq(WorkOf(run.selected))
      BY <1>1, <2>1 DEF Apply, InterruptedWriting, ReplayInv, RunOK
    <3>2. Head(todo) \in WorkOf(run.selected)
      BY <3>1, HeadTailProperties
    <3>3. Head(todo).path \in run.selected
      BY <3>2 DEF WorkOf
    <3>4. tree' # tree => ~run.dry /\ \E lines : tree' = [tree EXCEPT ![Head(todo).path] = lines]
      BY <2>1 DEF Apply, InterruptedWriting
    <3> QED BY <3>1, <3>3, <3>4 DEF WritesSelectedOnly
  <2>2. CASE Restore
    BY <2>2 DEF Restore, WritesSelectedOnly
  <2>3. CASE Raises \/ Ends \/ Interrupted
    BY <2>3 DEF Raises, Ends, Interrupted, WritesSelectedOnly
  <2>4. CASE \E selected \in SUBSET Paths, dry \in BOOLEAN :
               Start(selected, dry) \/ StartWithoutTarget(selected, dry)
    BY <2>4 DEF Start, StartWithoutTarget, WritesSelectedOnly
  <2>5. CASE UNCHANGED vars
    BY <2>5
  <2> QED BY <1>1, <2>1, <2>2, <2>3, <2>4, <2>5 DEF Next
<1> QED BY <1>1, ReplayInvariant, PTL DEF Spec
-----------------------------------------------------------------------------
(***************************************************************************)
(* Two pieces of work are the same to a target if they make the same of it,*)
(* whatever was made of it before.  The work of a run is the same to a     *)
(* selected target as its own rule files are.                              *)
(***************************************************************************)
Made(v, work, p) == After(v, work, p)[Len(work)]

SameTo(s, t, p) == \A v : Made(v, s, p) = Made(v, t, p)

\* Along a piece of work there is one way only.
LEMMA AlongOnce ==
  ASSUME NEW v, NEW work, Len(work) \in Nat, NEW p, NEW f, Along(f, v, work, p)
  PROVE  f[Len(work)] = Made(v, work, p)
<1> DEFINE g == After(v, work, p)
           n == Len(work)
           bad == {k \in 0..n : f[k] # g[k]}
<1>1. Along(g, v, work, p)
  BY AfterSteps
<1> HIDE DEF g
<1>2. bad = {}
  <2> SUFFICES ASSUME bad # {} PROVE FALSE
    OBVIOUS
  <2>1. bad \in SUBSET Nat
    OBVIOUS
  <2>2. PICK k \in bad : \A j \in bad : k <= j
    <3> HIDE DEF bad
    <3> QED BY <2>1, LeastOf
  <2>3. k \in 0..n /\ f[k] # g[k]
    OBVIOUS
  <2>4. k # 0
    BY <1>1, <2>3 DEF Along
  <2>5. k - 1 \in 0..n /\ ~(k <= k - 1) /\ k \in 1..n
    BY <2>3, <2>4
  <2>6. f[k - 1] = g[k - 1]
    BY <2>2, <2>5
  <2>7. /\ f[k] = IF work[k].path = p THEN AfterFile(f[k - 1], work[k].file) ELSE f[k - 1]
        /\ g[k] = IF work[k].path = p THEN AfterFile(g[k - 1], work[k].file) ELSE g[k - 1]
    BY <1>1, <2>5 DEF Along
  <2> QED BY <2>3, <2>6, <2>7
<1>3. n \in 0..n /\ n \notin bad
  <2> HIDE DEF bad
  <2> QED BY <1>2
<1> QED BY <1>3 DEF g, Made

\* One piece of work behind another one.
LEMMA ResultOfConcat ==
  ASSUME NEW S, NEW s \in Seq(S), NEW t \in Seq(S), NEW v, NEW p
  PROVE  Made(v, s \o t, p) = Made(Made(v, s, p), t, p)
<1> DEFINE m == Len(s)
           n == Len(t)
           u == Made(v, s, p)
           f == After(v, s, p)
           g == After(u, t, p)
           h == [k \in 0..m + n |-> IF k <= m THEN f[k] ELSE g[k - m]]
           st == s \o t
<1>1. m \in Nat /\ n \in Nat
  BY LenProperties
<1>2. Along(f, v, s, p) /\ Along(g, u, t, p)
  BY <1>1, AfterSteps
<1>3. /\ Len(st) = m + n
      /\ \A i \in 1..m + n : st[i] = IF i <= m THEN s[i] ELSE t[i - m]
  BY ConcatProperties
<1>4. f[m] = u /\ g[0] = u /\ f[0] = v
  BY <1>2 DEF Made, Along
<1>5. g[n] = Made(u, t, p)
  BY DEF Made
<1> HIDE DEF m, n, f, g, st, u
<1>6. h[0] = v
  BY <1>1, <1>4
<1>7. ASSUME NEW k \in 1..m + n
      PROVE  h[k] = IF st[k].path = p THEN AfterFile(h[k - 1], st[k].file) ELSE h[k - 1]
  <2>1. CASE k <= m
    <3>1. k \in 1..m /\ k \in 0..m + n /\ k - 1 \in 0..m + n /\ k - 1 <= m
      BY <1>1, <2>1
    <3>2. h[k] = f[k] /\ h[k - 1] = f[k - 1] /\ st[k] = s[k]
      BY <1>1, <1>3, <2>1, <3>1
    <3>3. f[k] = IF s[k].path = p THEN AfterFile(f[k - 1], s[k].file) ELSE f[k - 1]
      BY <1>2, <3>1 DEF Along, m
    <3> HIDE DEF h
    <3> QED BY <3>2, <3>3
  <2>2. CASE ~(k <= m)
    <3>1. /\ k - m \in 1..n /\ k \in 0..m + n /\ k - 1 \in 0..m + n
          /\ (k - 1) - m = (k - m) - 1 /\ (k - 1 <= m => k - 1 = m /\ (k - m) - 1 = 0)
      BY <1>1, <2>2
    <3>2. h[k] = g[k - m] /\ st[k] = t[k - m]
      BY <1>1, <1>3, <2>2, <3>1
    <3>3. h[k - 1] = g[(k - m) - 1]
      BY <1>1, <1>4, <3>1
    <3>4. g[k - m] = IF t[k - m].path = p THEN AfterFile(g[(k - m) - 1], t[k - m].file)
                     ELSE g[(k - m) - 1]
      BY <1>2, <3>1 DEF Along, n
    <3> HIDE DEF h
    <3> QED BY <3>2, <3>3, <3>4
  <2> QED BY <2>1, <2>2
<1>8. h[m + n] = g[n]
  <2>1. CASE n = 0
    BY <1>1, <1>4, <2>1
  <2>2. CASE n # 0
    BY <1>1, <2>2
  <2> QED BY <2>1, <2>2
<1> HIDE DEF h
<1>9. Along(h, v, st, p) /\ Len(st) \in Nat
  BY <1>1, <1>3, <1>6, <1>7 DEF Along
<1>10. h[Len(st)] = Made(v, st, p)
  BY <1>9, AlongOnce
<1> QED BY <1>3, <1>5, <1>8, <1>10 DEF st, u

\* Work on other targets only.
LEMMA ResultOfOthers ==
  ASSUME NEW work, Len(work) \in Nat, NEW p, \A k \in 1..Len(work) : work[k].path # p, NEW v
  PROVE  Made(v, work, p) = v
<1> DEFINE f == [k \in 0..Len(work) |-> v]
<1>1. Along(f, v, work, p) /\ f[Len(work)] = v
  BY DEF Along
<1> HIDE DEF f
<1> QED BY <1>1, AlongOnce

LEMMA ConcatIsSame ==
  ASSUME NEW S, NEW s \in Seq(S), NEW s2 \in Seq(S), NEW t \in Seq(S), NEW t2 \in Seq(S), NEW p,
         SameTo(s, t, p), SameTo(s2, t2, p)
  PROVE  SameTo(s \o s2, t \o t2, p)
BY ResultOfConcat DEF SameTo

\* Flattening sequences of work that are the same to a target, one by one.
LEMMA FlattenIsSame ==
  ASSUME NEW n \in Nat, NEW S, NEW a \in [1..n -> Seq(S)], NEW b \in [1..n -> Seq(S)], NEW p,
         \A i \in 1..n : SameTo(a[i], b[i], p)
  PROVE  SameTo(FlattenSeq(a), FlattenSeq(b), p)
<1>1. CASE n = 0
  <2>1. a = b
    BY <1>1
  <2> QED BY <2>1 DEF SameTo
<1>2. CASE n # 0
  <2>1. PICK f : Flattens(f, n, S, a)
    BY <1>2, FlattenSteps
  <2>2. PICK g : Flattens(g, n, S, b)
    BY <1>2, FlattenSteps
  <2> DEFINE bad == {i \in 1..n : ~SameTo(f[i], g[i], p)}
  <2>3. bad = {}
    <3> SUFFICES ASSUME bad # {} PROVE FALSE
      OBVIOUS
    <3>1. bad \in SUBSET Nat
      OBVIOUS
    <3>2. PICK k \in bad : \A j \in bad : k <= j
      <4> HIDE DEF bad
      <4> QED BY <3>1, LeastOf
    <3>3. k \in 1..n /\ ~SameTo(f[k], g[k], p)
      OBVIOUS
    <3>4. k # 1
      BY <2>1, <2>2, <3>3 DEF Flattens
    <3>5. k - 1 \in 1..n /\ ~(k <= k - 1)
      BY <3>3, <3>4
    <3>6. SameTo(f[k - 1], g[k - 1], p)
      BY <3>2, <3>5
    <3>7. f[k] = f[k - 1] \o a[k] /\ g[k] = g[k - 1] \o b[k]
      BY <2>1, <2>2, <3>3, <3>4 DEF Flattens
    <3>8. SameTo(f[k - 1] \o a[k], g[k - 1] \o b[k], p)
      <4>1. f[k - 1] \in Seq(S) /\ g[k - 1] \in Seq(S) /\ a[k] \in Seq(S) /\ b[k] \in Seq(S)
        BY <2>1, <2>2, <3>3, <3>5 DEF Flattens
      <4>2. SameTo(a[k], b[k], p)
        BY <3>3
      <4> QED BY <3>6, <4>1, <4>2, ConcatIsSame
    <3> QED BY <3>3, <3>7, <3>8
  <2>4. n \in 1..n /\ n \notin bad
    <3> HIDE DEF bad
    <3> QED BY <1>2, <2>3
  <2> QED BY <2>1, <2>2, <2>4 DEF Flattens
<1> QED BY <1>1, <1>2

\* To a selected target the work of a run is its own rule files.
LEMMA WorkIsFilesOf ==
  ASSUME mapping \in Mappings, NEW selected, NEW p \in selected
  PROVE  SameTo(Work(selected), FilesOf(p), p)
<1> DEFINE S == WorkOf(selected)
           n == Len(mapping)
           a(hackdiff) == [i \in DOMAIN mapping |->
                             IF mapping[i].path \in selected THEN PassOver(mapping[i], hackdiff) ELSE <<>>]
           b(hackdiff) == [i \in DOMAIN mapping |->
                             IF mapping[i].path = p THEN PassOver(mapping[i], hackdiff) ELSE <<>>]
<1>1. n \in Nat /\ DOMAIN mapping = 1..n
  BY MappingIsSeq
<1>2. ASSUME NEW i \in DOMAIN mapping, mapping[i].path \in selected, NEW hackdiff
      PROVE  PassOver(mapping[i], hackdiff) \in Seq(S)
  <2>1. WorkOf({mapping[i].path}) \subseteq S
    BY <1>2 DEF WorkOf
  <2>2. PassOver(mapping[i], hackdiff) \in Seq(WorkOf({mapping[i].path}))
    BY PassIsSeq
  <2> HIDE DEF S
  <2> QED BY <2>1, <2>2, SeqMonotonic
<1>3. ASSUME NEW i \in DOMAIN mapping, mapping[i].path # p, NEW hackdiff
      PROVE  SameTo(PassOver(mapping[i], hackdiff), <<>>, p)
  <2> DEFINE pass == PassOver(mapping[i], hackdiff)
  <2>1. pass \in Seq(WorkOf({mapping[i].path}))
    BY PassIsSeq
  <2>2. Len(pass) \in Nat /\ \A k \in 1..Len(pass) : pass[k] \in WorkOf({mapping[i].path})
    BY <2>1, LenProperties, ElementOfSeq
  <2>3. \A k \in 1..Len(pass) : pass[k].path # p
    BY <1>3, <2>2 DEF WorkOf
  <2>4. Len(<<>>) = 0 /\ \A k \in 1..0 : <<>>[k].path # p
    BY EmptySeq
  <2> HIDE DEF pass
  <2>5. \A v : Made(v, pass, p) = v
    BY <2>2, <2>3, ResultOfOthers
  <2>6. \A v : Made(v, <<>>, p) = v
    BY <2>4, ResultOfOthers
  <2> QED BY <2>5, <2>6 DEF SameTo, pass
<1>4. ASSUME NEW hackdiff
      PROVE  /\ a(hackdiff) \in [1..n -> Seq(S)] /\ b(hackdiff) \in [1..n -> Seq(S)]
             /\ \A i \in 1..n : SameTo(a(hackdiff)[i], b(hackdiff)[i], p)
  <2>1. <<>> \in Seq(S)
    BY EmptySeq
  <2>2. a(hackdiff) \in [1..n -> Seq(S)] /\ b(hackdiff) \in [1..n -> Seq(S)]
    <3> HIDE DEF S, n
    <3> QED BY <1>1, <1>2, <2>1
  <2>3. ASSUME NEW i \in 1..n PROVE SameTo(a(hackdiff)[i], b(hackdiff)[i], p)
    <3>1. CASE mapping[i].path = p
      BY <1>1, <3>1 DEF SameTo
    <3>2. CASE mapping[i].path # p /\ mapping[i].path \in selected
      <4>1. a(hackdiff)[i] = PassOver(mapping[i], hackdiff) /\ b(hackdiff)[i] = <<>>
        BY <1>1, <3>2
      <4> QED BY <1>1, <1>3, <3>2, <4>1
    <3>3. CASE mapping[i].path # p /\ mapping[i].path \notin selected
      <4>1. a(hackdiff)[i] = <<>> /\ b(hackdiff)[i] = <<>>
        BY <1>1, <3>3
      <4> QED BY <4>1 DEF SameTo
    <3> QED BY <3>1, <3>2, <3>3
  <2> QED BY <2>2, <2>3
<1>5. /\ Work(selected) = FlattenSeq(a(TRUE)) \o FlattenSeq(a(FALSE))
      /\ FilesOf(p) = FlattenSeq(b(TRUE)) \o FlattenSeq(b(FALSE))
  BY DEF Work, FilesOf
<1> HIDE DEF a, b, S, n
<1>6. ASSUME NEW hackdiff
      PROVE  /\ FlattenSeq(a(hackdiff)) \in Seq(S) /\ FlattenSeq(b(hackdiff)) \in Seq(S)
             /\ SameTo(FlattenSeq(a(hackdiff)), FlattenSeq(b(hackdiff)), p)
  BY <1>1, <1>4, FlattenedIsSeq, FlattenIsSame
<1> QED BY <1>5, <1>6, ConcatIsSame

\* A complete run from the committed tree gives each selected target its own
\* .hackdiff files on the upstream text and then the other rule files, whichever
\* targets are selected with it, and leaves the others alone.
THEOREM CompleteRunsArePerFile == Spec => []ReplayIsPerFile
<1>1. ReplayInv => ReplayIsPerFile
  <2> SUFFICES ASSUME ReplayInv,
                      NEW r \in reports, r.outcome = "done", ~r.dry, r.start = head,
                      NEW p \in DOMAIN head
               PROVE  r.end[p] = IF p \in r.selected
                                 THEN Replay(head[p], FilesOf(p), p)[Len(FilesOf(p))].lines
                                 ELSE head[p]
    BY DEF ReplayIsPerFile
  <2> DEFINE work == Work(r.selected)
             upstream == Unchanged(head[p])
  <2>1. mapping \in Mappings
    BY DEF ReplayInv
  <2>2. work \in Seq(WorkOf(r.selected)) /\ Len(work) \in Nat
    BY <2>1, WorkIsSeq, LenProperties
  <2>3. r.end[p] = Replay(head[p], work, p)[Len(work)].lines
    BY DEF ReplayInv, DoneRunsAreWhole, MadeBy
  <2>4. r.end[p] = Made(upstream, work, p).lines
    BY <2>3, ReplayIsAfter DEF Made
  <2>5. CASE p \in r.selected
    <3>1. Made(upstream, work, p) = Made(upstream, FilesOf(p), p)
      BY <2>1, <2>5, WorkIsFilesOf DEF SameTo
    <3>2. Made(upstream, FilesOf(p), p) = Replay(head[p], FilesOf(p), p)[Len(FilesOf(p))]
      BY ReplayIsAfter DEF Made
    <3> QED BY <2>4, <2>5, <3>1, <3>2
  <2>6. CASE p \notin r.selected
    <3> HIDE DEF work, upstream
    <3>0. ASSUME NEW k \in 1..Len(work)
          PROVE  work[k] \in WorkOf(r.selected)
      BY <2>2, ElementOfSeq
    <3>1. \A k \in 1..Len(work) : work[k].path # p
      BY <2>6, <3>0 DEF WorkOf
    <3>2. Made(upstream, work, p) = upstream
      BY <2>2, <3>1, ResultOfOthers
    <3> QED BY <2>4, <2>6, <3>2 DEF upstream, Unchanged
  <2> QED BY <2>5, <2>6
<1> QED BY <1>1, ReplayInvariant, PTL
-----------------------------------------------------------------------------
(***************************************************************************)
(* What the rule engine returns: texts, and counts of replacements.        *)
(***************************************************************************)
SignedLine == [sign : {"-", "+"}, line : AnyLine]
HackRule ==
  {rule \in [old : AnyText, new : AnyText, relaxedOld : AnyText, relaxedNew : AnyText] :
     rule.relaxedNew = <<>> => rule.new = <<>>}
AnyResult == [ok : BOOLEAN, lines : AnyText, count : Nat]

LEMMA UnsignedIsText ==
  ASSUME NEW block \in Seq(SignedLine), NEW sign
  PROVE  Unsigned(block, sign) \in AnyText
<1> DEFINE seqs == [i \in DOMAIN block |-> IF block[i].sign = sign THEN <<block[i].line>> ELSE <<>>]
           n == Len(block)
<1>1. n \in Nat /\ DOMAIN block = 1..n
  BY LenProperties
<1>2. ASSUME NEW i \in 1..n PROVE seqs[i] \in Seq(AnyLine)
  <2>1. block[i] \in SignedLine
    BY <1>1
  <2>2. block[i].line \in AnyLine
    BY <2>1 DEF SignedLine
  <2> DEFINE x == block[i].line
  <2>3. seqs[i] = <<x>> \/ seqs[i] = <<>>
    BY <1>1
  <2>4. x \in AnyLine
    BY <2>2
  <2> HIDE DEF seqs, x
  <2>5. <<x>> \in Seq(AnyLine) /\ <<>> \in Seq(AnyLine)
    BY <2>4
  <2> QED BY <2>3, <2>5
<1>3. DOMAIN seqs = 1..n /\ seqs = [i \in 1..n |-> seqs[i]]
  BY <1>1
<1>4. FlattenSeq(seqs) = Unsigned(block, sign)
  BY DEF Unsigned
<1> HIDE DEF seqs, n
<1>5. seqs \in [1..n -> Seq(AnyLine)]
  BY <1>2, <1>3
<1> QED BY <1>1, <1>4, <1>5, FlattenedIsSeq DEF AnyText

LEMMA HackDiffRuleIsRule ==
  ASSUME NEW block \in Seq(SignedLine)
  PROVE  HackDiffRule(block) \in HackRule
<1> DEFINE old == Unsigned(block, "-")
           new == Unsigned(block, "+")
           one(s) == [i \in DOMAIN s |-> StripOneSpace(s[i])]
           single(s) == [i \in DOMAIN s |-> StripSingleSpace(s[i])]
<1>1. old \in Seq(AnyLine) /\ new \in Seq(AnyLine)
  BY UnsignedIsText DEF AnyText
<1>2. ASSUME NEW line \in AnyLine
      PROVE  StripOneSpace(line) \in AnyLine /\ StripSingleSpace(line) \in AnyLine
  BY DEF AnyLine, StripOneSpace, StripSingleSpace
<1>3. ASSUME NEW s \in Seq(AnyLine)
      PROVE  /\ one(s) \in Seq(AnyLine) /\ single(s) \in Seq(AnyLine)
             /\ one(s) = <<>> => single(s) = <<>>
  <2>1. Len(s) \in Nat /\ DOMAIN s = 1..Len(s) /\ \A i \in 1..Len(s) : s[i] \in AnyLine
    BY LenProperties
  <2>2. one(s) \in [1..Len(s) -> AnyLine] /\ single(s) \in [1..Len(s) -> AnyLine]
    BY <1>2, <2>1
  <2> HIDE DEF one, single
  <2>3. one(s) \in Seq(AnyLine) /\ single(s) \in Seq(AnyLine)
    BY <2>1, <2>2, SeqDef
  <2>4. Len(one(s)) = Len(s) /\ Len(single(s)) = Len(s)
    BY <2>1, <2>2, <2>3, LenProperties
  <2> QED BY <2>3, <2>4, EmptySeq
<1>4. HackDiffRule(block) = [old |-> old, new |-> single(new),
                             relaxedOld |-> one(old), relaxedNew |-> one(new)]
  BY DEF HackDiffRule
<1> HIDE DEF old, new, one, single
<1> QED BY <1>1, <1>3, <1>4 DEF HackRule, AnyText

LEMMA RulesAreRules ==
  ASSUME NEW blocks \in Seq(Seq(SignedLine))
  PROVE  Rules(blocks) \in Seq(HackRule)
<1> DEFINE seqs == [i \in DOMAIN blocks |->
                      IF IsSkipped(blocks[i]) THEN <<>> ELSE <<HackDiffRule(blocks[i])>>]
           n == Len(blocks)
<1>1. n \in Nat /\ DOMAIN blocks = 1..n
  BY LenProperties
<1>2. ASSUME NEW i \in 1..n PROVE seqs[i] \in Seq(HackRule)
  <2>1. blocks[i] \in Seq(SignedLine)
    BY <1>1
  <2>2. HackDiffRule(blocks[i]) \in HackRule
    BY <2>1, HackDiffRuleIsRule
  <2> DEFINE x == HackDiffRule(blocks[i])
  <2>3. seqs[i] = <<x>> \/ seqs[i] = <<>>
    BY <1>1
  <2>4. x \in HackRule
    BY <2>2
  <2> HIDE DEF seqs, x
  <2>5. <<x>> \in Seq(HackRule) /\ <<>> \in Seq(HackRule)
    BY <2>4
  <2> QED BY <2>3, <2>5
<1>3. DOMAIN seqs = 1..n /\ seqs = [i \in 1..n |-> seqs[i]]
  BY <1>1
<1>4. FlattenSeq(seqs) = Rules(blocks)
  BY DEF Rules
<1> HIDE DEF seqs, n
<1>5. seqs \in [1..n -> Seq(HackRule)]
  BY <1>2, <1>3
<1> QED BY <1>1, <1>4, <1>5, FlattenedIsSeq

\* One replacement, as Replace makes it, and its results one after the other.
ReplaceNext(lines, old, new, done) ==
  LET places == {i \in DOMAIN lines : i >= done.next /\ MatchesAt(lines, old, i)}
  IN  IF places = {} THEN done
      ELSE [lines |-> done.lines \o SubSeq(lines, done.next, Min(places) - 1) \o new,
            next  |-> Min(places) + Len(old),
            count |-> done.count + 1]

Replacing == [lines : AnyText, next : Nat \ {0}, count : Nat]

Replaces(done, lines, old, new, max) ==
  /\ done[0] = [lines |-> <<>>, next |-> 1, count |-> 0]
  /\ \A k \in 1..max : done[k] = ReplaceNext(lines, old, new, done[k - 1])
  /\ \A k \in 0..max : done[k] \in Replacing
  /\ Replace(lines, old, new, max) =
       [lines |-> done[max].lines \o SubSeq(lines, done[max].next, Len(lines)),
        count |-> done[max].count]

LEMMA PartOfText ==
  ASSUME NEW lines \in AnyText, NEW m \in Nat \ {0}, NEW n \in Int, n <= Len(lines)
  PROVE  SubSeq(lines, m, n) \in AnyText
<1>1. \A i \in m..n : lines[i] \in AnyLine
  BY LenProperties, ElementOfSeq DEF AnyText
<1> QED BY <1>1, SubSeqProperties DEF AnyText

LEMMA ReplaceNextIsTyped ==
  ASSUME NEW lines \in AnyText, NEW old \in AnyText, NEW new \in AnyText, NEW done \in Replacing
  PROVE  ReplaceNext(lines, old, new, done) \in Replacing
<1> DEFINE places == {i \in DOMAIN lines : i >= done.next /\ MatchesAt(lines, old, i)}
<1>1. DOMAIN lines = 1..Len(lines) /\ Len(lines) \in Nat /\ Len(old) \in Nat
  BY LenProperties DEF AnyText
<1>2. done.lines \in AnyText /\ done.next \in Nat \ {0} /\ done.count \in Nat
  BY DEF Replacing
<1>3. ASSUME places # {}
      PROVE  [lines |-> done.lines \o SubSeq(lines, done.next, Min(places) - 1) \o new,
              next  |-> Min(places) + Len(old), count |-> done.count + 1] \in Replacing
  <2>1. places \in SUBSET Nat
    BY <1>1
  <2>2. Min(places) \in places
    <3> HIDE DEF places
    <3> QED BY <1>3, <2>1, MinInSet
  <2>3. Min(places) \in 1..Len(lines)
    BY <1>1, <2>2
  <2> DEFINE m == Min(places)
             a == SubSeq(lines, done.next, m - 1)
  <2> HIDE DEF places
  <2>4. a \in AnyText
    BY <1>1, <1>2, <2>3, PartOfText
  <2> HIDE DEF m, a
  <2>5. done.lines \o a \o new \in AnyText
    BY <1>2, <2>4, ConcatProperties DEF AnyText
  <2>6. m + Len(old) \in Nat \ {0}
    BY <1>1, <2>3 DEF m
  <2> QED BY <1>2, <2>5, <2>6 DEF Replacing, m, a
<1> HIDE DEF places
<1>4. ReplaceNext(lines, old, new, done) =
        IF places = {} THEN done
        ELSE [lines |-> done.lines \o SubSeq(lines, done.next, Min(places) - 1) \o new,
              next  |-> Min(places) + Len(old), count |-> done.count + 1]
  BY DEF ReplaceNext, places
<1> QED BY <1>3, <1>4

LEMMA ReplaceSteps ==
  ASSUME NEW lines \in AnyText, NEW old \in AnyText, NEW new \in AnyText, NEW max \in Nat
  PROVE  \E done : Replaces(done, lines, old, new, max)
<1> DEFINE V == Replacing
           start == [lines |-> <<>>, next |-> 1, count |-> 0]
           Step(d) == ReplaceNext(lines, old, new, d)
           done == CHOOSE f : f = [n \in 0..max |-> IF n = 0 THEN start ELSE Step(f[n - 1])]
           step == [x \in V \X (1..max) |-> Step(x[1])]
<1>1. Replace(lines, old, new, max) =
        [lines |-> done[max].lines \o SubSeq(lines, done[max].next, Len(lines)),
         count |-> done[max].count]
  BY DEF Replace, ReplaceNext
<1>2. start \in V
  <2>1. <<>> \in AnyText
    BY EmptySeq DEF AnyText
  <2> QED BY <2>1 DEF Replacing
<1>3. \A d \in V : Step(d) \in V
  BY ReplaceNextIsTyped
<1> HIDE DEF V, Step, start
<1>4. step \in [V \X (1..max) -> V]
  BY <1>3
<1>5. \A d \in V, k \in 1..max : step[<<d, k>>] = Step(d)
  OBVIOUS
<1> HIDE DEF step
<1>6. PICK f : Iterates(f, max, V, start, step)
  BY <1>2, <1>4, Iterated
<1>7. f = [k \in 0..max |-> IF k = 0 THEN start ELSE Step(f[k - 1])]
  <2>1. ASSUME NEW k \in 0..max, k # 0 PROVE step[<<f[k - 1], k>>] = Step(f[k - 1])
    <3>1. k - 1 \in 0..max /\ k \in 1..max
      BY <2>1
    <3>2. f[k - 1] \in V
      BY <1>6, <3>1 DEF Iterates
    <3> QED BY <1>5, <3>1, <3>2
  <2>2. [k \in 0..max |-> IF k = 0 THEN start ELSE step[<<f[k - 1], k>>]]
          = [k \in 0..max |-> IF k = 0 THEN start ELSE Step(f[k - 1])]
    BY <2>1
  <2> QED BY <1>6, <2>2 DEF Iterates
<1>8. done = [k \in 0..max |-> IF k = 0 THEN start ELSE Step(done[k - 1])]
  BY <1>7
<1> HIDE DEF done
<1>9. done[0] = start /\ \A k \in 1..max : done[k] = Step(done[k - 1])
  BY <1>8
<1>10. \A k \in 0..max : done[k] \in V
  <2>1. \A k \in 1..max : done[k - 1] \in V => done[k] \in V
    BY <1>3, <1>9
  <2> QED BY <1>2, <1>9, <2>1, StaysIn
<1> QED BY <1>1, <1>9, <1>10 DEF Replaces, V, Step, start

LEMMA ReplaceIsTyped ==
  ASSUME NEW lines \in AnyText, NEW old \in AnyText, NEW new \in AnyText, NEW max \in Nat
  PROVE  /\ Replace(lines, old, new, max).lines \in AnyText
         /\ Replace(lines, old, new, max).count \in Nat
<1>1. PICK done : Replaces(done, lines, old, new, max)
  BY ReplaceSteps
<1>2. max \in 0..max /\ done[max] \in Replacing
  BY <1>1 DEF Replaces
<1>3. done[max].lines \in AnyText /\ done[max].next \in Nat \ {0} /\ done[max].count \in Nat
  BY <1>2 DEF Replacing
<1>4. SubSeq(lines, done[max].next, Len(lines)) \in AnyText
  <2>1. Len(lines) \in Int /\ Len(lines) <= Len(lines)
    BY LenProperties DEF AnyText
  <2> QED BY <1>3, <2>1, PartOfText
<1>5. done[max].lines \o SubSeq(lines, done[max].next, Len(lines)) \in AnyText
  BY <1>3, <1>4, ConcatProperties DEF AnyText
<1>6. Replace(lines, old, new, max) =
        [lines |-> done[max].lines \o SubSeq(lines, done[max].next, Len(lines)),
         count |-> done[max].count]
  BY <1>1 DEF Replaces
<1> QED BY <1>3, <1>5, <1>6

\* The candidates of a rule; where the block puts text in, so does each of them.
LEMMA CandidatesAreTexts ==
  ASSUME NEW rule \in HackRule
  PROVE  /\ DOMAIN Candidates(rule) \in SUBSET Nat
         /\ \A i \in DOMAIN Candidates(rule) :
              /\ Candidates(rule)[i].old \in AnyText /\ Candidates(rule)[i].new \in AnyText
              /\ Candidates(rule)[i].new = <<>> => rule.new = <<>>
<1> DEFINE strict  == [old |-> rule.old, new |-> rule.new]
           relaxed == [old |-> rule.relaxedOld, new |-> rule.relaxedNew]
<1>1. Candidates(rule) = <<strict>> \/ Candidates(rule) = <<strict, relaxed>>
  BY DEF Candidates
<1>2. /\ strict.old \in AnyText /\ strict.new \in AnyText
      /\ relaxed.old \in AnyText /\ relaxed.new \in AnyText
      /\ strict.new = rule.new
      /\ relaxed.new = <<>> => rule.new = <<>>
  BY DEF HackRule
<1> HIDE DEF strict, relaxed
<1>3. CASE Candidates(rule) = <<strict>>
  <2>1. DOMAIN Candidates(rule) = {1} /\ Candidates(rule)[1] = strict
    BY <1>3
  <2> QED BY <1>2, <2>1
<1>4. CASE Candidates(rule) = <<strict, relaxed>>
  <2>1. DOMAIN Candidates(rule) = {1, 2} /\ Candidates(rule)[1] = strict /\ Candidates(rule)[2] = relaxed
    BY <1>4
  <2> QED BY <1>2, <2>1
<1> QED BY <1>1, <1>3, <1>4

LEMMA TakenIsText ==
  ASSUME NEW rule \in HackRule, NEW lines, Matching(lines, rule) # {}
  PROVE  /\ Taken(lines, rule).old \in AnyText /\ Taken(lines, rule).new \in AnyText
         /\ Taken(lines, rule).new = <<>> => rule.new = <<>>
         /\ Found(lines, Taken(lines, rule).old)
         /\ \E i \in DOMAIN Candidates(rule) : Taken(lines, rule) = Candidates(rule)[i]
<1>1. Matching(lines, rule) \in SUBSET Nat
  BY CandidatesAreTexts DEF Matching
<1>2. Min(Matching(lines, rule)) \in Matching(lines, rule)
  BY <1>1, MinInSet
<1> QED BY <1>2, CandidatesAreTexts DEF Taken, Matching

LEMMA ApplyRuleIsTyped ==
  ASSUME NEW lines \in AnyText, NEW rule \in HackRule
  PROVE  ApplyRule(lines, rule) \in AnyResult
<1> DEFINE delete == rule.new = <<>>
           c      == Taken(lines, rule)
           max    == IF delete THEN Len(lines) ELSE 1
           result == Replace(lines, c.old, c.new, max)
           broken == \E i \in DOMAIN Candidates(rule) : Partial(lines, Candidates(rule)[i].old)
<1>1. Unchanged(lines) \in AnyResult /\ Raise(lines) \in AnyResult
  BY DEF Unchanged, Raise, AnyResult
<1>2. ASSUME Matching(lines, rule) # {}
      PROVE  result.lines \in AnyText /\ result.count \in Nat
  <2>1. max \in Nat
    BY LenProperties DEF AnyText
  <2>2. c.old \in AnyText /\ c.new \in AnyText
    BY <1>2, TakenIsText
  <2> HIDE DEF c, max
  <2> QED BY <2>1, <2>2, ReplaceIsTyped
<1>3. ApplyRule(lines, rule) =
        CASE AlreadyApplied(lines, rule) -> Unchanged(lines)
          [] ~AlreadyApplied(lines, rule) /\ Matching(lines, rule) # {} ->
               [ok |-> ~(delete /\ Partial(result.lines, c.old)),
                lines |-> result.lines, count |-> result.count]
          [] ~AlreadyApplied(lines, rule) /\ Matching(lines, rule) = {} ->
               IF delete /\ ~broken THEN Unchanged(lines) ELSE Raise(lines)
  BY DEF ApplyRule
<1> HIDE DEF delete, result, c, broken
<1>4. (~(delete /\ Partial(result.lines, c.old))) \in BOOLEAN
  OBVIOUS
<1>5. CASE AlreadyApplied(lines, rule)
  BY <1>1, <1>3, <1>5
<1>6. CASE ~AlreadyApplied(lines, rule) /\ Matching(lines, rule) # {}
  <2>1. ApplyRule(lines, rule) = [ok |-> ~(delete /\ Partial(result.lines, c.old)),
                                  lines |-> result.lines, count |-> result.count]
    BY <1>3, <1>6
  <2> QED BY <1>2, <1>4, <1>6, <2>1 DEF AnyResult
<1>7. CASE ~AlreadyApplied(lines, rule) /\ Matching(lines, rule) = {}
  BY <1>1, <1>3, <1>7
<1> QED BY <1>5, <1>6, <1>7

LEMMA ApplyJsonRuleIsTyped ==
  ASSUME NEW lines \in AnyText, NEW rule \in JsonRule
  PROVE  ApplyJsonRule(lines, rule) \in AnyResult
<1> DEFINE max  == IF rule.max = 0 THEN Len(lines) ELSE rule.max
           hits == {i \in DOMAIN lines : lines[i].text = rule.from[1].text
                                         /\ ~(rule.skipInclude /\ lines[i].include)}
           done == {i \in hits : Cardinality({j \in hits : j <= i}) <= max}
           text == Replace(lines, rule.from, rule.to, max)
           new  == [i \in DOMAIN lines |->
                      IF i \in done THEN [lines[i] EXCEPT !.text = rule.to[1].text] ELSE lines[i]]
<1>1. Len(lines) \in Nat /\ DOMAIN lines = 1..Len(lines) /\ \A i \in 1..Len(lines) : lines[i] \in AnyLine
  BY LenProperties DEF AnyText
<1>2. /\ rule.from \in AnyText /\ rule.to \in AnyText /\ max \in Nat
      /\ rule.multiline \in BOOLEAN /\ (~rule.multiline => Len(rule.to) = 1)
  BY <1>1 DEF JsonRule
<1>3. text.lines \in AnyText /\ text.count \in Nat
  <2> HIDE DEF max
  <2> QED BY <1>2, ReplaceIsTyped
<1>4. Cardinality(done) \in Nat
  <2>1. done \subseteq 1..Len(lines) /\ IsFiniteSet(1..Len(lines))
    BY <1>1, FS_Interval
  <2> HIDE DEF done
  <2> QED BY <2>1, FS_Subset, FS_CardinalityType
<1>5. ASSUME ~rule.multiline PROVE new \in AnyText
  <2>1. rule.to[1] \in AnyLine
    <3> HIDE DEF max, hits, done, text, new
    <3>1. Len(rule.to) = 1
      BY <1>2, <1>5
    <3>2. 1 \in 1..Len(rule.to)
      BY <3>1
    <3> QED BY <1>2, <3>2, ElementOfSeq DEF AnyText
  <2>2. rule.to[1].text \in STRING
    BY <2>1 DEF AnyLine
  <2> HIDE DEF done
  <2>3. ASSUME NEW i \in 1..Len(lines) PROVE new[i] \in AnyLine
    BY <1>1, <2>2 DEF AnyLine
  <2>4. new = [i \in 1..Len(lines) |-> new[i]]
    BY <1>1
  <2> HIDE DEF new
  <2>5. new \in [1..Len(lines) -> AnyLine]
    BY <2>3, <2>4
  <2> QED BY <1>1, <2>5, SeqDef DEF AnyText
<1>6. ApplyJsonRule(lines, rule) =
        IF rule.multiline THEN [ok |-> TRUE, lines |-> text.lines, count |-> text.count]
        ELSE [ok |-> TRUE, count |-> Cardinality(done), lines |-> new]
  BY DEF ApplyJsonRule
<1> HIDE DEF max, hits, done, text, new
<1> QED BY <1>2, <1>3, <1>4, <1>5, <1>6 DEF AnyResult

\* The rules of a .hackdiff file, one after the other.
AfterRule(result, rule) == Then(result, ApplyRule, rule)

HackDiffChain(after, lines, rules) ==
  /\ after[0] = Unchanged(lines)
  /\ \A k \in 1..Len(rules) : after[k] = AfterRule(after[k - 1], rules[k])
  /\ \A k \in 0..Len(rules) : after[k] \in AnyResult
  /\ Applied(lines, rules, ApplyRule) = after[Len(rules)]

LEMMA HackDiffChainSteps ==
  ASSUME NEW lines \in AnyText, NEW rules \in Seq(HackRule)
  PROVE  \E after : HackDiffChain(after, lines, rules)
<1> DEFINE n == Len(rules)
           V == AnyResult
           start == Unchanged(lines)
           One(r, k) == IF ~r.ok THEN r
                        ELSE LET next == ApplyRule(r.lines, rules[k])
                             IN  [ok |-> next.ok, lines |-> next.lines,
                                  count |-> r.count + next.count]
           after == CHOOSE f : f = [k \in 0..n |-> IF k = 0 THEN start ELSE One(f[k - 1], k)]
           step == [x \in V \X (1..n) |-> One(x[1], x[2])]
<1>1. Applied(lines, rules, ApplyRule) = after[n]
  BY DEF Applied, Then
<1>2. \A r, k : One(r, k) = AfterRule(r, rules[k])
  BY DEF AfterRule, Then
<1>3. start \in V
  BY DEF Unchanged, AnyResult
<1>4. ASSUME NEW r \in V, NEW k \in 1..n PROVE One(r, k) \in V
  <2>1. rules[k] \in HackRule
    BY ElementOfSeq
  <2>2. r.lines \in AnyText /\ r.count \in Nat
    BY DEF AnyResult
  <2> DEFINE next == ApplyRule(r.lines, rules[k])
  <2>3. next \in AnyResult
    BY <2>1, <2>2, ApplyRuleIsTyped
  <2>4. One(r, k) = r \/ One(r, k) = [ok |-> next.ok, lines |-> next.lines,
                                      count |-> r.count + next.count]
    OBVIOUS
  <2> HIDE DEF next, One
  <2> QED BY <2>2, <2>3, <2>4 DEF AnyResult
<1>5. n \in Nat
  BY LenProperties
<1> HIDE DEF n, V, start, One
<1>6. step \in [V \X (1..n) -> V]
  BY <1>4
<1>7. \A r \in V, k \in 1..n : step[<<r, k>>] = One(r, k)
  OBVIOUS
<1> HIDE DEF step
<1>8. PICK f : Iterates(f, n, V, start, step)
  BY <1>3, <1>5, <1>6, Iterated
<1>9. f = [k \in 0..n |-> IF k = 0 THEN start ELSE One(f[k - 1], k)]
  <2>1. ASSUME NEW k \in 0..n, k # 0 PROVE step[<<f[k - 1], k>>] = One(f[k - 1], k)
    <3>1. k - 1 \in 0..n /\ k \in 1..n
      BY <1>5, <2>1
    <3>2. f[k - 1] \in V
      BY <1>8, <3>1 DEF Iterates
    <3> QED BY <1>7, <3>1, <3>2
  <2>2. [k \in 0..n |-> IF k = 0 THEN start ELSE step[<<f[k - 1], k>>]]
          = [k \in 0..n |-> IF k = 0 THEN start ELSE One(f[k - 1], k)]
    BY <2>1
  <2> QED BY <1>8, <2>2 DEF Iterates
<1>10. after = [k \in 0..n |-> IF k = 0 THEN start ELSE One(after[k - 1], k)]
  BY <1>9
<1> HIDE DEF after
<1>11. after[0] = start /\ \A k \in 1..n : after[k] = One(after[k - 1], k)
  BY <1>5, <1>10
<1>12. \A k \in 0..n : after[k] \in V
  <2>1. \A k \in 1..n : after[k - 1] \in V => after[k] \in V
    BY <1>4, <1>11
  <2> QED BY <1>3, <1>5, <1>11, <2>1, StaysIn
<1> QED BY <1>1, <1>2, <1>11, <1>12 DEF HackDiffChain, n, V, start

\* The rules of a JSON file, one after the other.
AfterJsonRule(result, rule) == Then(result, ApplyJsonRule, rule)

JsonChain(after, lines, rules) ==
  /\ after[0] = Unchanged(lines)
  /\ \A k \in 1..Len(rules) : after[k] = AfterJsonRule(after[k - 1], rules[k])
  /\ \A k \in 0..Len(rules) : after[k] \in AnyResult
  /\ Applied(lines, rules, ApplyJsonRule) = after[Len(rules)]

LEMMA JsonChainSteps ==
  ASSUME NEW lines \in AnyText, NEW rules \in Seq(JsonRule)
  PROVE  \E after : JsonChain(after, lines, rules)
<1> DEFINE n == Len(rules)
           V == AnyResult
           start == Unchanged(lines)
           One(r, k) == IF ~r.ok THEN r
                        ELSE LET next == ApplyJsonRule(r.lines, rules[k])
                             IN  [ok |-> next.ok, lines |-> next.lines,
                                  count |-> r.count + next.count]
           after == CHOOSE f : f = [k \in 0..n |-> IF k = 0 THEN start ELSE One(f[k - 1], k)]
           step == [x \in V \X (1..n) |-> One(x[1], x[2])]
<1>1. Applied(lines, rules, ApplyJsonRule) = after[n]
  BY DEF Applied, Then
<1>2. \A r, k : One(r, k) = AfterJsonRule(r, rules[k])
  BY DEF AfterJsonRule, Then
<1>3. start \in V
  BY DEF Unchanged, AnyResult
<1>4. ASSUME NEW r \in V, NEW k \in 1..n PROVE One(r, k) \in V
  <2>1. rules[k] \in JsonRule
    BY ElementOfSeq
  <2>2. r.lines \in AnyText /\ r.count \in Nat
    BY DEF AnyResult
  <2> DEFINE next == ApplyJsonRule(r.lines, rules[k])
  <2>3. next \in AnyResult
    BY <2>1, <2>2, ApplyJsonRuleIsTyped
  <2>4. One(r, k) = r \/ One(r, k) = [ok |-> next.ok, lines |-> next.lines,
                                      count |-> r.count + next.count]
    OBVIOUS
  <2> HIDE DEF next, One
  <2> QED BY <2>2, <2>3, <2>4 DEF AnyResult
<1>5. n \in Nat
  BY LenProperties
<1> HIDE DEF n, V, start, One
<1>6. step \in [V \X (1..n) -> V]
  BY <1>4
<1>7. \A r \in V, k \in 1..n : step[<<r, k>>] = One(r, k)
  OBVIOUS
<1> HIDE DEF step
<1>8. PICK f : Iterates(f, n, V, start, step)
  BY <1>3, <1>5, <1>6, Iterated
<1>9. f = [k \in 0..n |-> IF k = 0 THEN start ELSE One(f[k - 1], k)]
  <2>1. ASSUME NEW k \in 0..n, k # 0 PROVE step[<<f[k - 1], k>>] = One(f[k - 1], k)
    <3>1. k - 1 \in 0..n /\ k \in 1..n
      BY <1>5, <2>1
    <3>2. f[k - 1] \in V
      BY <1>8, <3>1 DEF Iterates
    <3> QED BY <1>7, <3>1, <3>2
  <2>2. [k \in 0..n |-> IF k = 0 THEN start ELSE step[<<f[k - 1], k>>]]
          = [k \in 0..n |-> IF k = 0 THEN start ELSE One(f[k - 1], k)]
    BY <2>1
  <2> QED BY <1>8, <2>2 DEF Iterates
<1>10. after = [k \in 0..n |-> IF k = 0 THEN start ELSE One(after[k - 1], k)]
  BY <1>9
<1> HIDE DEF after
<1>11. after[0] = start /\ \A k \in 1..n : after[k] = One(after[k - 1], k)
  BY <1>5, <1>10
<1>12. \A k \in 0..n : after[k] \in V
  <2>1. \A k \in 1..n : after[k - 1] \in V => after[k] \in V
    BY <1>4, <1>11
  <2> QED BY <1>3, <1>5, <1>11, <2>1, StaysIn
<1> QED BY <1>1, <1>2, <1>11, <1>12 DEF JsonChain, n, V, start

\* Whatever the rule file, what it makes of a text is a text.
LEMMA ApplyRuleFileIsTyped ==
  ASSUME NEW lines \in AnyText, NEW file, IsRuleFile(file)
  PROVE  ApplyRuleFile(lines, file) \in AnyResult
<1>1. Raise(lines) \in AnyResult
  BY DEF Raise, AnyResult
<1>2. CASE file.suffix = ".hackdiff"
  <2>1. file.blocks \in Seq(Seq(SignedLine))
    BY <1>2 DEF IsRuleFile, SignedLine
  <2>2. Rules(file.blocks) \in Seq(HackRule)
    BY <2>1, RulesAreRules
  <2> DEFINE rules == Rules(file.blocks)
  <2>3. PICK after : HackDiffChain(after, lines, rules)
    BY <2>2, HackDiffChainSteps
  <2>4. Len(rules) \in 0..Len(rules)
    BY <2>2, LenProperties
  <2>5. Applied(lines, rules, ApplyRule) \in AnyResult
    BY <2>3, <2>4 DEF HackDiffChain
  <2>6. ApplyRuleFile(lines, file) = IF Loads(file.blocks) THEN Applied(lines, rules, ApplyRule)
                                     ELSE Raise(lines)
    BY <1>2 DEF ApplyRuleFile, ApplyHackDiffRules
  <2> HIDE DEF rules
  <2> QED BY <1>1, <2>5, <2>6
<1>3. CASE file.suffix = ".json"
  <2>1. file.rules \in Seq(JsonRule)
    BY <1>3 DEF IsRuleFile
  <2> DEFINE rules == file.rules
  <2>2. PICK after : JsonChain(after, lines, rules)
    BY <2>1, JsonChainSteps
  <2>3. Len(rules) \in 0..Len(rules)
    BY <2>1, LenProperties
  <2>4. Applied(lines, rules, ApplyJsonRule) \in AnyResult
    BY <2>2, <2>3 DEF JsonChain
  <2>5. file.suffix # ".hackdiff"
    BY <1>3
  <2> QED BY <1>3, <2>4, <2>5 DEF ApplyRuleFile
<1>4. CASE file.suffix # ".hackdiff" /\ file.suffix # ".json"
  BY <1>1, <1>4 DEF ApplyRuleFile
<1> QED BY <1>2, <1>3, <1>4
-----------------------------------------------------------------------------
(***************************************************************************)
(* Types: every target is a text, and there are no more reports than runs: *)
(* the current run will give one more.                                     *)
(***************************************************************************)
AreTexts(t) == \A p \in DOMAIN t : t[p] \in AnyText

ActiveRunOK ==
  run.active => /\ run.selected \subseteq Paths /\ run.selected \subseteq DOMAIN tree
                /\ AreTexts(run.start)
                /\ run.total \in Nat

\* A run that is done had all of its targets.
ReportsOK ==
  /\ IsFiniteSet(reports)
  /\ Cardinality(reports) + (IF run.active THEN 1 ELSE 0) <= runs
  /\ \A r \in reports : /\ AreTexts(r.start)
                        /\ r.outcome = "done" => r.selected \subseteq DOMAIN r.start

TextsInv ==
  /\ head \in Trees
  /\ DOMAIN tree = DOMAIN head /\ AreTexts(tree)
  /\ ActiveRunOK
  /\ runs \in 0..MaxRuns
  /\ ReportsOK

\* A report of a run that has ended, whether it was active or could not start.
LEMMA ReportIsTyped ==
  ASSUME ReportsOK, NEW r, NEW outcome, NEW torn, AreTexts(r.start),
         outcome = "done" => r.selected \subseteq DOMAIN r.start,
         runs' \in Nat, runs \in Nat, run.active \in BOOLEAN, ~run'.active,
         runs' + (IF run.active THEN 1 ELSE 0) = runs + 1,
         reports' = reports \cup {Report(r, outcome, torn)}
  PROVE  ReportsOK'
<1> DEFINE x == Report(r, outcome, torn)
           new == reports \cup {x}
<1>1. x.start = r.start /\ x.selected = r.selected /\ x.outcome = outcome
  BY DEF Report
<1> HIDE DEF x
<1>2. IsFiniteSet(reports) /\ Cardinality(reports) \in Nat
  BY FS_CardinalityType DEF ReportsOK
<1>3. IsFiniteSet(new) /\ Cardinality(new) \in Nat /\ Cardinality(new) <= Cardinality(reports) + 1
  <2>1. /\ IsFiniteSet(new)
        /\ Cardinality(new) = IF x \in reports THEN Cardinality(reports) ELSE Cardinality(reports) + 1
    BY <1>2, FS_AddElement
  <2> HIDE DEF new
  <2> QED BY <1>2, <2>1
<1> DEFINE one == IF run.active THEN 1 ELSE 0
<1>4. one \in 0..1 /\ Cardinality(reports) + one <= runs /\ runs' + one = runs + 1
  <2>1. one \in 0..1
    OBVIOUS
  <2>2. Cardinality(reports) + one <= runs
    BY DEF ReportsOK
  <2>3. runs' + one = runs + 1
    OBVIOUS
  <2> QED BY <2>1, <2>2, <2>3
<1> HIDE DEF new, one
<1>5. Cardinality(new) <= runs'
  <2>1. runs \in Nat /\ runs' \in Nat
    OBVIOUS
  <2>2. \A a, b, c, d, e \in Nat : a + c <= d /\ e + c = d + 1 /\ b <= a + 1 => b <= e
    OBVIOUS
  <2>3. one \in Nat
    BY <1>4
  <2> QED BY <1>2, <1>3, <1>4, <2>1, <2>2, <2>3
<1>6. reports' = new
  BY DEF x, new
<1>7. Cardinality(reports') + (IF run'.active THEN 1 ELSE 0) <= runs'
  <2>1. (IF run'.active THEN 1 ELSE 0) = 0
    OBVIOUS
  <2> QED BY <1>3, <1>5, <1>6, <2>1
<1>8. ASSUME NEW q \in reports'
      PROVE  AreTexts(q.start) /\ (q.outcome = "done" => q.selected \subseteq DOMAIN q.start)
  <2>1. q \in reports \/ q = x
    BY <1>6 DEF new
  <2> QED BY <1>1, <2>1 DEF ReportsOK
<1> QED BY <1>3, <1>6, <1>7, <1>8 DEF ReportsOK, AreTexts

LEMMA TextsStart ==
  ASSUME ReplayInv, TextsInv, NEW selected \in SUBSET Paths, NEW dry \in BOOLEAN,
         Start(selected, dry)
  PROVE  TextsInv'
<1>1. /\ run' = [active |-> TRUE, dry |-> dry, selected |-> selected, start |-> tree,
                 total |-> 0, done |-> 0]
      /\ ~run.active /\ runs < MaxRuns /\ runs' = runs + 1 /\ selected \subseteq DOMAIN tree
      /\ UNCHANGED <<mapping, head, tree, reports>>
  BY DEF Start
<1>2. run'.active /\ run'.selected = selected /\ run'.start = tree /\ run'.total = 0
  BY <1>1
<1>3. ActiveRunOK'
  BY <1>1, <1>2 DEF TextsInv, ActiveRunOK, Paths, AreTexts
<1>4. runs' \in 0..MaxRuns
  BY <1>1, MaxRunsAssumption DEF TextsInv
<1>5. ReportsOK'
  <2>1. IsFiniteSet(reports) /\ Cardinality(reports) \in Nat
    BY FS_CardinalityType DEF TextsInv, ReportsOK
  <2>2. Cardinality(reports) <= runs
    <3>1. Cardinality(reports) + (IF run.active THEN 1 ELSE 0) <= runs
      BY DEF TextsInv, ReportsOK
    <3>2. (IF run.active THEN 1 ELSE 0) = 0
      BY <1>1
    <3> QED BY <2>1, <3>1, <3>2
  <2>3. Cardinality(reports') + (IF run'.active THEN 1 ELSE 0) <= runs'
    <3>1. (IF run'.active THEN 1 ELSE 0) = 1 /\ Cardinality(reports') = Cardinality(reports)
      BY <1>1, <1>2
    <3>2. runs \in Nat
      BY MaxRunsAssumption DEF TextsInv
    <3> QED BY <1>1, <2>1, <2>2, <3>1, <3>2
  <2> QED BY <1>1, <2>1, <2>3 DEF TextsInv, ReportsOK, AreTexts
<1> QED BY <1>1, <1>3, <1>4, <1>5 DEF TextsInv, AreTexts

LEMMA TextsStartWithoutTarget ==
  ASSUME ReplayInv, TextsInv, NEW selected, NEW dry \in BOOLEAN, StartWithoutTarget(selected, dry)
  PROVE  TextsInv'
<1> DEFINE r == [dry |-> dry, selected |-> selected, start |-> tree, total |-> 0]
<1>1. /\ ~run.active /\ runs < MaxRuns /\ runs' = runs + 1
      /\ UNCHANGED <<mapping, head, tree, run, todo>>
      /\ reports' = reports \cup {Report(r, "failed", {})}
  BY DEF StartWithoutTarget
<1>2. AreTexts(r.start) /\ "failed" # "done"
  BY DEF TextsInv
<1> HIDE DEF r
<1>3. runs \in Nat /\ runs' \in 0..MaxRuns /\ runs' \in Nat
  BY <1>1, MaxRunsAssumption DEF TextsInv
<1>4. runs' + (IF run.active THEN 1 ELSE 0) = runs + 1 /\ ~run'.active /\ run.active \in BOOLEAN
  BY <1>1, <1>3 DEF ReplayInv, RunOK
<1>5. ReportsOK'
  BY <1>1, <1>2, <1>3, <1>4, ReportIsTyped DEF TextsInv
<1>6. ActiveRunOK'
  BY <1>4 DEF ActiveRunOK
<1> QED BY <1>1, <1>3, <1>5, <1>6 DEF TextsInv, AreTexts

\* A run that ends, done, failed or interrupted.
LEMMA TextsEnd ==
  ASSUME ReplayInv, TextsInv, run.active, NEW outcome, NEW torn, run' = NoRun,
         UNCHANGED <<mapping, head, runs>>, DOMAIN tree' = DOMAIN tree, AreTexts(tree'),
         reports' = reports \cup {Report(run, outcome, torn)}
  PROVE  TextsInv'
<1>1. run.active = TRUE /\ DOMAIN run.start = DOMAIN tree
  BY DEF ReplayInv, RunOK
<1>2. AreTexts(run.start) /\ run.selected \subseteq DOMAIN run.start
  BY <1>1 DEF TextsInv, ActiveRunOK
<1>3. ~run'.active
  BY DEF NoRun
<1>4. runs \in Nat /\ runs' \in Nat /\ runs' + (IF run.active THEN 1 ELSE 0) = runs + 1
  BY <1>1, MaxRunsAssumption DEF TextsInv
<1>5. ReportsOK'
  BY <1>1, <1>2, <1>3, <1>4, ReportIsTyped DEF TextsInv
<1>6. ActiveRunOK'
  BY <1>3 DEF ActiveRunOK
<1> QED BY <1>5, <1>6 DEF TextsInv, AreTexts

\* What the next rule file makes of its target is a text.
LEMMA ResultIsTyped ==
  ASSUME ReplayInv, TextsInv, run.active, todo # <<>>
  PROVE  Head(todo).path \in DOMAIN tree /\ Result \in AnyResult
<1> DEFINE path == Head(todo).path
           file == Head(todo).file
<1>1. todo \in Seq(WorkOf(run.selected))
  BY DEF ReplayInv, RunOK
<1>2. Head(todo) \in WorkOf(run.selected)
  BY <1>1, HeadTailProperties
<1>3. path \in run.selected /\ file \in RuleFiles
  BY <1>2 DEF WorkOf
<1>4. path \in DOMAIN tree /\ tree[path] \in AnyText
  BY <1>3 DEF TextsInv, ActiveRunOK, AreTexts
<1>5. IsRuleFile(file)
  BY <1>3, MappingsAssumption DEF RuleFiles, ReplayInv
<1> QED BY <1>4, <1>5, ApplyRuleFileIsTyped DEF Result

LEMMA TextsApply ==
  ASSUME ReplayInv, TextsInv, Apply
  PROVE  TextsInv'
<1> DEFINE path == Head(todo).path
<1>1. /\ run.active = TRUE /\ todo # <<>>
      /\ run = [active |-> TRUE, dry |-> run.dry, selected |-> run.selected,
                start |-> run.start, total |-> run.total, done |-> run.done]
  BY DEF Apply, ReplayInv, RunOK
<1>2. /\ run' = [active |-> TRUE, dry |-> run.dry, selected |-> run.selected,
                 start |-> run.start, total |-> run.total + Result.count,
                 done |-> run.done + 1]
      /\ UNCHANGED <<mapping, head, runs, reports>>
      /\ tree' = IF run.dry THEN tree ELSE [tree EXCEPT ![path] = Result.lines]
  BY <1>1 DEF Apply
<1>3. path \in DOMAIN tree /\ Result \in AnyResult
  BY <1>1, ResultIsTyped
<1>4. run.selected \subseteq Paths /\ run.selected \subseteq DOMAIN tree /\ AreTexts(run.start)
      /\ run.total \in Nat
  BY <1>1 DEF TextsInv, ActiveRunOK
<1>5. Result.lines \in AnyText /\ Result.count \in Nat
  BY <1>3 DEF AnyResult
<1>6. DOMAIN tree' = DOMAIN tree /\ AreTexts(tree')
  <2>1. ASSUME NEW p \in DOMAIN tree PROVE tree'[p] \in AnyText
    BY <1>2, <1>3, <1>5 DEF TextsInv, AreTexts
  <2> QED BY <1>2, <2>1 DEF AreTexts
<1>7. run'.active = TRUE /\ run'.selected = run.selected /\ run'.start = run.start
      /\ run'.total = run.total + Result.count
  BY <1>2
<1> HIDE DEF path
<1>8. ActiveRunOK'
  BY <1>2, <1>4, <1>5, <1>6, <1>7 DEF ActiveRunOK, Paths, AreTexts
<1>9. ReportsOK'
  BY <1>1, <1>2, <1>7 DEF TextsInv, ReportsOK, AreTexts
<1> QED BY <1>2, <1>6, <1>8, <1>9 DEF TextsInv, AreTexts

\* A part of a text is a text.
LEMMA TextsInterruptedWriting ==
  ASSUME ReplayInv, TextsInv, InterruptedWriting
  PROVE  TextsInv'
<1> DEFINE path == Head(todo).path
<1>1. /\ run.active /\ todo # <<>> /\ run' = NoRun
      /\ UNCHANGED <<mapping, head, runs>>
      /\ reports' = reports \cup {Report(run, "interrupted", {path})}
  BY DEF InterruptedWriting, ReplayInv, RunOK
<1>2. PICK n \in 0..Len(Result.lines) - 1 : tree' = [tree EXCEPT ![path] = SubSeq(Result.lines, 1, n)]
  BY DEF InterruptedWriting
<1>3. path \in DOMAIN tree /\ Result \in AnyResult
  BY <1>1, ResultIsTyped
<1>4. Result.lines \in AnyText
  BY <1>3 DEF AnyResult
<1>5. SubSeq(Result.lines, 1, n) \in AnyText
  <2>1. Len(Result.lines) \in Nat
    BY <1>4, LenProperties DEF AnyText
  <2> QED BY <1>2, <1>4, <2>1, PartOfText
<1>6. DOMAIN tree' = DOMAIN tree /\ AreTexts(tree')
  <2>1. ASSUME NEW p \in DOMAIN tree PROVE tree'[p] \in AnyText
    BY <1>2, <1>3, <1>5 DEF TextsInv, AreTexts
  <2> QED BY <1>2, <2>1 DEF AreTexts
<1> QED BY <1>1, <1>6, TextsEnd

LEMMA TextsRestore ==
  ASSUME ReplayInv, TextsInv, Restore
  PROVE  TextsInv'
<1>1. ~run.active /\ tree' = head /\ UNCHANGED <<mapping, head, run, runs, reports>>
  BY DEF Restore
<1>2. DOMAIN tree' = DOMAIN tree /\ AreTexts(tree')
  BY <1>1, TreesAssumption DEF TextsInv, AreTexts
<1>3. ReportsOK'
  BY <1>1 DEF TextsInv, ReportsOK, AreTexts
<1>4. ActiveRunOK'
  BY <1>1 DEF ActiveRunOK
<1> QED BY <1>1, <1>2, <1>3, <1>4 DEF TextsInv, AreTexts

LEMMA TextsStuttering ==
  ASSUME TextsInv, UNCHANGED vars
  PROVE  TextsInv'
BY DEF vars, TextsInv, ActiveRunOK, ReportsOK, AreTexts, Paths

LEMMA TextsNext ==
  ASSUME ReplayInv, TextsInv, [Next]_vars
  PROVE  TextsInv'
<1>1. CASE \E selected \in SUBSET Paths, dry \in BOOLEAN :
             Start(selected, dry) \/ StartWithoutTarget(selected, dry)
  BY <1>1, TextsStart, TextsStartWithoutTarget
<1>2. CASE Apply
  BY <1>2, TextsApply
<1>3. CASE Raises \/ Ends \/ Interrupted
  <2>1. run.active /\ run' = NoRun /\ UNCHANGED <<mapping, head, tree, runs>>
    BY <1>3 DEF Raises, Ends, Interrupted, ReplayInv, RunOK
  <2>2. \E outcome : reports' = reports \cup {Report(run, outcome, {})}
    BY <1>3 DEF Raises, Ends, Interrupted
  <2>3. DOMAIN tree' = DOMAIN tree /\ AreTexts(tree')
    BY <2>1 DEF TextsInv, AreTexts
  <2> QED BY <2>1, <2>2, <2>3, TextsEnd
<1>4. CASE InterruptedWriting
  BY <1>4, TextsInterruptedWriting
<1>5. CASE Restore
  BY <1>5, TextsRestore
<1>6. CASE UNCHANGED vars
  BY <1>6, TextsStuttering
<1> QED BY <1>1, <1>2, <1>3, <1>4, <1>5, <1>6 DEF Next

THEOREM TextsInvariant == Spec => [](ReplayInv /\ TextsInv)
<1>1. Init => TextsInv
  <2> SUFFICES ASSUME Init PROVE TextsInv
    OBVIOUS
  <2>1. IsFiniteSet(reports) /\ Cardinality(reports) = 0
    BY FS_EmptySet DEF Init
  <2>2. ~run.active /\ runs = 0
    BY DEF Init, NoRun
  <2>3. ReportsOK
    BY <2>1, <2>2 DEF Init, ReportsOK
  <2> QED BY <2>2, <2>3, TreesAssumption, MaxRunsAssumption DEF Init, TextsInv, ActiveRunOK, AreTexts
<1>2. ReplayInv /\ TextsInv /\ [Next]_vars => TextsInv'
  BY TextsNext
<1> QED BY <1>1, <1>2, ReplayInvariant, PTL DEF Spec

\* Type correctness: what is left to do belongs to the targets of the run, and
\* there are no more reports than runs were started.
THEOREM HackRulesTypeCorrect == Spec => []TypeOK
<1>1. ReplayInv /\ TextsInv => TypeOK
  <2> SUFFICES ASSUME ReplayInv, TextsInv PROVE TypeOK
    OBVIOUS
  <2>1. todo # <<>> => run.active
    BY DEF ReplayInv, RunOK
  <2>2. ASSUME run.active, NEW i \in DOMAIN todo PROVE todo[i].path \in run.selected
    <3>1. todo \in Seq(WorkOf(run.selected))
      BY <2>2 DEF ReplayInv, RunOK
    <3>2. todo[i] \in WorkOf(run.selected)
      BY <2>2, <3>1
    <3> QED BY <3>2 DEF WorkOf
  <2>3. Cardinality(reports) <= runs
    <3>1. Cardinality(reports) \in Nat /\ runs \in Nat
      BY FS_CardinalityType, MaxRunsAssumption DEF TextsInv, ReportsOK
    <3>2. Cardinality(reports) + (IF run.active THEN 1 ELSE 0) <= runs
      BY DEF TextsInv, ReportsOK
    <3> QED BY <3>1, <3>2
  <2>4. run.active => run.dry \in BOOLEAN
    BY DEF ReplayInv, RunOK
  <2> QED BY <2>1, <2>2, <2>3, <2>4 DEF TypeOK, TextsInv, ActiveRunOK, ReplayInv
<1> QED BY <1>1, TextsInvariant, PTL
-----------------------------------------------------------------------------
(***************************************************************************)
(* What the last block of a target leaves: the text it puts in is there.   *)
(***************************************************************************)
LEMMA FoundInside ==
  ASSUME NEW a \in AnyText, NEW b \in AnyText, b # <<>>, NEW c \in AnyText
  PROVE  Found((a \o b) \o c, b)
<1> DEFINE t == (a \o b) \o c
           m == Len(a) + 1
           n == Len(a) + Len(b)
<1>1. Len(a) \in Nat /\ Len(b) \in Nat /\ Len(b) # 0 /\ Len(c) \in Nat
  BY LenProperties, EmptySeq DEF AnyText
<1>2. /\ a \o b \in Seq(AnyLine) /\ Len(a \o b) = n
      /\ \A i \in 1..n : (a \o b)[i] = IF i <= Len(a) THEN a[i] ELSE b[i - Len(a)]
  BY ConcatProperties DEF AnyText
<1>3. /\ t \in Seq(AnyLine) /\ Len(t) = n + Len(c)
      /\ \A i \in 1..n + Len(c) : t[i] = IF i <= n THEN (a \o b)[i] ELSE c[i - n]
  <2> DEFINE ab == a \o b
  <2>1. ab \in Seq(AnyLine) /\ Len(ab) = n /\ c \in Seq(AnyLine) /\ t = ab \o c
    BY <1>2 DEF AnyText
  <2> HIDE DEF ab, t, m, n
  <2>2. /\ ab \o c \in Seq(AnyLine) /\ Len(ab \o c) = Len(ab) + Len(c)
        /\ \A i \in 1..Len(ab) + Len(c) : (ab \o c)[i] = IF i <= Len(ab) THEN ab[i] ELSE c[i - Len(ab)]
    <3> DEFINE S == AnyLine
    <3>1. ab \in Seq(S) /\ c \in Seq(S)
      BY <2>1
    <3> HIDE DEF S
    <3>2. /\ ab \o c \in Seq(S) /\ Len(ab \o c) = Len(ab) + Len(c)
          /\ \A i \in 1..Len(ab) + Len(c) : (ab \o c)[i] = IF i <= Len(ab) THEN ab[i] ELSE c[i - Len(ab)]
      BY <3>1, ConcatProperties
    <3> QED BY <3>2 DEF S
  <2> QED BY <2>1, <2>2 DEF ab
<1>4. \A i \in m..n : t[i] = b[i - Len(a)]
  <2> HIDE DEF t
  <2> QED BY <1>1, <1>2, <1>3
<1> HIDE DEF t
<1>5. \A i \in m..n : t[i] \in AnyLine
  BY <1>1, <1>3, ElementOfSeq
<1> DEFINE q == SubSeq(t, m, n)
<1>6. /\ q \in Seq(AnyLine) /\ Len(q) = Len(b)
      /\ \A i \in 1..Len(b) : q[i] = t[m + i - 1]
  BY <1>1, <1>5, SubSeqProperties
<1>7. \A i \in 1..Len(b) : q[i] = b[i]
  <2> HIDE DEF q
  <2> QED BY <1>1, <1>4, <1>6
<1>8. q = b
  <2> HIDE DEF q
  <2> QED BY <1>6, <1>7, SeqEqual DEF AnyText
<1>9. m \in DOMAIN t /\ m + Len(b) - 1 = n /\ n <= Len(t)
  BY <1>1, <1>3, LenProperties
<1> HIDE DEF m, n
<1>10. MatchesAt(t, b, m)
  BY <1>8, <1>9 DEF MatchesAt
<1> QED BY <1>9, <1>10 DEF Found, t

\* A text that is found is replaced.
LEMMA ReplacedIsFound ==
  ASSUME NEW lines \in AnyText, NEW old \in AnyText, Found(lines, old),
         NEW new \in AnyText, new # <<>>
  PROVE  Found(Replace(lines, old, new, 1).lines, new)
<1>1. PICK done : Replaces(done, lines, old, new, 1)
  BY ReplaceSteps
<1> DEFINE start == [lines |-> <<>>, next |-> 1, count |-> 0]
           places == {i \in DOMAIN lines : i >= start.next /\ MatchesAt(lines, old, i)}
           a == <<>> \o SubSeq(lines, 1, Min(places) - 1)
           c == SubSeq(lines, done[1].next, Len(lines))
<1>2. DOMAIN lines = 1..Len(lines) /\ Len(lines) \in Nat
  BY LenProperties DEF AnyText
<1>3. places \in SUBSET Nat /\ places # {}
  BY <1>2 DEF Found
<1>4. Min(places) \in places
  <2> HIDE DEF places
  <2> QED BY <1>3, MinInSet
<1>5. Min(places) - 1 \in Int /\ Min(places) - 1 <= Len(lines)
  BY <1>2, <1>4
<1>6. done[0] = start /\ done[1] = ReplaceNext(lines, old, new, done[0]) /\ done[1] \in Replacing
  BY <1>1 DEF Replaces
<1>7. ReplaceNext(lines, old, new, start) =
        [lines |-> start.lines \o SubSeq(lines, start.next, Min(places) - 1) \o new,
         next  |-> Min(places) + Len(old), count |-> start.count + 1]
  <2> HIDE DEF start
  <2>1. places # {}
    BY <1>3 DEF start
  <2> QED BY <2>1 DEF ReplaceNext
<1> HIDE DEF places
<1>8. done[1].lines = a \o new
  <2>1. start.lines = <<>> /\ start.next = 1
    OBVIOUS
  <2> HIDE DEF start
  <2> DEFINE text == start.lines \o SubSeq(lines, start.next, Min(places) - 1) \o new
             next == Min(places) + Len(old)
             count == start.count + 1
  <2>2. done[1] = [lines |-> text, next |-> next, count |-> count]
    BY <1>6, <1>7
  <2> HIDE DEF text, next, count
  <2>3. done[1].lines = text
    BY <2>2
  <2>4. done[1].lines = start.lines \o SubSeq(lines, start.next, Min(places) - 1) \o new
    BY <2>3 DEF text
  <2> QED BY <2>1, <2>4
<1>9. a \in AnyText
  <2>1. SubSeq(lines, 1, Min(places) - 1) \in AnyText
    BY <1>5, PartOfText
  <2>2. <<>> \in AnyText
    BY EmptySeq DEF AnyText
  <2> QED BY <2>1, <2>2, ConcatProperties DEF AnyText
<1>10. c \in AnyText
  <2>1. done[1].next \in Nat \ {0}
    BY <1>6 DEF Replacing
  <2> QED BY <1>2, <2>1, PartOfText
<1>11. Replace(lines, old, new, 1).lines = (a \o new) \o c
  <2>1. Replace(lines, old, new, 1) =
          [lines |-> done[1].lines \o SubSeq(lines, done[1].next, Len(lines)),
           count |-> done[1].count]
    BY <1>1 DEF Replaces
  <2> DEFINE text == done[1].lines \o SubSeq(lines, done[1].next, Len(lines))
             r == Replace(lines, old, new, 1)
  <2>2. r = [lines |-> text, count |-> done[1].count]
    BY <2>1
  <2> HIDE DEF text, r
  <2>3. r.lines = text
    BY <2>2
  <2>4. Replace(lines, old, new, 1).lines = done[1].lines \o c
    BY <2>3 DEF text, r
  <2> HIDE DEF a, c
  <2> QED BY <1>8, <2>4
<1> HIDE DEF a, c
<1> QED BY <1>9, <1>10, <1>11, FoundInside

\* A block that puts text in and does not raise leaves it there.
LEMMA RuleLeavesItsText ==
  ASSUME NEW lines \in AnyText, NEW rule \in HackRule, rule.new # <<>>,
         ApplyRule(lines, rule).ok
  PROVE  \E i \in DOMAIN Candidates(rule) :
            Found(ApplyRule(lines, rule).lines, Candidates(rule)[i].new)
<1>1. CASE AlreadyApplied(lines, rule)
  <2> DEFINE forms == Candidates(rule)
             seen  == {i \in DOMAIN forms :
                         /\ forms[i].new # <<>>
                         /\ Found(lines, forms[i].old) \/ Found(lines, forms[i].new)}
  <2>1. seen # {} /\ ~Found(lines, forms[Min(seen)].old)
    BY <1>1 DEF AlreadyApplied
  <2>2. seen \in SUBSET Nat
    BY CandidatesAreTexts
  <2>3. Min(seen) \in seen
    <3> HIDE DEF seen
    <3> QED BY <2>1, <2>2, MinInSet
  <2>4. Min(seen) \in DOMAIN forms /\ Found(lines, forms[Min(seen)].new)
    <3> DEFINE i == Min(seen)
    <3>1. i \in seen /\ ~Found(lines, forms[i].old)
      BY <2>1, <2>3
    <3> HIDE DEF i
    <3>2. i \in DOMAIN forms /\ Found(lines, forms[i].new)
      BY <3>1
    <3> QED BY <3>2 DEF i
  <2>5. ApplyRule(lines, rule) = Unchanged(lines)
    BY <1>1 DEF ApplyRule
  <2>6. ApplyRule(lines, rule).lines = lines
    BY <2>5 DEF Unchanged
  <2> HIDE DEF seen
  <2> QED BY <2>4, <2>6
<1>2. CASE ~AlreadyApplied(lines, rule) /\ Matching(lines, rule) # {}
  <2> DEFINE c == Taken(lines, rule)
             result == Replace(lines, c.old, c.new, 1)
  <2>1. PICK i \in DOMAIN Candidates(rule) : c = Candidates(rule)[i]
    BY <1>2, TakenIsText
  <2>2. c.old \in AnyText /\ c.new \in AnyText /\ c.new # <<>> /\ Found(lines, c.old)
    BY <1>2, TakenIsText
  <2>3. ApplyRule(lines, rule).lines = result.lines
    <3>1. ApplyRule(lines, rule) =
            [ok |-> ~(rule.new = <<>> /\ Partial(result.lines, c.old)),
             lines |-> result.lines, count |-> result.count]
      BY <1>2 DEF ApplyRule
    <3> HIDE DEF result
    <3> QED BY <3>1
  <2> HIDE DEF c
  <2>4. Found(result.lines, c.new)
    BY <2>2, ReplacedIsFound
  <2> QED BY <2>1, <2>3, <2>4
<1>3. CASE ~AlreadyApplied(lines, rule) /\ Matching(lines, rule) = {}
  <2>1. ApplyRule(lines, rule) = Raise(lines)
    BY <1>3 DEF ApplyRule
  <2> QED BY <2>1 DEF Raise
<1> QED BY <1>1, <1>2, <1>3

\* So does a .hackdiff file with the text of its last block.
LEMMA FileLeavesItsText ==
  ASSUME NEW lines \in AnyText, NEW file, IsRuleFile(file), file.suffix = ".hackdiff",
         ApplyRuleFile(lines, file).ok, Last(Rules(file.blocks)).new # <<>>
  PROVE  \E i \in DOMAIN Candidates(Last(Rules(file.blocks))) :
            Found(ApplyRuleFile(lines, file).lines, Candidates(Last(Rules(file.blocks)))[i].new)
<1> DEFINE rules == Rules(file.blocks)
           n == Len(rules)
<1>1. rules \in Seq(HackRule)
  <2>1. file.blocks \in Seq(Seq(SignedLine))
    BY DEF IsRuleFile, SignedLine
  <2> QED BY <2>1, RulesAreRules
<1>2. Loads(file.blocks) /\ ApplyRuleFile(lines, file) = Applied(lines, rules, ApplyRule)
  BY DEF ApplyRuleFile, ApplyHackDiffRules, Raise
<1>3. n \in Nat /\ n # 0
  <2>1. rules # <<>>
    BY <1>2 DEF Loads
  <2> HIDE DEF rules
  <2> QED BY <1>1, <2>1, EmptySeq, LenProperties
<1> HIDE DEF rules
<1>4. PICK after : HackDiffChain(after, lines, rules)
  BY <1>1, HackDiffChainSteps
<1>5. /\ after[n] = AfterRule(after[n - 1], rules[n])
      /\ after[n - 1] \in AnyResult
      /\ Applied(lines, rules, ApplyRule) = after[n]
  BY <1>3, <1>4 DEF HackDiffChain
<1> DEFINE before == after[n - 1].lines
<1>6. rules[n] \in HackRule /\ before \in AnyText /\ rules[n] = Last(rules)
  BY <1>1, <1>3, <1>5, ElementOfSeq DEF AnyResult, Last
<1>7. ApplyRule(before, rules[n]).ok /\ after[n].lines = ApplyRule(before, rules[n]).lines
  <2>1. after[n].ok
    BY <1>2, <1>5
  <2> QED BY <1>5, <2>1 DEF AfterRule, Then
<1>8. rules[n].new # <<>>
  BY <1>6 DEF rules
<1> HIDE DEF before, n
<1>9. \E i \in DOMAIN Candidates(rules[n]) : Found(ApplyRule(before, rules[n]).lines, Candidates(rules[n])[i].new)
  BY <1>6, <1>7, <1>8, RuleLeavesItsText
<1> QED BY <1>2, <1>5, <1>6, <1>7, <1>9 DEF rules

\* A pass over an item of .hackdiff files only: all of them, or none.
LEMMA PassOfHackDiffs ==
  ASSUME mapping \in Mappings, NEW i \in DOMAIN mapping, mapping[i].rules # <<>>,
         \A j \in DOMAIN mapping[i].rules : mapping[i].rules[j].suffix = ".hackdiff"
  PROVE  /\ PassOver(mapping[i], FALSE) = <<>>
         /\ PassOver(mapping[i], TRUE) # <<>>
         /\ Last(PassOver(mapping[i], TRUE)) = [path |-> mapping[i].path, file |-> Last(mapping[i].rules)]
<1> DEFINE rules == mapping[i].rules
           path == mapping[i].path
           n == Len(rules)
           S == [path : {path}, file : ToSet(rules)]
           all == [j \in DOMAIN rules |-> IF (rules[j].suffix = ".hackdiff") = TRUE
                                          THEN <<[path |-> path, file |-> rules[j]]>> ELSE <<>>]
           none == [j \in DOMAIN rules |-> IF (rules[j].suffix = ".hackdiff") = FALSE
                                           THEN <<[path |-> path, file |-> rules[j]]>> ELSE <<>>]
<1>1. n \in Nat /\ DOMAIN rules = 1..n /\ n # 0
  BY MappingIsSeq, LenProperties, EmptySeq
<1>2. PassOver(mapping[i], TRUE) = FlattenSeq(all) /\ PassOver(mapping[i], FALSE) = FlattenSeq(none)
  BY DEF PassOver
<1>3. none \in [1..n -> {<<>>}]
  BY <1>1
<1>4. ASSUME NEW j \in 1..n PROVE all[j] = <<[path |-> path, file |-> rules[j]]>> /\ all[j] \in Seq(S)
  <2> DEFINE x == [path |-> path, file |-> rules[j]]
  <2>1. x \in S
    BY <1>1 DEF ToSet
  <2>2. all[j] = <<x>>
    BY <1>1
  <2> HIDE DEF all, x
  <2>3. x \in S => <<x>> \in Seq(S)
    OBVIOUS
  <2> QED BY <2>1, <2>2, <2>3 DEF x
<1>5. all = [j \in 1..n |-> all[j]]
  BY <1>1
<1>6. Last(rules) = rules[n]
  BY DEF Last
<1> HIDE DEF all, none, n, S, rules
<1>7. all \in [1..n -> Seq(S)]
  BY <1>4, <1>5
<1>8. n \in 1..n /\ \A j \in n + 1..n : all[j] = <<>>
  BY <1>1
<1> DEFINE x == [path |-> path, file |-> rules[n]]
<1>9. all[n] = <<x>>
  BY <1>4, <1>8
<1> HIDE DEF x
<1>10. all[n] # <<>> /\ Last(all[n]) = x
  BY <1>9 DEF Last
<1>11. FlattenSeq(all) # <<>> /\ Last(FlattenSeq(all)) = x
  BY <1>1, <1>7, <1>8, <1>10, FlattenedLast
<1>12. FlattenSeq(none) = <<>>
  BY <1>1, <1>3, FlattenedEmpty
<1> QED BY <1>2, <1>6, <1>11, <1>12 DEF x, rules

\* The rule files of a target that one item names.
LEMMA LastFileOf ==
  ASSUME mapping \in Mappings, NEW i \in DOMAIN mapping, ItemsOf(mapping[i].path) = {i},
         mapping[i].rules # <<>>,
         \A j \in DOMAIN mapping[i].rules : mapping[i].rules[j].suffix = ".hackdiff"
  PROVE  /\ FilesOf(mapping[i].path) \in Seq(WorkOf({mapping[i].path}))
         /\ FilesOf(mapping[i].path) # <<>>
         /\ Last(FilesOf(mapping[i].path)) =
              [path |-> mapping[i].path, file |-> Last(mapping[i].rules)]
<1> DEFINE p == mapping[i].path
           n == Len(mapping)
           S == WorkOf({p})
           b(hackdiff) == [j \in DOMAIN mapping |->
                             IF mapping[j].path = p THEN PassOver(mapping[j], hackdiff) ELSE <<>>]
<1>1. n \in Nat /\ DOMAIN mapping = 1..n
  BY MappingIsSeq
<1>2. FilesOf(p) = FlattenSeq(b(TRUE)) \o FlattenSeq(b(FALSE))
  BY DEF FilesOf
<1>3. \A j \in DOMAIN mapping : mapping[j].path = p => j = i
  BY DEF ItemsOf
<1>4. \A hackdiff \in BOOLEAN, j \in 1..n :
        b(hackdiff)[j] = IF j = i THEN PassOver(mapping[i], hackdiff) ELSE <<>>
  BY <1>1, <1>3
<1>5. \A hackdiff \in BOOLEAN : b(hackdiff) = [j \in 1..n |-> b(hackdiff)[j]]
  BY <1>1
<1>6. \A hackdiff \in BOOLEAN : PassOver(mapping[i], hackdiff) \in Seq(S)
  BY PassIsSeq
<1>7. <<>> \in Seq(S)
  BY EmptySeq
<1> HIDE DEF b, n, S, p
<1>8. b(TRUE) \in [1..n -> Seq(S)]
  BY <1>4, <1>5, <1>6, <1>7
<1>9. b(FALSE) \in [1..n -> {<<>>}]
  BY <1>4, <1>5, PassOfHackDiffs
<1>10. i \in 1..n /\ \A j \in i + 1..n : b(TRUE)[j] = <<>>
  <2>1. \A j \in 1..n : b(TRUE)[j] = IF j = i THEN PassOver(mapping[i], TRUE) ELSE <<>>
    BY <1>4
  <2>2. i \in 1..n /\ \A j \in i + 1..n : j \in 1..n /\ j # i
    BY <1>1
  <2> QED BY <2>1, <2>2
<1>11. b(TRUE)[i] = PassOver(mapping[i], TRUE)
  BY <1>4, <1>10
<1>12. b(TRUE)[i] # <<>> /\ Last(b(TRUE)[i]) = [path |-> p, file |-> Last(mapping[i].rules)]
  BY <1>11, PassOfHackDiffs DEF p
<1> DEFINE whole == FlattenSeq(b(TRUE))
<1>13. whole # <<>> /\ Last(whole) = Last(b(TRUE)[i])
  BY <1>1, <1>8, <1>10, <1>12, FlattenedLast
<1>14. whole \in Seq(S)
  BY <1>1, <1>8, FlattenedIsSeq
<1>15. FlattenSeq(b(FALSE)) = <<>>
  BY <1>1, <1>9, FlattenedEmpty
<1>16. FilesOf(p) = whole
  BY <1>2, <1>14, <1>15, ConcatEmptySeq
<1> HIDE DEF whole
<1> QED BY <1>12, <1>13, <1>14, <1>16 DEF p, S

\* Made along its own rule files, a target is what its last one made of a text.
LEMMA MadeByLastFile ==
  ASSUME mapping \in Mappings, NEW p, NEW lines \in AnyText,
         NEW work \in Seq(WorkOf({p})), work # <<>>,
         Made(Unchanged(lines), work, p).ok
  PROVE  \E before \in AnyText :
            /\ ApplyRuleFile(before, Last(work).file).ok
            /\ Made(Unchanged(lines), work, p).lines = ApplyRuleFile(before, Last(work).file).lines
<1> DEFINE f == After(Unchanged(lines), work, p)
           n == Len(work)
<1>1. n \in Nat /\ n # 0 /\ \A k \in 1..n : work[k] \in WorkOf({p})
  BY LenProperties, EmptySeq, ElementOfSeq
<1>2. Along(f, Unchanged(lines), work, p)
  BY <1>1, AfterSteps
<1>3. Made(Unchanged(lines), work, p) = f[n]
  BY DEF Made
<1> HIDE DEF f, n
<1>4. \A k \in 1..n : work[k].path = p /\ IsRuleFile(work[k].file)
  BY <1>1, MappingsAssumption DEF WorkOf, RuleFiles
<1>5. f[0] \in AnyResult
  BY <1>2 DEF Along, Unchanged, AnyResult
<1>6. \A k \in 1..n : f[k] = AfterFile(f[k - 1], work[k].file)
  BY <1>2, <1>4 DEF Along, n
<1>7. ASSUME NEW k \in 1..n, f[k - 1] \in AnyResult PROVE f[k] \in AnyResult
  <2> DEFINE r == f[k - 1]
             next == ApplyRuleFile(r.lines, work[k].file)
  <2>1. r.lines \in AnyText /\ r.count \in Nat
    BY <1>7 DEF AnyResult
  <2>2. next \in AnyResult
    BY <1>4, <2>1, ApplyRuleFileIsTyped
  <2>3. f[k] = r \/ f[k] = [ok |-> next.ok, lines |-> next.lines, count |-> r.count + next.count]
    BY <1>6 DEF AfterFile, Then
  <2> HIDE DEF next
  <2>4. next.ok \in BOOLEAN /\ next.lines \in AnyText /\ next.count \in Nat
    BY <2>2 DEF AnyResult
  <2> HIDE DEF r
  <2> QED BY <1>7, <2>1, <2>3, <2>4 DEF AnyResult, r
<1>8. \A k \in 0..n : f[k] \in AnyResult
  BY <1>1, <1>5, <1>7, StaysIn
<1> DEFINE before == f[n - 1].lines
           file == work[n].file
<1>9. before \in AnyText /\ work[n] = Last(work)
  BY <1>1, <1>8 DEF AnyResult, Last, n
<1>10. f[n] = AfterFile(f[n - 1], file) /\ f[n].ok
  BY <1>1, <1>3, <1>6
<1>11. ApplyRuleFile(before, file).ok /\ f[n].lines = ApplyRuleFile(before, file).lines
  BY <1>10 DEF AfterFile, Then
<1> HIDE DEF before
<1> QED BY <1>3, <1>9, <1>11

\* When a run is done, the replacement text of the last block of a target is
\* there in one of its two forms, whatever was run, failed or was interrupted
\* before.
THEOREM DoneRunsAreAdapted == Spec => []DoneMeansAdapted
<1>1. ReplayInv /\ TextsInv => DoneMeansAdapted
  <2> SUFFICES ASSUME ReplayInv, TextsInv, NEW r \in reports, NEW i \in DOMAIN mapping,
                      r.outcome = "done", ~r.dry, mapping[i].path \in r.selected,
                      ItemsOf(mapping[i].path) = {i}, mapping[i].rules # <<>>,
                      \A j \in DOMAIN mapping[i].rules : mapping[i].rules[j].suffix = ".hackdiff",
                      Last(Rules(Last(mapping[i].rules).blocks)).new # <<>>
               PROVE  \E c \in ToSet(Candidates(Last(Rules(Last(mapping[i].rules).blocks)))) :
                         Found(r.end[mapping[i].path], c.new)
    BY DEF DoneMeansAdapted
  <2> DEFINE p == mapping[i].path
             file == Last(mapping[i].rules)
             work == Work(r.selected)
             lines == r.start[p]
             rule == Last(Rules(file.blocks))
  <2>1. mapping \in Mappings
    BY DEF ReplayInv
  <2>2. p \in DOMAIN r.start /\ lines \in AnyText
    BY DEF TextsInv, ReportsOK, AreTexts
  <2>3. Made(Unchanged(lines), work, p).ok /\ r.end[p] = Made(Unchanged(lines), work, p).lines
    <3>1. MadeBy(r.start, work, Len(work), r.end)
      BY DEF ReplayInv, DoneRunsAreWhole
    <3> QED BY <2>2, <3>1, ReplayIsAfter DEF MadeBy, Made
  <2>4. Made(Unchanged(lines), work, p) = Made(Unchanged(lines), FilesOf(p), p)
    BY <2>1, WorkIsFilesOf DEF SameTo
  <2>5. /\ FilesOf(p) \in Seq(WorkOf({p})) /\ FilesOf(p) # <<>>
        /\ Last(FilesOf(p)) = [path |-> p, file |-> file]
    BY <2>1, LastFileOf
  <2>6. Last(FilesOf(p)).file = file
    BY <2>5
  <2>7. file \in ToSet(mapping[i].rules)
    <3>1. Len(mapping[i].rules) \in DOMAIN mapping[i].rules
      BY <2>1, MappingIsSeq, LenProperties, EmptySeq
    <3> QED BY <3>1 DEF Last, ToSet
  <2>8. IsRuleFile(file) /\ file.suffix = ".hackdiff"
    BY <2>1, <2>7, MappingsAssumption DEF ToSet
  <2> HIDE DEF lines, work, file, p
  <2>9. PICK before \in AnyText :
          /\ ApplyRuleFile(before, file).ok
          /\ Made(Unchanged(lines), FilesOf(p), p).lines = ApplyRuleFile(before, file).lines
    BY <2>1, <2>2, <2>3, <2>4, <2>5, <2>6, MadeByLastFile
  <2>10. rule.new # <<>>
    BY DEF file
  <2>11. PICK k \in DOMAIN Candidates(rule) :
           Found(ApplyRuleFile(before, file).lines, Candidates(rule)[k].new)
    BY <2>8, <2>9, <2>10, FileLeavesItsText
  <2>12. Found(r.end[p], Candidates(rule)[k].new)
    BY <2>3, <2>4, <2>9, <2>11
  <2>13. Candidates(rule)[k] \in ToSet(Candidates(rule))
    BY DEF ToSet
  <2> QED BY <2>12, <2>13 DEF file, p
<1> QED BY <1>1, TextsInvariant, PTL
=============================================================================
