------------------------- MODULE HackRuleUpdateProofs -------------------------
(***************************************************************************)
(* Proofs about HackRuleUpdate: for any number of files, rules, edits and  *)
(* calls, its types are right, a JSON rule that a completed call has       *)
(* attached to a file stays attached, and the .hackdiff file of a path is  *)
(* made of its last diff, so that replaying it gives the file back where   *)
(* the diff's hunks are found again.                                       *)
(***************************************************************************)
EXTENDS HackRuleUpdate, SequenceLemmas, FiniteSetTheorems

-----------------------------------------------------------------------------
\* Every item of a mapping names rule files, each once.
ItemsIn(map, files) ==
  /\ DOMAIN map \subseteq Path
  /\ \A p \in DOMAIN map : map[p] \in Seq(files) /\ IsInjective(map[p])

\* One mapping names what another one names.
Extends(map, less) ==
  /\ DOMAIN less \subseteq DOMAIN map
  /\ \A p \in DOMAIN less : ToSet(less[p]) \subseteq ToSet(map[p])

HoldingIn(files, rule) ==
  {n \in DOMAIN files : /\ files[n].suffix = ".json"
                        /\ \E r \in ToSet(files[n].rules) : r.from = rule.from /\ r.to = rule.to}

\* The item of a path names a JSON file that has the rule.
Attached(map, files, p, rule) ==
  p \in DOMAIN map /\ \E n \in ToSet(map[p]) : n \in HoldingIn(files, rule)

\* The name that a .hackdiff file would be given is not that of a JSON file.
FilesOK(files) ==
  /\ IsFiniteSet(DOMAIN files)
  /\ \A n \in DOMAIN files : files[n].suffix \in {".hackdiff", ".json"}
  /\ \A p \in Path : Slug[p] \in DOMAIN files => files[Slug[p]].suffix = ".hackdiff"

\* The JSON files of a store are in another one as they are.
JsonFilesStay(files, later) ==
  /\ DOMAIN files \subseteq DOMAIN later
  /\ \A n \in DOMAIN files : files[n].suffix = ".json" => later[n] = files[n]

\* What a call holds in memory extends the mapping, and every rule it was asked
\* for is still to do or attached in memory.
CallOK ==
  call # None =>
    /\ DOMAIN call = {"path", "rules", "todo", "made", "mapping"}
    /\ call.path \in Path
    /\ call.rules \in Seq(JsonRules) /\ call.todo \in Seq(JsonRules)
    /\ ToSet(call.todo) \subseteq ToSet(call.rules)
    /\ ItemsIn(call.mapping, DOMAIN store) /\ Extends(call.mapping, mapping)
    /\ \A rule \in ToSet(call.rules) : \/ rule \in ToSet(call.todo)
                                        \/ Attached(call.mapping, store, call.path, rule)

HistoryOK ==
  /\ head \in [Path -> Contents] /\ tree \in [Path -> Contents]
  /\ DOMAIN intended \subseteq Path /\ intended = Restrict(tree, DOMAIN intended)
  /\ asked \in [Path -> SUBSET JsonRules]
  /\ steps \in 0..MaxSteps

KeptOK == \A p \in Path : \A rule \in asked[p] : Attached(mapping, store, p, rule)

\* The inductive invariant.
UpdateInv ==
  /\ FilesOK(store) /\ ItemsIn(mapping, DOMAIN store)
  /\ CallOK /\ HistoryOK /\ KeptOK
-----------------------------------------------------------------------------
\* append_rule_once names one more file, once.
LEMMA AppendOnceNames ==
  ASSUME NEW S, NEW names \in Seq(S), IsInjective(names), NEW n \in S
  PROVE  /\ AppendOnce(names, n) \in Seq(S) /\ IsInjective(AppendOnce(names, n))
         /\ ToSet(AppendOnce(names, n)) = ToSet(names) \cup {n}
<1>1. CASE Contains(names, n)
  BY <1>1 DEF AppendOnce, Contains, ToSet
<1>2. CASE ~Contains(names, n)
  <2>1. AppendOnce(names, n) = Append(names, n) /\ \A i \in 1..Len(names) : names[i] # n
    BY <1>2 DEF AppendOnce, Contains
  <2>2. /\ Append(names, n) \in Seq(S) /\ Len(Append(names, n)) = Len(names) + 1
        /\ \A i \in 1..Len(names) : Append(names, n)[i] = names[i]
        /\ Append(names, n)[Len(names) + 1] = n
    OBVIOUS
  <2>3. DOMAIN names = 1..Len(names) /\ DOMAIN Append(names, n) = 1..Len(names) + 1 /\ Len(names) \in Nat
    OBVIOUS
  <2>4. IsInjective(Append(names, n))
    BY <2>1, <2>2, <2>3 DEF IsInjective
  <2>5. ToSet(Append(names, n)) = ToSet(names) \cup {n}
    BY <2>2, <2>3 DEF ToSet
  <2> QED BY <2>1, <2>2, <2>4, <2>5
<1> QED BY <1>1, <1>2

LEMMA ItemNames ==
  ASSUME NEW S, NEW map, ItemsIn(map, S), NEW p
  PROVE  Item(map, p) \in Seq(S) /\ IsInjective(Item(map, p))
BY DEF Item, ItemsIn, IsInjective

\* So does an item of a mapping in which a file is attached to a path, and the
\* other items are as they were.
LEMMA AttachNames ==
  ASSUME NEW S, NEW map, ItemsIn(map, S), NEW p \in Path, NEW n \in S, NEW new,
         new = With(map, p, AppendOnce(Item(map, p), n))
  PROVE  /\ ItemsIn(new, S) /\ Extends(new, map)
         /\ p \in DOMAIN new /\ n \in ToSet(new[p])
<1>1. Item(map, p) \in Seq(S) /\ IsInjective(Item(map, p))
  BY ItemNames
<1>2. /\ AppendOnce(Item(map, p), n) \in Seq(S) /\ IsInjective(AppendOnce(Item(map, p), n))
      /\ ToSet(AppendOnce(Item(map, p), n)) = ToSet(Item(map, p)) \cup {n}
  BY <1>1, AppendOnceNames
<1>3. /\ DOMAIN new = {p} \cup DOMAIN map /\ new[p] = AppendOnce(Item(map, p), n)
      /\ \A q \in DOMAIN map \ {p} : new[q] = map[q]
  BY DEF With
<1>4. p \in DOMAIN map => Item(map, p) = map[p]
  BY DEF Item
<1>5. ItemsIn(new, S)
  BY <1>2, <1>3 DEF ItemsIn
<1>6. Extends(new, map)
  BY <1>2, <1>3, <1>4 DEF Extends
<1> QED BY <1>2, <1>3, <1>5, <1>6
\* The .hackdiff file of a path is not one of the JSON files.
LEMMA RuleNameIsNoJson ==
  ASSUME FilesOK(store), ItemsIn(mapping, DOMAIN store), NEW p \in Path,
         RuleName(p) \in DOMAIN store
  PROVE  store[RuleName(p)].suffix = ".hackdiff"
<1> DEFINE names == Item(mapping, p)
           places == {i \in DOMAIN names : store[names[i]].suffix = ".hackdiff"}
<1>1. CASE places = {}
  BY <1>1 DEF RuleName, FilesOK
<1>2. CASE places # {}
  <2>1. names \in Seq(DOMAIN store)
    BY ItemNames
  <2>2. places \in SUBSET Nat
    BY <2>1
  <2> HIDE DEF places
  <2>3. Min(places) \in places
    BY <1>2, <2>2, MinInSet
  <2>4. RuleName(p) = names[Min(places)]
    BY <1>2 DEF RuleName, places
  <2> QED BY <2>3, <2>4 DEF places
<1> QED BY <1>1, <1>2

\* ... nor does it get the name of a JSON file that the tool makes.
LEMMA JsonNameIsNoSlug ==
  ASSUME NEW p \in Path, NEW rule \in JsonRules, NEW k \in Nat
  PROVE  Slug[p] # JsonName(rule, k)
<1>1. JsonSlug[rule] \in Seq(STRING) /\ Slug[p] \in Seq(STRING)
  BY NamesAssumption
<1>2. [i \in 1..k |-> i + 1] \in Seq(Nat) /\ Len([i \in 1..k |-> i + 1]) = k
  OBVIOUS
<1>3. Len(JsonName(rule, k)) = Len(JsonSlug[rule]) + k
  <2> DEFINE numbers == [i \in 1..k |-> i + 1]
             Both == STRING \cup Nat
  <2>1. JsonSlug[rule] \in Seq(Both) /\ numbers \in Seq(Both)
    <3>1. Seq(STRING) \subseteq Seq(Both) /\ Seq(Nat) \subseteq Seq(Both)
      OBVIOUS
    <3> QED BY <1>1, <1>2, <3>1
  <2> HIDE DEF numbers, Both
  <2>2. Len(JsonSlug[rule] \o numbers) = Len(JsonSlug[rule]) + Len(numbers)
    BY <2>1, ConcatProperties
  <2> QED BY <1>2, <2>2 DEF JsonName, numbers
<1>4. CASE k <= Len(Slug[p])
  <2>1. k \in 0..Len(Slug[p])
    BY <1>1, <1>4
  <2> QED BY <2>1, NamesAssumption
<1>5. CASE k > Len(Slug[p])
  <2>1. Len(JsonSlug[rule]) \in Nat /\ Len(Slug[p]) \in Nat
    BY <1>1
  <2>2. Len(JsonName(rule, k)) # Len(Slug[p])
    BY <1>3, <1>5, <2>1
  <2> QED BY <2>2
<1>6. Len(Slug[p]) \in Nat
  BY <1>1
<1> QED BY <1>4, <1>5, <1>6

\* There is always a name for a new JSON file that no file has: there are more
\* names than files.
LEMMA NewJsonNameIsNew ==
  ASSUME FilesOK(store), NEW rule \in JsonRules
  PROVE  /\ NewJsonName(rule) \notin DOMAIN store
         /\ \E k \in Nat : NewJsonName(rule) = JsonName(rule, k)
<1> DEFINE N == Cardinality(DOMAIN store)
           free == {k \in 0..N : JsonName(rule, k) \notin DOMAIN store}
           nameOf == [k \in 0..N |-> JsonName(rule, k)]
<1>1. IsFiniteSet(DOMAIN store) /\ N \in Nat
  BY FS_CardinalityType DEF FilesOK
<1>2. IsFiniteSet(0..N) /\ Cardinality(0..N) = N + 1
  BY <1>1, FS_Interval
<1>3. \A j, k \in Nat : JsonName(rule, j) = JsonName(rule, k) => j = k
  <2> SUFFICES ASSUME NEW j \in Nat, NEW k \in Nat, JsonName(rule, j) = JsonName(rule, k)
               PROVE  j = k
    OBVIOUS
  <2> DEFINE Both == STRING \cup Nat
             numbers(n) == [i \in 1..n |-> i + 1]
  <2>1. JsonSlug[rule] \in Seq(Both)
    <3>1. JsonSlug[rule] \in Seq(STRING) /\ Seq(STRING) \subseteq Seq(Both)
      BY NamesAssumption
    <3> QED BY <3>1
  <2>2. \A n \in Nat : numbers(n) \in Seq(Both) /\ Len(numbers(n)) = n
    OBVIOUS
  <2>3. Len(JsonSlug[rule]) \in Nat
    BY <2>1
  <2> HIDE DEF numbers, Both
  <2>4. \A n \in Nat : Len(JsonSlug[rule] \o numbers(n)) = Len(JsonSlug[rule]) + n
    BY <2>1, <2>2, ConcatProperties
  <2>5. Len(JsonName(rule, j)) = Len(JsonSlug[rule]) + j /\ Len(JsonName(rule, k)) = Len(JsonSlug[rule]) + k
    BY <2>4 DEF JsonName, numbers
  <2> QED BY <2>3, <2>5
<1>4. free # {}
  <2> SUFFICES ASSUME free = {} PROVE FALSE
    OBVIOUS
  <2>1. nameOf \in [0..N -> DOMAIN store]
    OBVIOUS
  <2>2. Cardinality(DOMAIN store) < Cardinality(0..N)
    BY <1>1, <1>2
  <2>3. \E j, k \in 0..N : j # k /\ nameOf[j] = nameOf[k]
    <3> HIDE DEF nameOf
    <3> QED BY <1>1, <1>2, <2>1, <2>2, FS_PigeonHole
  <2> QED BY <1>3, <2>3
<1>5. free \in SUBSET Nat
  OBVIOUS
<1> HIDE DEF free
<1>6. Min(free) \in free
  BY <1>4, <1>5, MinInSet
<1>7. NewJsonName(rule) = JsonName(rule, Min(free))
  BY DEF NewJsonName, free
<1> QED BY <1>5, <1>6, <1>7 DEF free
-----------------------------------------------------------------------------
\* What is attached stays attached as long as no JSON file changes and no item
\* loses a name.
LEMMA AttachedStays ==
  ASSUME NEW map, NEW more, Extends(more, map), NEW files, NEW later, JsonFilesStay(files, later),
         NEW p, NEW rule, Attached(map, files, p, rule)
  PROVE  Attached(more, later, p, rule)
<1>1. PICK n \in ToSet(map[p]) : n \in HoldingIn(files, rule)
  BY DEF Attached
<1>2. n \in HoldingIn(later, rule)
  BY <1>1 DEF HoldingIn, JsonFilesStay
<1>3. p \in DOMAIN more /\ n \in ToSet(more[p])
  BY <1>1 DEF Extends, Attached
<1> QED BY <1>2, <1>3 DEF Attached

LEMMA ExtendsItself ==
  ASSUME NEW map PROVE Extends(map, map)
BY DEF Extends

LEMMA StoreStays ==
  ASSUME NEW files PROVE JsonFilesStay(files, files)
BY DEF JsonFilesStay

LEMMA ItemsStay ==
  ASSUME NEW S, NEW T, S \subseteq T, NEW map, ItemsIn(map, S)
  PROVE  ItemsIn(map, T)
<1>1. ASSUME NEW p \in DOMAIN map PROVE map[p] \in Seq(T)
  <2>1. map[p] \in Seq(S)
    BY DEF ItemsIn
  <2> QED BY <2>1
<1> QED BY <1>1 DEF ItemsIn

\* A file that is written over no JSON file leaves the store in order.
LEMMA WithFile ==
  ASSUME FilesOK(store), NEW n, NEW file, file.suffix \in {".hackdiff", ".json"},
         n \in DOMAIN store => store[n].suffix = ".hackdiff",
         \A p \in Path : Slug[p] = n => file.suffix = ".hackdiff",
         NEW later, later = With(store, n, file)
  PROVE  /\ FilesOK(later) /\ JsonFilesStay(store, later)
         /\ n \in DOMAIN later /\ later[n] = file
<1>1. /\ DOMAIN later = DOMAIN store \cup {n} /\ later[n] = file
      /\ \A m \in DOMAIN store \ {n} : later[m] = store[m]
  BY DEF With
<1>2. IsFiniteSet(DOMAIN later)
  BY <1>1, FS_AddElement DEF FilesOK
<1>3. FilesOK(later)
  BY <1>1, <1>2 DEF FilesOK
<1>4. JsonFilesStay(store, later)
  BY <1>1 DEF JsonFilesStay
<1> QED BY <1>1, <1>3, <1>4
-----------------------------------------------------------------------------
THEOREM UpdateInit == Init => UpdateInv
<1> SUFFICES ASSUME Init PROVE UpdateInv
  OBVIOUS
<1>1. FilesOK(store)
  BY RepositoryAssumption DEF Init, FilesOK
<1>2. ItemsIn(mapping, DOMAIN store)
  BY RepositoryAssumption DEF Init, ItemsIn
<1>3. CallOK
  BY DEF Init, CallOK
<1>4. HistoryOK
  <2>1. head \in [Path -> Contents] /\ tree \in [Path -> Contents]
    BY FilesAssumption DEF Init
  <2>2. DOMAIN intended = {} /\ intended = Restrict(tree, DOMAIN intended)
    BY DEF Init, Restrict
  <2>3. asked \in [Path -> SUBSET JsonRules] /\ steps \in 0..MaxSteps
    BY FilesAssumption DEF Init
  <2> QED BY <2>1, <2>2, <2>3 DEF HistoryOK
<1>5. KeptOK
  BY DEF Init, KeptOK
<1> QED BY <1>1, <1>2, <1>3, <1>4, <1>5 DEF UpdateInv

LEMMA EditStep ==
  ASSUME UpdateInv, NEW p \in Path, NEW lines \in Contents, Edit(p, lines)
  PROVE  UpdateInv'
<1>1. FilesOK(store)' /\ ItemsIn(mapping, DOMAIN store)' /\ CallOK' /\ KeptOK'
  BY DEF UpdateInv, Edit, FilesOK, ItemsIn, CallOK, KeptOK
<1>2. HistoryOK'
  <2>1. tree' \in [Path -> Contents] /\ steps' \in 0..MaxSteps
    BY FilesAssumption DEF UpdateInv, HistoryOK, Edit
  <2>2. DOMAIN intended' = DOMAIN intended \ {p} /\ DOMAIN intended \subseteq Path
    BY DEF UpdateInv, HistoryOK, Edit, Restrict
  <2>3. \A q \in DOMAIN intended' : intended'[q] = tree'[q]
    BY <2>2 DEF UpdateInv, HistoryOK, Edit, Restrict
  <2>4. intended' = Restrict(tree', DOMAIN intended')
    BY <2>2, <2>3 DEF Edit, Restrict
  <2> QED BY <2>1, <2>2, <2>4 DEF UpdateInv, HistoryOK, Edit
<1> QED BY <1>1, <1>2 DEF UpdateInv

\* A call that has only begun holds the rules it was asked for to do.
LEMMA CallBegins ==
  ASSUME UpdateInv, FilesOK(store)', JsonFilesStay(store, store'), UNCHANGED mapping,
         UNCHANGED <<head, tree, intended, asked>>, steps' \in 0..MaxSteps,
         NEW p \in Path, NEW rules \in Seq(JsonRules), NEW made, NEW map,
         ItemsIn(map, DOMAIN store'), Extends(map, mapping),
         call' = [path |-> p, rules |-> rules, todo |-> rules, made |-> made, mapping |-> map]
  PROVE  UpdateInv'
<1>1. ItemsIn(mapping, DOMAIN store)'
  BY ItemsStay DEF UpdateInv, JsonFilesStay
<1>2. CallOK'
  BY DEF CallOK, ToSet
<1>3. KeptOK'
  BY AttachedStays, ExtendsItself DEF UpdateInv, KeptOK
<1>4. HistoryOK'
  BY DEF UpdateInv, HistoryOK
<1> QED BY <1>1, <1>2, <1>3, <1>4 DEF UpdateInv

LEMMA MainStep ==
  ASSUME UpdateInv, NEW p \in Path, NEW noHackdiff \in BOOLEAN, NEW rules \in Requests,
         Main(p, noHackdiff, rules)
  PROVE  UpdateInv'
<1>1. /\ UNCHANGED <<head, tree, mapping, intended, asked>> /\ steps' \in 0..MaxSteps
      /\ rules \in Seq(JsonRules)
  <2>1. rules \in Seq(JsonRules) /\ MaxSteps \in Nat
    BY FilesAssumption
  <2>2. steps < MaxSteps /\ steps' = steps + 1 /\ steps \in 0..MaxSteps
    BY DEF Main, UpdateInv, HistoryOK
  <2>3. UNCHANGED <<head, tree, mapping, intended, asked>>
    BY DEF Main
  <2> QED BY <2>1, <2>2, <2>3
<1>2. FilesOK(store) /\ ItemsIn(mapping, DOMAIN store)
  BY DEF UpdateInv
<1> DEFINE hunks == DiffOf[head[p], tree[p]]
<1>3. CASE UNCHANGED store /\ call' = [path |-> p, rules |-> rules, todo |-> rules, made |-> FALSE, mapping |-> mapping]
  BY <1>1, <1>2, <1>3, CallBegins, ExtendsItself, StoreStays
<1>4. CASE UpdateHackDiff(p, hunks, rules)
  <2> DEFINE file == [suffix |-> ".hackdiff", blocks |-> Blocks(p, hunks)]
             map == With(mapping, p, AppendOnce(Item(mapping, p), RuleName(p)))
  <2> HIDE DEF hunks
  <2>1. /\ store' = With(store, RuleName(p), file)
        /\ call' = [path |-> p, rules |-> rules, todo |-> rules, made |-> TRUE, mapping |-> map]
    BY <1>4 DEF UpdateHackDiff
  <2>2. file.suffix = ".hackdiff"
    OBVIOUS
  <2>3. RuleName(p) \in DOMAIN store => store[RuleName(p)].suffix = ".hackdiff"
    BY <1>2, RuleNameIsNoJson
  <2> HIDE DEF file
  <2>4. FilesOK(store') /\ JsonFilesStay(store, store') /\ RuleName(p) \in DOMAIN store'
    BY <1>2, <2>1, <2>2, <2>3, WithFile
  <2>5. ItemsIn(mapping, DOMAIN store')
    BY <1>2, <2>4, ItemsStay DEF JsonFilesStay
  <2>6. ItemsIn(map, DOMAIN store') /\ Extends(map, mapping)
    BY <2>4, <2>5, AttachNames
  <2> HIDE DEF map
  <2> QED BY <1>1, <2>1, <2>4, <2>6, CallBegins
<1>5. CASE UNCHANGED <<store, call>>
  BY <1>1, <1>5 DEF UpdateInv, FilesOK, ItemsIn, CallOK, HistoryOK, KeptOK
<1> QED BY <1>3, <1>4, <1>5 DEF Main

LEMMA AddOrReuseStep ==
  ASSUME UpdateInv, AddOrReuseJsonRule
  PROVE  UpdateInv'
<1> DEFINE rule == Head(call.todo)
           p == call.path
<1>1. /\ UNCHANGED <<head, tree, mapping, intended, asked, steps>>
      /\ call # None /\ call.todo # <<>> /\ FilesOK(store) /\ ItemsIn(mapping, DOMAIN store)
  BY DEF AddOrReuseJsonRule, UpdateInv
<1>2. /\ DOMAIN call = {"path", "rules", "todo", "made", "mapping"} /\ p \in Path
      /\ call.rules \in Seq(JsonRules) /\ call.todo \in Seq(JsonRules) /\ ToSet(call.todo) \subseteq ToSet(call.rules)
      /\ ItemsIn(call.mapping, DOMAIN store) /\ Extends(call.mapping, mapping)
      /\ \A r \in ToSet(call.rules) : r \in ToSet(call.todo) \/ Attached(call.mapping, store, p, r)
  BY <1>1 DEF UpdateInv, CallOK
<1>3. /\ rule \in JsonRules /\ Tail(call.todo) \in Seq(JsonRules)
      /\ ToSet(Tail(call.todo)) \subseteq ToSet(call.todo)
      /\ ToSet(call.todo) = {rule} \cup ToSet(Tail(call.todo))
  <2>1. /\ Len(call.todo) \in Nat \ {0} /\ DOMAIN call.todo = 1..Len(call.todo) /\ rule = call.todo[1]
        /\ \A i \in 1..Len(call.todo) : call.todo[i] \in JsonRules
    BY <1>1, <1>2
  <2>2. /\ Tail(call.todo) \in Seq(JsonRules) /\ DOMAIN Tail(call.todo) = 1..Len(call.todo) - 1
        /\ \A i \in 1..Len(call.todo) - 1 : Tail(call.todo)[i] = call.todo[i + 1]
    BY <1>1, <1>2
  <2>3. ASSUME NEW i \in 1..Len(call.todo) PROVE call.todo[i] \in {rule} \cup ToSet(Tail(call.todo))
    <3>1. CASE i = 1
      BY <2>1, <3>1
    <3>2. CASE i # 1
      <4>1. i - 1 \in DOMAIN Tail(call.todo) /\ call.todo[i] = Tail(call.todo)[i - 1]
        BY <2>1, <2>2, <3>2
      <4> QED BY <4>1 DEF ToSet
    <3> QED BY <3>1, <3>2
  <2>4. ToSet(Tail(call.todo)) \subseteq ToSet(call.todo) /\ rule \in ToSet(call.todo)
    BY <2>1, <2>2 DEF ToSet
  <2>5. ToSet(call.todo) \subseteq {rule} \cup ToSet(Tail(call.todo))
    BY <2>1, <2>3 DEF ToSet
  <2> QED BY <2>1, <2>2, <2>4, <2>5
\* The rule is attached by a file of the store, an old one or a new one.
<1>4. ASSUME NEW n \in DOMAIN store', FilesOK(store'), JsonFilesStay(store, store'), n \in HoldingIn(store', rule),
             call' = [call EXCEPT !.todo = Tail(@), !.mapping = With(@, p, AppendOnce(Item(@, p), n))]
      PROVE  UpdateInv'
  <2> DEFINE map == With(call.mapping, p, AppendOnce(Item(call.mapping, p), n))
  <2>1. /\ DOMAIN call' = DOMAIN call /\ call'.path = p /\ call'.rules = call.rules
        /\ call'.todo = Tail(call.todo) /\ call'.mapping = map
    BY <1>2, <1>4
  <2>2. DOMAIN store \subseteq DOMAIN store'
    BY <1>4 DEF JsonFilesStay
  <2>3. ItemsIn(call.mapping, DOMAIN store')
    BY <1>2, <2>2, ItemsStay
  <2>4. ItemsIn(map, DOMAIN store') /\ Extends(map, call.mapping) /\ p \in DOMAIN map /\ n \in ToSet(map[p])
    BY <1>2, <1>4, <2>3, AttachNames
  <2> HIDE DEF map
  <2>5. Extends(map, mapping)
    BY <1>2, <2>4 DEF Extends
  <2>6. \A r \in ToSet(call.rules) : r \in ToSet(Tail(call.todo)) \/ Attached(map, store', p, r)
    <3>1. TAKE r \in ToSet(call.rules)
    <3>2. CASE r = rule
      BY <1>4, <2>4, <3>2 DEF Attached
    <3>3. CASE r # rule /\ r \in ToSet(call.todo)
      BY <1>3, <3>3
    <3>4. CASE Attached(call.mapping, store, p, r)
      BY <1>4, <2>4, <3>4, AttachedStays
    <3> QED BY <1>2, <3>2, <3>3, <3>4
  <2>7. CallOK'
    BY <1>1, <1>2, <1>3, <2>1, <2>4, <2>5, <2>6 DEF CallOK
  <2>8. ItemsIn(mapping, DOMAIN store)'
    BY <1>1, <2>2, ItemsStay
  <2>9. KeptOK'
    BY <1>1, <1>4, AttachedStays, ExtendsItself DEF UpdateInv, KeptOK
  <2>10. HistoryOK'
    BY <1>1 DEF UpdateInv, HistoryOK
  <2> QED BY <1>4, <2>7, <2>8, <2>9, <2>10 DEF UpdateInv
<1>5. CASE Holding(rule) # {}
  <2>1. PICK n \in Holding(rule) :
          /\ call' = [call EXCEPT !.todo = Tail(@), !.mapping = With(@, p, AppendOnce(Item(@, p), n))]
          /\ UNCHANGED store
    BY <1>5 DEF AddOrReuseJsonRule
  <2>2. n \in DOMAIN store' /\ n \in HoldingIn(store', rule) /\ FilesOK(store') /\ JsonFilesStay(store, store')
    BY <1>1, <2>1, StoreStays DEF Holding, HoldingIn
  <2> QED BY <1>4, <2>1, <2>2
<1>6. CASE Holding(rule) = {}
  <2> DEFINE n == NewJsonName(rule)
             file == [suffix |-> ".json", rules |-> <<rule>>]
  <2>1. /\ call' = [call EXCEPT !.todo = Tail(@), !.mapping = With(@, p, AppendOnce(Item(@, p), n))]
        /\ store' = With(store, n, file)
    BY <1>6 DEF AddOrReuseJsonRule
  <2>2. n \notin DOMAIN store /\ \A q \in Path : Slug[q] # n
    BY <1>1, <1>3, NewJsonNameIsNew, JsonNameIsNoSlug
  <2>3. file.suffix = ".json" /\ rule \in ToSet(file.rules)
    BY DEF ToSet
  <2> HIDE DEF n, file
  <2>4. /\ FilesOK(store') /\ JsonFilesStay(store, store')
        /\ n \in DOMAIN store' /\ store'[n] = file
    BY <1>1, <2>1, <2>2, <2>3, WithFile
  <2>5. n \in HoldingIn(store', rule)
    BY <2>3, <2>4 DEF HoldingIn
  <2> QED BY <1>4, <2>1, <2>4, <2>5
<1> QED BY <1>5, <1>6

LEMMA WriteMappingStep ==
  ASSUME UpdateInv, WriteMapping
  PROVE  UpdateInv'
<1>1. /\ UNCHANGED <<head, tree, store, steps>> /\ mapping' = call.mapping /\ call' = None
      /\ call # None /\ call.todo = <<>>
      /\ asked' = [asked EXCEPT ![call.path] = @ \cup ToSet(call.rules)]
  BY DEF WriteMapping
<1>2. /\ call.path \in Path /\ call.rules \in Seq(JsonRules)
      /\ ItemsIn(call.mapping, DOMAIN store) /\ Extends(call.mapping, mapping)
      /\ \A r \in ToSet(call.rules) : r \in ToSet(call.todo) \/ Attached(call.mapping, store, call.path, r)
  BY <1>1 DEF UpdateInv, CallOK
<1>3. ToSet(call.todo) = {} /\ ToSet(call.rules) \subseteq JsonRules
  BY <1>1, <1>2 DEF ToSet
<1>4. FilesOK(store)' /\ ItemsIn(mapping, DOMAIN store)' /\ CallOK'
  BY <1>1, <1>2 DEF UpdateInv, CallOK, FilesOK
<1>5. KeptOK'
  <2> SUFFICES ASSUME NEW p \in Path, NEW rule \in asked'[p]
               PROVE  Attached(mapping', store, p, rule)
    BY <1>1 DEF KeptOK
  <2>1. CASE rule \in asked[p]
    BY <1>1, <1>2, <2>1, AttachedStays, StoreStays DEF UpdateInv, KeptOK
  <2>2. CASE p = call.path /\ rule \in ToSet(call.rules)
    BY <1>1, <1>2, <1>3, <2>2
  <2>3. rule \in asked[p] \/ (p = call.path /\ rule \in ToSet(call.rules))
    BY <1>1 DEF UpdateInv, HistoryOK
  <2> QED BY <2>1, <2>2, <2>3
<1>6. HistoryOK'
  <2>1. asked' \in [Path -> SUBSET JsonRules]
    BY <1>1, <1>2, <1>3 DEF UpdateInv, HistoryOK
  <2>2. DOMAIN intended \subseteq Path /\ intended = Restrict(tree, DOMAIN intended)
    BY DEF UpdateInv, HistoryOK
  <2>3. DOMAIN intended' \subseteq Path /\ intended' = Restrict(tree, DOMAIN intended')
    <3>1. CASE call.made
      <4>1. intended' = With(intended, call.path, tree[call.path])
        BY <3>1 DEF WriteMapping
      <4>2. DOMAIN intended' = DOMAIN intended \cup {call.path}
        BY <4>1 DEF With
      <4>3. \A q \in DOMAIN intended' : intended'[q] = tree[q]
        BY <2>2, <4>1 DEF With, Restrict
      <4> QED BY <1>2, <2>2, <4>1, <4>2, <4>3 DEF With, Restrict
    <3>2. CASE ~call.made
      BY <2>2, <3>2 DEF WriteMapping
    <3> QED BY <3>1, <3>2
  <2> QED BY <1>1, <2>1, <2>3 DEF UpdateInv, HistoryOK
<1> QED BY <1>4, <1>5, <1>6 DEF UpdateInv

LEMMA InterruptedStep ==
  ASSUME UpdateInv, Interrupted
  PROVE  UpdateInv'
BY DEF UpdateInv, Interrupted, FilesOK, ItemsIn, CallOK, HistoryOK, KeptOK

\* Every step of a developer or of the tool keeps the invariant.
THEOREM UpdateInvariant == Spec => []UpdateInv
<1>1. UpdateInv /\ [Next]_vars => UpdateInv'
  <2> SUFFICES ASSUME UpdateInv, [Next]_vars PROVE UpdateInv'
    OBVIOUS
  <2>1. ASSUME NEW p \in Path, NEW lines \in Contents, Edit(p, lines) PROVE UpdateInv'
    BY <2>1, EditStep
  <2>2. ASSUME NEW p \in Path, NEW noHackdiff \in BOOLEAN, NEW rules \in Requests, Main(p, noHackdiff, rules)
        PROVE  UpdateInv'
    BY <2>2, MainStep
  <2>3. CASE AddOrReuseJsonRule
    BY <2>3, AddOrReuseStep
  <2>4. CASE WriteMapping
    BY <2>4, WriteMappingStep
  <2>5. CASE Interrupted
    BY <2>5, InterruptedStep
  <2>6. CASE UNCHANGED vars
    BY <2>6 DEF vars, UpdateInv, FilesOK, ItemsIn, CallOK, HistoryOK, KeptOK
  <2> QED BY <2>1, <2>2, <2>3, <2>4, <2>5, <2>6 DEF Next
<1> QED BY <1>1, UpdateInit, PTL DEF Spec

\* The types are right: every item names files that are there, each once, and
\* what a running call holds extends the mapping that is on disk.
THEOREM UpdateTypeCorrect == Spec => []TypeOK
<1>1. UpdateInv => TypeOK
  <2> SUFFICES ASSUME UpdateInv PROVE TypeOK
    OBVIOUS
  <2>1. ASSUME NEW p \in DOMAIN mapping
        PROVE  ToSet(mapping[p]) \subseteq DOMAIN store /\ IsInjective(mapping[p])
    BY DEF UpdateInv, ItemsIn, ToSet
  <2>2. DOMAIN mapping \subseteq Path /\ \A n \in DOMAIN store : store[n].suffix \in {".hackdiff", ".json"}
    BY DEF UpdateInv, ItemsIn, FilesOK
  <2>3. call # None => /\ call.path \in Path /\ DOMAIN mapping \subseteq DOMAIN call.mapping
                       /\ ToSet(call.todo) \subseteq ToSet(call.rules)
    BY DEF UpdateInv, CallOK, Extends
  <2> QED BY <2>1, <2>2, <2>3 DEF TypeOK, UpdateInv, HistoryOK
<1> QED BY <1>1, UpdateInvariant, PTL

\* A JSON rule that a completed call attached to a file stays attached to it.
THEOREM RulesStayAttached == Spec => []JsonRulesKept
<1>1. UpdateInv => JsonRulesKept
  <2> SUFFICES ASSUME UpdateInv, NEW p \in Path, NEW rule \in asked[p]
               PROVE  p \in DOMAIN mapping /\ \E n \in ToSet(mapping[p]) : n \in Holding(rule)
    BY DEF JsonRulesKept
  <2>1. Attached(mapping, store, p, rule)
    BY DEF UpdateInv, KeptOK
  <2> QED BY <2>1 DEF Attached, HoldingIn, Holding
<1> QED BY <1>1, UpdateInvariant, PTL

\* No step writes over a JSON rule file, whatever its rules are called and
\* whatever a path's .hackdiff file is: other files may name it.
THEOREM JsonFilesAreNeverWrittenOver == Spec => [][JsonFilesStay(store, store')]_vars
<1>1. UpdateInv /\ [Next]_vars => JsonFilesStay(store, store')
  <2> SUFFICES ASSUME UpdateInv, [Next]_vars PROVE JsonFilesStay(store, store')
    OBVIOUS
  <2> USE DEF UpdateInv
  <2>1. CASE UNCHANGED store
    BY <2>1, StoreStays
  <2>2. ASSUME NEW p \in Path, NEW hunks, NEW rules, UpdateHackDiff(p, hunks, rules)
        PROVE  JsonFilesStay(store, store')
    <3> DEFINE file == [suffix |-> ".hackdiff", blocks |-> Blocks(p, hunks)]
    <3>1. store' = With(store, RuleName(p), file) /\ file.suffix = ".hackdiff"
      BY <2>2 DEF UpdateHackDiff
    <3> HIDE DEF file
    <3> QED BY <3>1, RuleNameIsNoJson, WithFile
  <2>3. ASSUME NEW p \in Path, NEW noHackdiff \in BOOLEAN, NEW rules \in Requests, Main(p, noHackdiff, rules)
        PROVE  JsonFilesStay(store, store')
    <3>1. \/ UNCHANGED store
          \/ UpdateHackDiff(p, DiffOf[head[p], tree[p]], rules)
      BY <2>3 DEF Main
    <3> QED BY <2>1, <2>2, <3>1
  <2>4. CASE AddOrReuseJsonRule
    <3> DEFINE rule == Head(call.todo)
               file == [suffix |-> ".json", rules |-> <<rule>>]
    <3>1. call # None /\ call.todo # <<>> /\ call.todo \in Seq(JsonRules)
      BY <2>4 DEF AddOrReuseJsonRule, CallOK
    <3>2. rule \in JsonRules
      BY <3>1
    <3>3. UNCHANGED store \/ store' = With(store, NewJsonName(rule), file)
      BY <2>4 DEF AddOrReuseJsonRule
    <3>4. file.suffix = ".json"
      OBVIOUS
    <3>5. NewJsonName(rule) \notin DOMAIN store /\ \A q \in Path : Slug[q] # NewJsonName(rule)
      BY <3>2, NewJsonNameIsNew, JsonNameIsNoSlug
    <3> HIDE DEF file
    <3> QED BY <2>1, <3>3, <3>4, <3>5, WithFile
  <2> QED BY <2>1, <2>3, <2>4 DEF Next, Edit, WriteMapping, Interrupted, vars
<1> QED BY <1>1, UpdateInvariant, PTL DEF Spec
-----------------------------------------------------------------------------
\* What a name in an item says, and the first .hackdiff file of an item.
HackDiffPlaces(names, files) == {i \in DOMAIN names : files[names[i]].suffix = ".hackdiff"}
FirstHackDiff(names, files, other) ==
  IF HackDiffPlaces(names, files) = {} THEN other ELSE names[Min(HackDiffPlaces(names, files))]

\* The files are still of their kinds.
KindsStay(files, later) ==
  /\ DOMAIN files \subseteq DOMAIN later
  /\ \A n \in DOMAIN files : later[n].suffix = files[n].suffix

\* The rule file of a path is made of what the path's file is now.
Diffable(old, new) ==
  /\ DiffOf[old, new] # <<>>
  /\ \A h \in DOMAIN DiffOf[old, new] : DiffOf[old, new][h].old # <<>>
Stored(p) ==
  /\ RuleName(p) \in DOMAIN store
  /\ store[RuleName(p)] = MadeOf(head[p], tree[p]) /\ Diffable(head[p], tree[p])

\* No other path's rule file has the same name.
Own(p) == \A q \in Path \ {p} : RuleName(q) # RuleName(p)

StoredInv ==
  /\ \A n \in DOMAIN store : store[n].suffix = ".json" => Len(store[n].rules) \in Nat
  /\ call # None =>
       \A p \in Path : /\ FirstHackDiff(Item(call.mapping, p), store, Slug[p]) = RuleName(p)
                       /\ call.made /\ p = call.path => Stored(p) /\ p \in DOMAIN call.mapping
  /\ DOMAIN intended \subseteq DOMAIN mapping
  /\ \A p \in DOMAIN intended : Own(p) => Stored(p)

\* The file that update_hackdiff_rule writes is that of the mapping on disk.
LEMMA RuleNameIsFirst ==
  ASSUME NEW p PROVE RuleName(p) = FirstHackDiff(Item(mapping, p), store, Slug[p])
BY DEF RuleName, FirstHackDiff, HackDiffPlaces

\* Files that are made or written over leave the first .hackdiff file as it was.
LEMMA FirstStays ==
  ASSUME NEW files, NEW later, KindsStay(files, later), NEW names \in Seq(DOMAIN files), NEW other
  PROVE  FirstHackDiff(names, later, other) = FirstHackDiff(names, files, other)
<1>1. \A i \in DOMAIN names : names[i] \in DOMAIN files
  BY ElementOfSeq, LenProperties
<1>2. HackDiffPlaces(names, later) = HackDiffPlaces(names, files)
  BY <1>1 DEF HackDiffPlaces, KindsStay
<1> QED BY <1>2 DEF FirstHackDiff

\* So does a name that is attached, if it is that of this file or of a JSON file.
LEMMA FirstAttached ==
  ASSUME NEW files, NEW names \in Seq(DOMAIN files), NEW n \in DOMAIN files, NEW other,
         \/ files[n].suffix = ".json"
         \/ files[n].suffix = ".hackdiff" /\ n = FirstHackDiff(names, files, other)
  PROVE  FirstHackDiff(AppendOnce(names, n), files, other) = FirstHackDiff(names, files, other)
<1>1. CASE Contains(names, n)
  BY <1>1 DEF AppendOnce
<1>2. CASE ~Contains(names, n)
  <2> DEFINE more == Append(names, n)
             k == Len(names) + 1
             places == HackDiffPlaces(names, files)
  <2>1. AppendOnce(names, n) = more
    BY <1>2 DEF AppendOnce
  <2>2. /\ Len(names) \in Nat /\ DOMAIN names = 1..Len(names) /\ DOMAIN more = 1..k /\ more[k] = n
        /\ \A i \in 1..Len(names) : more[i] = names[i]
    OBVIOUS
  <2> HIDE DEF more
  <2>3. places \in SUBSET Nat /\ k \notin places
    BY <2>2 DEF HackDiffPlaces
  <2>4. CASE files[n].suffix = ".json"
    <3>1. HackDiffPlaces(more, files) = places
      BY <2>2, <2>4 DEF HackDiffPlaces
    <3>2. places # {} => Min(places) \in places
      BY <2>3, MinInSet
    <3>3. \A i \in places : more[i] = names[i]
      BY <2>2 DEF HackDiffPlaces
    <3> QED BY <2>1, <3>1, <3>2, <3>3 DEF FirstHackDiff
  <2>5. CASE files[n].suffix = ".hackdiff" /\ n = FirstHackDiff(names, files, other)
    <3>1. places = {}
      <4> SUFFICES ASSUME places # {} PROVE FALSE
        OBVIOUS
      <4>1. Min(places) \in places /\ n = names[Min(places)]
        BY <2>3, <2>5, MinInSet DEF FirstHackDiff
      <4>2. Min(places) \in 1..Len(names)
        BY <2>2, <4>1 DEF HackDiffPlaces
      <4> QED BY <1>2, <2>2, <4>1, <4>2 DEF Contains
    <3>2. HackDiffPlaces(more, files) = {k}
      BY <2>2, <2>5, <3>1 DEF HackDiffPlaces
    <3>3. {k} \in SUBSET Nat /\ {k} # {}
      BY <2>2
    <3>4. Min({k}) = k
      BY <3>3, MinInSet
    <3> QED BY <2>1, <2>2, <2>5, <3>1, <3>2, <3>4 DEF FirstHackDiff
  <2> QED BY <2>4, <2>5
<1> QED BY <1>1, <1>2

\* In an item of a mapping with a file attached to it.
LEMMA ItemAttached ==
  ASSUME NEW map, NEW p, NEW n, NEW q
  PROVE  Item(With(map, p, AppendOnce(Item(map, p), n)), q)
           = IF q = p THEN AppendOnce(Item(map, p), n) ELSE Item(map, q)
BY DEF Item, With

\* So attaching one leaves the rule file of every path as it was.
LEMMA FirstInMapping ==
  ASSUME NEW files, NEW map, ItemsIn(map, DOMAIN files), NEW p \in Path, NEW n \in DOMAIN files, NEW new,
         new = With(map, p, AppendOnce(Item(map, p), n)),
         \/ files[n].suffix = ".json"
         \/ files[n].suffix = ".hackdiff" /\ n = FirstHackDiff(Item(map, p), files, Slug[p]),
         NEW q \in Path
  PROVE  FirstHackDiff(Item(new, q), files, Slug[q]) = FirstHackDiff(Item(map, q), files, Slug[q])
<1>1. CASE q = p
  <2>1. Item(new, q) = AppendOnce(Item(map, p), n)
    BY <1>1, ItemAttached
  <2>2. Item(map, p) \in Seq(DOMAIN files)
    BY ItemNames
  <2> QED BY <1>1, <2>1, <2>2, FirstAttached
<1>2. CASE q # p
  BY <1>2, ItemAttached
<1> QED BY <1>1, <1>2

\* The names of the rule files do not change while the mapping does not.
LEMMA RuleNamesKept ==
  ASSUME UpdateInv, KindsStay(store, store'), UNCHANGED mapping, NEW p
  PROVE  RuleName(p)' = RuleName(p)
<1>1. Item(mapping, p) \in Seq(DOMAIN store) /\ Item(mapping, p)' = Item(mapping, p)
  BY ItemNames DEF UpdateInv, Item
<1>2. FirstHackDiff(Item(mapping, p), store', Slug[p]) = FirstHackDiff(Item(mapping, p), store, Slug[p])
  BY <1>1, FirstStays
<1>3. RuleName(p)' = FirstHackDiff(Item(mapping, p)', store', Slug[p])
  BY DEF RuleName, FirstHackDiff, HackDiffPlaces
<1> QED BY <1>1, <1>2, <1>3, RuleNameIsFirst

\* At first nothing is made and no call runs.
LEMMA StoredInit == Init => StoredInv
<1> SUFFICES ASSUME Init PROVE StoredInv
  OBVIOUS
<1>1. ASSUME NEW n \in DOMAIN store, store[n].suffix = ".json" PROVE Len(store[n].rules) \in Nat
  <2>1. store[n].rules \in Seq(JsonRule)
    BY <1>1, RepositoryAssumption DEF Init, IsRuleFile
  <2> QED BY <2>1, LenProperties
<1>2. DOMAIN intended = {} /\ call = None
  BY DEF Init
<1> QED BY <1>1, <1>2 DEF StoredInv

\* A path whose name, file and texts are as they were.
LEMMA StoredKept ==
  ASSUME NEW p, Stored(p), RuleName(p)' = RuleName(p), head'[p] = head[p], tree'[p] = tree[p],
         RuleName(p) \in DOMAIN store', store'[RuleName(p)] = store[RuleName(p)]
  PROVE  Stored(p)'
<1>1. Stored(p)' <=> /\ RuleName(p)' \in DOMAIN store'
                     /\ store'[RuleName(p)'] = MadeOf(head'[p], tree'[p]) /\ Diffable(head'[p], tree'[p])
  BY DEF Stored, MadeOf, Diffable
<1> QED BY <1>1 DEF Stored

\* A path whose rule file nobody shares is one whatever happens to the others' texts.
LEMMA OwnKept ==
  ASSUME \A q \in Path : RuleName(q)' = RuleName(q), NEW p \in Path
  PROVE  Own(p)' <=> Own(p)
BY DEF Own

\* A store that is left alone keeps its kinds.
LEMMA SameKinds == ASSUME UNCHANGED store PROVE KindsStay(store, store')
BY DEF KindsStay

\* An edit takes the path out of the history, and leaves the others' diffs.
LEMMA EditStored ==
  ASSUME UpdateInv, StoredInv, NEW p \in Path, NEW lines \in Contents, Edit(p, lines)
  PROVE  StoredInv'
<1>1. /\ call = None /\ UNCHANGED <<head, mapping, store, call, asked>>
      /\ tree' = [tree EXCEPT ![p] = lines] /\ intended' = Restrict(intended, DOMAIN intended \ {p})
  BY DEF Edit
<1>2. \A q \in Path : RuleName(q)' = RuleName(q)
  BY <1>1, RuleNamesKept, SameKinds
<1>3. ASSUME NEW q \in DOMAIN intended', Own(q)' PROVE Stored(q)'
  <2>1. q \in DOMAIN intended /\ q # p /\ q \in Path /\ tree'[q] = tree[q]
    BY <1>1 DEF Restrict, UpdateInv, HistoryOK
  <2>2. Stored(q)
    BY <1>2, <1>3, <2>1, OwnKept DEF StoredInv
  <2> QED BY <1>1, <1>2, <2>1, <2>2, StoredKept DEF Stored
<1>4. DOMAIN intended' \subseteq DOMAIN mapping'
  BY <1>1 DEF StoredInv, Restrict
<1> QED BY <1>1, <1>3, <1>4 DEF StoredInv

\* The two ways in which main begins a call, and the one in which it raises.
LEMMA BeginStored ==
  ASSUME UpdateInv, StoredInv, NEW p \in Path, NEW rules, NEW map,
         UNCHANGED <<head, tree, mapping, store, intended>>, map = mapping,
         call' = [path |-> p, rules |-> rules, todo |-> rules, made |-> FALSE, mapping |-> map]
  PROVE  StoredInv'
<1>1. \A q \in Path : RuleName(q)' = RuleName(q)
  BY RuleNamesKept, SameKinds
<1>2. \A q \in Path : FirstHackDiff(Item(call'.mapping, q), store', Slug[q]) = RuleName(q)'
  BY <1>1, RuleNameIsFirst
<1>3. call'.made = FALSE
  OBVIOUS
<1>4. ASSUME NEW q \in DOMAIN intended', Own(q)' PROVE Stored(q)'
  <2>1. q \in DOMAIN intended /\ q \in Path
    BY DEF UpdateInv, HistoryOK
  <2>2. Stored(q)
    BY <1>1, <1>4, <2>1, OwnKept DEF StoredInv
  <2> QED BY <1>1, <2>1, <2>2, StoredKept DEF Stored
<1> QED BY <1>2, <1>3, <1>4 DEF StoredInv

\* A call that ends without the mapping written leaves what is on disk.
LEMMA RaiseStored ==
  ASSUME UpdateInv, StoredInv, UNCHANGED <<head, tree, mapping, store, intended>>,
         call' = call \/ call' = None
  PROVE  StoredInv'
<1>1. \A q \in Path : RuleName(q)' = RuleName(q)
  BY RuleNamesKept, SameKinds
<1>2. ASSUME NEW q \in Path, Stored(q) PROVE Stored(q)'
  BY <1>1, <1>2, StoredKept DEF Stored
<1>3. ASSUME NEW q \in DOMAIN intended', Own(q)' PROVE Stored(q)'
  <2>1. q \in DOMAIN intended /\ q \in Path
    BY DEF UpdateInv, HistoryOK
  <2> QED BY <1>1, <1>2, <1>3, <2>1, OwnKept DEF StoredInv
<1>4. ASSUME call' # None, NEW q \in Path
      PROVE  /\ FirstHackDiff(Item(call'.mapping, q), store', Slug[q]) = RuleName(q)'
             /\ call'.made /\ q = call'.path => Stored(q)' /\ q \in DOMAIN call'.mapping
  <2>1. call' = call /\ call # None
    BY <1>4
  <2> QED BY <1>1, <1>2, <2>1 DEF StoredInv
<1> QED BY <1>3, <1>4 DEF StoredInv

\* update_hackdiff_rule writes the path's rule file and no other path's.
LEMMA UpdateStored ==
  ASSUME UpdateInv, StoredInv, NEW p \in Path, NEW rules,
         UpdateHackDiff(p, DiffOf[head[p], tree[p]], rules), UNCHANGED <<head, tree, mapping, intended>>
  PROVE  StoredInv'
<1> DEFINE map == With(mapping, p, AppendOnce(Item(mapping, p), RuleName(p)))
           file == MadeOf(head[p], tree[p])
<1>1. /\ store' = With(store, RuleName(p), file) /\ Diffable(head[p], tree[p])
      /\ call' = [path |-> p, rules |-> rules, todo |-> rules, made |-> TRUE, mapping |-> map]
  BY DEF UpdateHackDiff, Diffable, MadeOf, Blocks
<1>2. file.suffix = ".hackdiff"
  BY DEF MadeOf
<1>3. FilesOK(store) /\ ItemsIn(mapping, DOMAIN store)
  BY DEF UpdateInv
<1>4. RuleName(p) \in DOMAIN store => store[RuleName(p)].suffix = ".hackdiff"
  BY <1>3, RuleNameIsNoJson
<1> HIDE DEF file
<1>5. /\ KindsStay(store, store') /\ RuleName(p) \in DOMAIN store' /\ store'[RuleName(p)] = file
      /\ DOMAIN store' = DOMAIN store \cup {RuleName(p)}
      /\ \A n \in DOMAIN store \ {RuleName(p)} : store'[n] = store[n]
  <2>1. store' = With(store, RuleName(p), file)
    BY <1>1
  <2>2. /\ DOMAIN store' = DOMAIN store \cup {RuleName(p)} /\ store'[RuleName(p)] = file
        /\ \A n \in DOMAIN store \ {RuleName(p)} : store'[n] = store[n]
    BY <2>1 DEF With
  <2>3. KindsStay(store, store')
    BY <1>2, <1>4, <2>2 DEF KindsStay
  <2> QED BY <2>2, <2>3
<1>6. \A q \in Path : RuleName(q)' = RuleName(q)
  BY <1>5, RuleNamesKept
<1>7. Stored(p)'
  <2>1. head'[p] = head[p] /\ tree'[p] = tree[p] /\ RuleName(p)' = RuleName(p)
    BY <1>6
  <2>2. Stored(p)' <=> /\ RuleName(p)' \in DOMAIN store'
                       /\ store'[RuleName(p)'] = MadeOf(head'[p], tree'[p]) /\ Diffable(head'[p], tree'[p])
    BY DEF Stored, MadeOf, Diffable
  <2> QED BY <1>1, <1>5, <2>1, <2>2 DEF file
<1>8. ASSUME NEW q \in Path
      PROVE  FirstHackDiff(Item(map, q), store', Slug[q]) = RuleName(q)'
  <2>1. ItemsIn(mapping, DOMAIN store')
    BY <1>3, <1>5, ItemsStay
  <2>2. RuleName(p) = FirstHackDiff(Item(mapping, p), store', Slug[p])
    <3>1. RuleName(p)' = FirstHackDiff(Item(mapping, p)', store', Slug[p])
      BY DEF RuleName, FirstHackDiff, HackDiffPlaces
    <3>2. Item(mapping, p)' = Item(mapping, p)
      BY DEF Item
    <3> QED BY <1>6, <3>1, <3>2
  <2>3. FirstHackDiff(Item(map, q), store', Slug[q]) = FirstHackDiff(Item(mapping, q), store', Slug[q])
    <3>1. store'[RuleName(p)].suffix = ".hackdiff" /\ RuleName(p) \in DOMAIN store'
      BY <1>2, <1>5
    <3>2. map = With(mapping, p, AppendOnce(Item(mapping, p), RuleName(p)))
      OBVIOUS
    <3> HIDE DEF map
    <3> QED BY ONLY <2>1, <2>2, <3>1, <3>2, p \in Path, q \in Path, FirstInMapping
  <2>4. FirstHackDiff(Item(mapping, q), store', Slug[q]) = FirstHackDiff(Item(mapping, q), store, Slug[q])
    <3>1. Item(mapping, q) \in Seq(DOMAIN store)
      BY <1>3, ItemNames
    <3> QED BY ONLY <1>5, <3>1, FirstStays
  <2> QED BY <1>6, <2>3, <2>4, RuleNameIsFirst
<1> HIDE DEF map
<1>9. ASSUME NEW q \in DOMAIN intended', Own(q)' PROVE Stored(q)'
  <2>1. q \in DOMAIN intended /\ q \in Path
    BY DEF UpdateInv, HistoryOK
  <2>2. CASE q = p
    BY <1>7, <2>2
  <2>3. CASE q # p
    <3>1. Stored(q) /\ RuleName(p) # RuleName(q)
      BY <1>6, <1>9, <2>1, <2>3, OwnKept DEF StoredInv, Own
    <3>2. RuleName(q) \in DOMAIN store' /\ store'[RuleName(q)] = store[RuleName(q)]
      BY <1>5, <3>1 DEF Stored
    <3> QED BY <1>6, <2>1, <3>1, <3>2, StoredKept
  <2> QED BY <2>2, <2>3
<1>10. ASSUME NEW n \in DOMAIN store', store'[n].suffix = ".json" PROVE Len(store'[n].rules) \in Nat
  <2>1. n # RuleName(p)
    BY <1>2, <1>5, <1>10
  <2> QED BY <1>5, <1>10, <2>1 DEF StoredInv
<1>11. call'.mapping = map /\ call'.path = p
  BY <1>1
<1>12. p \in DOMAIN map
  BY DEF With, map
<1>13. DOMAIN intended' \subseteq DOMAIN mapping'
  BY DEF StoredInv
<1> QED BY <1>7, <1>8, <1>9, <1>10, <1>11, <1>12, <1>13 DEF StoredInv

\* Every way through main, up to the rules asked for.
LEMMA MainStored ==
  ASSUME UpdateInv, StoredInv, NEW p \in Path, NEW noHackdiff \in BOOLEAN, NEW rules \in Requests,
         Main(p, noHackdiff, rules)
  PROVE  StoredInv'
<1>1. UNCHANGED <<head, tree, mapping, intended>>
  BY DEF Main
<1>2. CASE /\ call' = [path |-> p, rules |-> rules, todo |-> rules, made |-> FALSE, mapping |-> mapping]
           /\ UNCHANGED store
  BY <1>1, <1>2, BeginStored
<1>3. CASE UpdateHackDiff(p, DiffOf[head[p], tree[p]], rules)
  BY <1>1, <1>3, UpdateStored
<1>4. CASE UNCHANGED <<store, call>>
  BY <1>1, <1>4, RaiseStored
<1> QED BY <1>2, <1>3, <1>4 DEF Main

\* add_or_reuse_json_rule leaves every .hackdiff file as it is.
LEMMA AddOrReuseStored ==
  ASSUME UpdateInv, StoredInv, AddOrReuseJsonRule
  PROVE  StoredInv'
<1> DEFINE rule == Head(call.todo)
           p == call.path
<1>1. /\ UNCHANGED <<head, tree, mapping, intended>> /\ call # None /\ call.todo # <<>>
      /\ FilesOK(store) /\ ItemsIn(call.mapping, DOMAIN store) /\ p \in Path
      /\ call.todo \in Seq(JsonRules) /\ DOMAIN call = {"path", "rules", "todo", "made", "mapping"}
  BY DEF AddOrReuseJsonRule, UpdateInv, CallOK
<1>2. rule \in JsonRules
  BY <1>1
<1> HIDE DEF rule
<1>3. PICK n \in DOMAIN store' :
        /\ call' = [call EXCEPT !.todo = Tail(@), !.mapping = With(@, p, AppendOnce(Item(@, p), n))]
        /\ KindsStay(store, store') /\ store'[n].suffix = ".json"
        /\ \A m \in DOMAIN store : store'[m] = store[m]
        /\ \A m \in DOMAIN store' \ DOMAIN store : Len(store'[m].rules) \in Nat
  <2>1. CASE Holding(rule) # {}
    <3>1. PICK n \in Holding(rule) :
            /\ call' = [call EXCEPT !.todo = Tail(@), !.mapping = With(@, p, AppendOnce(Item(@, p), n))]
            /\ UNCHANGED store
      BY <2>1 DEF AddOrReuseJsonRule, rule
    <3> QED BY <3>1, SameKinds DEF Holding
  <2>2. CASE Holding(rule) = {}
    <3> DEFINE n == NewJsonName(rule)
               file == [suffix |-> ".json", rules |-> <<rule>>]
    <3>1. /\ call' = [call EXCEPT !.todo = Tail(@), !.mapping = With(@, p, AppendOnce(Item(@, p), n))]
          /\ store' = With(store, n, file)
      BY <2>2 DEF AddOrReuseJsonRule, rule
    <3>2. n \notin DOMAIN store
      BY <1>1, <1>2, NewJsonNameIsNew
    <3>3. file.suffix = ".json" /\ Len(file.rules) \in Nat
      OBVIOUS
    <3> HIDE DEF n, file
    <3>4. /\ DOMAIN store' = DOMAIN store \cup {n} /\ store'[n] = file
          /\ \A m \in DOMAIN store \ {n} : store'[m] = store[m]
      <4>1. store' = With(store, n, file)
        BY <3>1
      <4> QED BY <4>1 DEF With
    <3>5. KindsStay(store, store')
      BY <3>2, <3>4 DEF KindsStay
    <3> QED BY <3>1, <3>2, <3>3, <3>4, <3>5
  <2> QED BY <2>1, <2>2
<1> DEFINE map == With(call.mapping, p, AppendOnce(Item(call.mapping, p), n))
<1>4. call'.mapping = map /\ call'.path = p /\ call'.made = call.made
  BY <1>1, <1>3
<1>5. \A q \in Path : RuleName(q)' = RuleName(q)
  BY <1>1, <1>3, RuleNamesKept
<1>6. ASSUME NEW q \in Path PROVE FirstHackDiff(Item(map, q), store', Slug[q]) = RuleName(q)'
  <2>1. ItemsIn(call.mapping, DOMAIN store')
    BY <1>1, <1>3, ItemsStay DEF KindsStay
  <2>2. FirstHackDiff(Item(map, q), store', Slug[q]) = FirstHackDiff(Item(call.mapping, q), store', Slug[q])
    BY <1>1, <1>3, <2>1, FirstInMapping
  <2>3. FirstHackDiff(Item(call.mapping, q), store', Slug[q])
          = FirstHackDiff(Item(call.mapping, q), store, Slug[q])
    BY <1>1, <1>3, ItemNames, FirstStays
  <2> QED BY <1>1, <1>5, <2>2, <2>3 DEF StoredInv
<1> HIDE DEF map
<1>7. ASSUME NEW q \in Path, Stored(q) PROVE Stored(q)'
  <2>1. RuleName(q) \in DOMAIN store' /\ store'[RuleName(q)] = store[RuleName(q)]
    BY <1>3, <1>7 DEF Stored, KindsStay
  <2> QED BY <1>1, <1>5, <1>7, <2>1, StoredKept
<1>8. ASSUME NEW q \in DOMAIN intended', Own(q)' PROVE Stored(q)'
  <2>1. q \in DOMAIN intended /\ q \in Path
    BY <1>1 DEF UpdateInv, HistoryOK
  <2> QED BY <1>5, <1>7, <1>8, <2>1, OwnKept DEF StoredInv
<1>9. ASSUME NEW q \in Path, call'.made, q = call'.path PROVE Stored(q)' /\ q \in DOMAIN map
  BY <1>1, <1>4, <1>7, <1>9 DEF StoredInv, With, map
<1>10. \A m \in DOMAIN store' : store'[m].suffix = ".json" => Len(store'[m].rules) \in Nat
  BY <1>3 DEF StoredInv
<1>11. DOMAIN intended' \subseteq DOMAIN mapping'
  BY <1>1 DEF StoredInv
<1> QED BY <1>4, <1>6, <1>8, <1>9, <1>10, <1>11 DEF StoredInv

\* The mapping that is written names the rule files as the one before it does.
LEMMA WriteMappingStored ==
  ASSUME UpdateInv, StoredInv, WriteMapping
  PROVE  StoredInv'
<1>1. /\ UNCHANGED <<head, tree, store>> /\ mapping' = call.mapping /\ call' = None /\ call # None
      /\ intended' = IF call.made THEN With(intended, call.path, tree[call.path]) ELSE intended
  BY DEF WriteMapping
<1>2. ASSUME NEW q \in Path PROVE RuleName(q)' = RuleName(q)
  <2>1. RuleName(q)' = FirstHackDiff(Item(mapping, q)', store', Slug[q])
    BY DEF RuleName, FirstHackDiff, HackDiffPlaces
  <2>2. Item(mapping, q)' = Item(call.mapping, q)
    BY <1>1 DEF Item
  <2> QED BY <1>1, <2>1, <2>2 DEF StoredInv
<1>3. ASSUME NEW q \in Path, Stored(q) PROVE Stored(q)'
  BY <1>1, <1>2, <1>3, StoredKept DEF Stored
<1>4. ASSUME NEW q \in DOMAIN intended', Own(q)' PROVE Stored(q)'
  <2>1. q \in DOMAIN intended \/ (call.made /\ q = call.path)
    BY <1>1 DEF With
  <2>2. q \in Path
    BY <1>1, <2>1 DEF UpdateInv, HistoryOK, CallOK
  <2>3. CASE q \in DOMAIN intended
    BY <1>2, <1>3, <1>4, <2>2, <2>3, OwnKept DEF StoredInv
  <2>4. CASE call.made /\ q = call.path
    BY <1>1, <1>3, <2>2, <2>4 DEF StoredInv
  <2> QED BY <2>1, <2>3, <2>4
<1>5. DOMAIN intended' \subseteq DOMAIN mapping'
  <2>1. DOMAIN mapping \subseteq DOMAIN call.mapping
    BY <1>1 DEF UpdateInv, CallOK, Extends
  <2>2. call.made => call.path \in DOMAIN call.mapping
    BY <1>1 DEF StoredInv, UpdateInv, CallOK
  <2>3. DOMAIN intended' \subseteq DOMAIN intended \cup (IF call.made THEN {call.path} ELSE {})
    BY <1>1 DEF With
  <2> QED BY <1>1, <2>1, <2>2, <2>3 DEF StoredInv
<1> QED BY <1>1, <1>4, <1>5 DEF StoredInv

\* The rule file of a path that no other path's rule file is named like is made of
\* the path's last diff, whatever other calls do and wherever they are interrupted.
THEOREM StoredInvariant == Spec => []StoredInv
<1>1. UpdateInv /\ StoredInv /\ [Next]_vars => StoredInv'
  <2> SUFFICES ASSUME UpdateInv, StoredInv, [Next]_vars PROVE StoredInv'
    OBVIOUS
  <2>1. ASSUME NEW p \in Path, NEW lines \in Contents, Edit(p, lines) PROVE StoredInv'
    BY <2>1, EditStored
  <2>2. ASSUME NEW p \in Path, NEW noHackdiff \in BOOLEAN, NEW rules \in Requests, Main(p, noHackdiff, rules)
        PROVE  StoredInv'
    BY <2>2, MainStored
  <2>3. CASE AddOrReuseJsonRule
    BY <2>3, AddOrReuseStored
  <2>4. CASE WriteMapping
    BY <2>4, WriteMappingStored
  <2>5. CASE Interrupted
    BY <2>5, RaiseStored DEF Interrupted
  <2>6. CASE UNCHANGED vars
    BY <2>6, RaiseStored DEF vars
  <2> QED BY <2>1, <2>2, <2>3, <2>4, <2>5, <2>6 DEF Next
<1> QED BY <1>1, StoredInit, UpdateInvariant, PTL DEF Spec
-----------------------------------------------------------------------------
\* Rule files, or the rules of a JSON file, one after the other, whatever the
\* lines are.
Step(kind, lines, rule) == IF kind = "json" THEN ApplyJsonRule(lines, rule) ELSE ApplyRuleFile(lines, rule)

AfterStep(kind, result, rule) ==
  IF ~result.ok THEN result
  ELSE [ok    |-> Step(kind, result.lines, rule).ok,
        lines |-> Step(kind, result.lines, rule).lines,
        count |-> result.count + Step(kind, result.lines, rule).count]

Chain(after, kind, lines, rules) ==
  /\ after[0] = Unchanged(lines)
  /\ \A k \in 1..Len(rules) : after[k] = AfterStep(kind, after[k - 1], rules[k])

Repeated(f, kind, lines, rules, n) ==
  f = [k \in 0..n |-> IF k = 0 THEN Unchanged(lines) ELSE AfterStep(kind, f[k - 1], rules[k])]

\* Such a chain exists: there is no least length for which it does not.
LEMMA ChainExists ==
  ASSUME NEW kind, NEW lines, NEW rules, NEW n \in Nat
  PROVE  \E f : Repeated(f, kind, lines, rules, n)
<1> DEFINE Put(f, k) == IF k = 0 THEN Unchanged(lines) ELSE AfterStep(kind, f[k - 1], rules[k])
           Puts(f, m) == f = [k \in 0..m |-> f[k]] /\ \A k \in 0..m : f[k] = Put(f, k)
           bad == {m \in 0..n : ~(\E f : Puts(f, m))}
<1>1. bad = {}
  <2> SUFFICES ASSUME bad # {} PROVE FALSE
    OBVIOUS
  <2>1. bad \in SUBSET Nat
    OBVIOUS
  <2>2. PICK m \in bad : \A j \in bad : m <= j
    <3> HIDE DEF bad
    <3> QED BY <2>1, LeastOf
  <2>3. m \in 0..n /\ ~(\E f : Puts(f, m))
    OBVIOUS
  <2>4. CASE m = 0
    <3> DEFINE g == [k \in 0..0 |-> Unchanged(lines)]
    <3>1. Puts(g, 0)
      OBVIOUS
    <3> QED BY <2>3, <2>4, <3>1
  <2>5. CASE m # 0
    <3>1. m - 1 \in 0..n /\ ~(m <= m - 1)
      BY <2>3, <2>5
    <3>2. m - 1 \notin bad
      BY <2>2, <3>1
    <3>3. PICK f : Puts(f, m - 1)
      BY <3>1, <3>2
    <3> DEFINE g == [k \in 0..m |-> IF k = m THEN Put(f, m) ELSE f[k]]
    <3>4. g = [k \in 0..m |-> g[k]]
      OBVIOUS
    <3>5. ASSUME NEW k \in 0..m PROVE g[k] = Put(g, k)
      <4>1. k # 0 => g[k - 1] = f[k - 1]
        BY <2>3
      <4>2. g[k] = IF k = m THEN Put(f, m) ELSE f[k]
        OBVIOUS
      <4>3. k # m => f[k] = Put(f, k)
        <5>1. k # m => k \in 0..m - 1
          BY <2>3
        <5> QED BY <5>1, <3>3
      <4>4. Put(g, k) = Put(f, k)
        <5>1. CASE k = 0
          BY <5>1
        <5>2. CASE k # 0
          <6> HIDE DEF g
          <6> QED BY <4>1, <5>2
        <5> QED BY <5>1, <5>2
      <4> QED BY <4>2, <4>3, <4>4
    <3>6. Puts(g, m)
      BY <3>4, <3>5
    <3> QED BY <2>3, <3>6
  <2> QED BY <2>4, <2>5
<1>2. n \in 0..n /\ n \notin bad
  <2> HIDE DEF bad
  <2> QED BY <1>1
<1>3. PICK f : Puts(f, n)
  BY <1>2
<1>4. f = [k \in 0..n |-> Put(f, k)]
  <2>1. f = [k \in 0..n |-> f[k]]
    BY <1>3
  <2>2. \A k \in 0..n : f[k] = Put(f, k)
    BY <1>3
  <2> HIDE DEF Puts
  <2> QED BY <2>1, <2>2
<1> QED BY <1>4 DEF Repeated

FilesApplied(lines, files) == Applied(lines, files, ApplyRuleFile)

\* So a sequence of rule files, and one of JSON rules, has such a chain.
LEMMA FilesChain ==
  ASSUME NEW lines, NEW files, Len(files) \in Nat
  PROVE  \E after : /\ Chain(after, "file", lines, files)
                    /\ FilesApplied(lines, files) = after[Len(files)]
<1> DEFINE n == Len(files)
           start == Unchanged(lines)
           One(r, k) == IF ~r.ok THEN r
                        ELSE LET next == ApplyRuleFile(r.lines, files[k])
                             IN  [ok |-> next.ok, lines |-> next.lines,
                                  count |-> r.count + next.count]
           after == CHOOSE f : f = [k \in 0..n |-> IF k = 0 THEN start ELSE One(f[k - 1], k)]
<1>1. FilesApplied(lines, files) = after[n]
  BY DEF FilesApplied, Applied, Then
<1>2. \A r, k : One(r, k) = AfterStep("file", r, files[k])
  BY DEF AfterStep, Step
<1> HIDE DEF One
<1>3. PICK f : Repeated(f, "file", lines, files, n)
  BY ChainExists
<1>4. f = [k \in 0..n |-> IF k = 0 THEN start ELSE One(f[k - 1], k)]
  BY <1>2, <1>3 DEF Repeated
<1>5. after = [k \in 0..n |-> IF k = 0 THEN start ELSE One(after[k - 1], k)]
  BY <1>4
<1> HIDE DEF after
<1>6. after[0] = start /\ \A k \in 1..n : after[k] = One(after[k - 1], k)
  BY <1>5
<1> QED BY <1>1, <1>2, <1>6 DEF Chain

\* The same for the rules of one JSON file.
LEMMA JsonChain ==
  ASSUME NEW lines, NEW rules, Len(rules) \in Nat
  PROVE  \E after : /\ Chain(after, "json", lines, rules)
                    /\ Applied(lines, rules, ApplyJsonRule) = after[Len(rules)]
<1> DEFINE n == Len(rules)
           start == Unchanged(lines)
           One(r, k) == IF ~r.ok THEN r
                        ELSE LET next == ApplyJsonRule(r.lines, rules[k])
                             IN  [ok |-> next.ok, lines |-> next.lines,
                                  count |-> r.count + next.count]
           after == CHOOSE f : f = [k \in 0..n |-> IF k = 0 THEN start ELSE One(f[k - 1], k)]
<1>1. Applied(lines, rules, ApplyJsonRule) = after[n]
  BY DEF Applied, Then
<1>2. \A r, k : One(r, k) = AfterStep("json", r, rules[k])
  BY DEF AfterStep, Step
<1> HIDE DEF One
<1>3. PICK f : Repeated(f, "json", lines, rules, n)
  BY ChainExists
<1>4. f = [k \in 0..n |-> IF k = 0 THEN start ELSE One(f[k - 1], k)]
  BY <1>2, <1>3 DEF Repeated
<1>5. after = [k \in 0..n |-> IF k = 0 THEN start ELSE One(after[k - 1], k)]
  BY <1>4
<1> HIDE DEF after
<1>6. after[0] = start /\ \A k \in 1..n : after[k] = One(after[k - 1], k)
  BY <1>5
<1> QED BY <1>1, <1>2, <1>6 DEF Chain

\* Where no step raises, the end of the chain has not raised.
LEMMA ChainStaysOk ==
  ASSUME NEW kind, NEW lines, NEW rules, Len(rules) \in Nat, NEW after, Chain(after, kind, lines, rules),
         \A some : \A k \in 1..Len(rules) : Step(kind, some, rules[k]).ok
  PROVE  after[Len(rules)].ok
<1> DEFINE n == Len(rules)
           V == {0}
           f == [k \in 0..n |-> IF after[k].ok THEN 0 ELSE 1]
<1>1. f[0] \in V
  BY DEF Chain, Unchanged
<1>2. ASSUME NEW k \in 1..n, f[k - 1] \in V PROVE f[k] \in V
  <2>1. k - 1 \in 0..n /\ k \in 0..n
    OBVIOUS
  <2>2. after[k - 1].ok
    BY <1>2, <2>1
  <2>3. after[k] = AfterStep(kind, after[k - 1], rules[k])
    BY DEF Chain
  <2>4. after[k].ok = Step(kind, after[k - 1].lines, rules[k]).ok
    BY <2>2, <2>3 DEF AfterStep
  <2>5. after[k].ok
    BY <2>4
  <2> QED BY <2>1, <2>5
<1>3. n \in Nat /\ \A k \in 1..n : f[k - 1] \in V => f[k] \in V
  <2> HIDE DEF f
  <2> QED BY <1>2
<1> HIDE DEF f, n, V
<1>4. \A k \in 0..n : f[k] \in V
  BY <1>1, <1>3, StaysIn
<1> QED BY <1>3, <1>4 DEF f, n, V

\* apply_json_rule_file raises for no rule.
LEMMA JsonNeverRaises ==
  ASSUME NEW lines, NEW file, file.suffix = ".json", Len(file.rules) \in Nat
  PROVE  ApplyRuleFile(lines, file).ok
<1>1. PICK after : /\ Chain(after, "json", lines, file.rules)
                   /\ Applied(lines, file.rules, ApplyJsonRule) = after[Len(file.rules)]
  BY JsonChain
<1>2. ASSUME NEW some, NEW rule PROVE Step("json", some, rule).ok
  <2> DEFINE max  == IF rule.max = 0 THEN Len(some) ELSE rule.max
             hits == {i \in DOMAIN some : some[i].text = rule.from[1].text
                                          /\ ~(rule.skipInclude /\ some[i].include)}
             done == {i \in hits : Cardinality({j \in hits : j <= i}) <= max}
             text == Replace(some, rule.from, rule.to, max)
             new == [i \in DOMAIN some |->
                       IF i \in done THEN [some[i] EXCEPT !.text = rule.to[1].text] ELSE some[i]]
  <2>1. Step("json", some, rule) =
          IF rule.multiline THEN [ok |-> TRUE, lines |-> text.lines, count |-> text.count]
          ELSE [ok |-> TRUE, count |-> Cardinality(done), lines |-> new]
    BY DEF Step, ApplyJsonRule
  <2> HIDE DEF text, done, new
  <2> QED BY <2>1
<1>3. after[Len(file.rules)].ok
  BY <1>1, <1>2, ChainStaysOk
<1>4. ApplyRuleFile(lines, file) = Applied(lines, file.rules, ApplyJsonRule)
  BY DEF ApplyRuleFile
<1> QED BY <1>1, <1>3, <1>4

\* Nor does a sequence of JSON files.
LEMMA JsonFilesNeverRaise ==
  ASSUME NEW lines, NEW files, Len(files) \in Nat,
         \A i \in 1..Len(files) : files[i].suffix = ".json" /\ Len(files[i].rules) \in Nat
  PROVE  FilesApplied(lines, files).ok
<1>1. PICK after : /\ Chain(after, "file", lines, files)
                   /\ FilesApplied(lines, files) = after[Len(files)]
  BY FilesChain
<1>2. \A some : \A k \in 1..Len(files) : Step("file", some, files[k]).ok
  BY JsonNeverRaises DEF Step
<1>3. after[Len(files)].ok
  BY <1>1, <1>2, ChainStaysOk
<1> QED BY <1>1, <1>3

\* A file that does not raise and the files behind it: the same as the files
\* behind it on what the first one makes.
LEMMA FirstThenRest ==
  ASSUME NEW lines, NEW first, ApplyRuleFile(lines, first).ok,
         NEW rest, Len(rest) \in Nat, NEW files, Len(files) = Len(rest) + 1,
         files[1] = first, \A i \in 1..Len(rest) : files[i + 1] = rest[i],
         NEW middle, middle = ApplyRuleFile(lines, first).lines
  PROVE  /\ FilesApplied(lines, files).ok <=> FilesApplied(middle, rest).ok
         /\ FilesApplied(lines, files).lines = FilesApplied(middle, rest).lines
<1> DEFINE n == Len(rest)
           V == {0}
<1>1. PICK a : Chain(a, "file", lines, files) /\ FilesApplied(lines, files) = a[n + 1]
  BY FilesChain
<1>2. PICK b : Chain(b, "file", middle, rest) /\ FilesApplied(middle, rest) = b[n]
  BY FilesChain
<1> DEFINE Same(k) == (a[k + 1].ok <=> b[k].ok) /\ a[k + 1].lines = b[k].lines
           f == [k \in 0..n |-> IF Same(k) THEN 0 ELSE 1]
<1>3. Same(0)
  <2>1. a[1] = AfterStep("file", a[0], files[1]) /\ a[0] = Unchanged(lines) /\ b[0] = Unchanged(middle)
    <3>1. 1 \in 1..Len(files) /\ 1 - 1 = 0
      OBVIOUS
    <3> QED BY <1>1, <1>2, <3>1 DEF Chain
  <2>2. a[0].ok /\ a[0].lines = lines /\ b[0].ok /\ b[0].lines = middle
    BY <2>1 DEF Unchanged
  <2>3. Step("file", a[0].lines, files[1]) = ApplyRuleFile(lines, first)
    BY <2>2 DEF Step
  <2>4. a[1] = [ok    |-> ApplyRuleFile(lines, first).ok,
                lines |-> ApplyRuleFile(lines, first).lines,
                count |-> a[0].count + ApplyRuleFile(lines, first).count]
    BY <2>1, <2>2, <2>3 DEF AfterStep
  <2>5. a[1].ok /\ a[1].lines = middle
    BY <2>4
  <2> QED BY <2>2, <2>5
<1>4. ASSUME NEW k \in 1..n, Same(k - 1) PROVE Same(k)
  <2>1. a[k + 1] = AfterStep("file", a[k], files[k + 1])
    <3>1. k + 1 \in 1..Len(files) /\ (k + 1) - 1 = k
      OBVIOUS
    <3> QED BY <1>1, <3>1 DEF Chain
  <2>2. b[k] = AfterStep("file", b[k - 1], rest[k])
    BY <1>2 DEF Chain
  <2>3. (a[k].ok <=> b[k - 1].ok) /\ a[k].lines = b[k - 1].lines
    <3>1. (k - 1) + 1 = k
      OBVIOUS
    <3> QED BY <1>4, <3>1
  <2>4. files[k + 1] = rest[k]
    OBVIOUS
  <2> QED BY <2>1, <2>2, <2>3, <2>4 DEF AfterStep
<1>5. f[0] \in V /\ \A k \in 1..n : f[k - 1] \in V => f[k] \in V
  <2> HIDE DEF Same
  <2>1. f[0] \in V
    BY <1>3
  <2>2. ASSUME NEW k \in 1..n, f[k - 1] \in V PROVE f[k] \in V
    <3>1. k - 1 \in 0..n /\ k \in 0..n
      OBVIOUS
    <3>2. Same(k - 1)
      BY <2>2, <3>1
    <3> QED BY <1>4, <3>1, <3>2
  <2> QED BY <2>1, <2>2
<1>6. n \in Nat
  OBVIOUS
<1> HIDE DEF Same, f, n, V
<1>7. \A k \in 0..n : f[k] \in V
  BY <1>5, <1>6, StaysIn
<1>8. Same(n)
  BY <1>6, <1>7 DEF f, V
<1> QED BY <1>1, <1>2, <1>8 DEF Same
-----------------------------------------------------------------------------
\* The names of one kind of file in an item.
NamesOfKind(names, suffix) == {n \in ToSet(names) : store[n].suffix = suffix}

LEMMA OfKindNames ==
  ASSUME NEW S, NEW names \in Seq(S), NEW suffix
  PROVE  /\ OfKind(names, suffix) \in Seq(NamesOfKind(names, suffix))
         /\ ToSet(OfKind(names, suffix)) = NamesOfKind(names, suffix)
<1> DEFINE n == Len(names)
           T == NamesOfKind(names, suffix)
           seqs == [i \in 1..n |-> IF store[names[i]].suffix = suffix THEN <<names[i]>> ELSE <<>>]
<1>1. n \in Nat /\ DOMAIN names = 1..n
  OBVIOUS
<1>2. OfKind(names, suffix) = FlattenSeq(seqs)
  BY <1>1 DEF OfKind
<1>3. ASSUME NEW i \in 1..n, store[names[i]].suffix = suffix PROVE names[i] \in T
  BY <1>1, <1>3 DEF NamesOfKind, ToSet
<1>4. \A i \in 1..n : names[i] \in T => <<names[i]>> \in Seq(T)
  <2> HIDE DEF T
  <2> QED OBVIOUS
<1>5. <<>> \in Seq(T)
  BY EmptySeq
<1>6. seqs \in [1..n -> Seq(T)]
  <2> HIDE DEF T
  <2> QED BY <1>3, <1>4, <1>5
<1>7. FlattenSeq(seqs) \in Seq(T)
  <2> HIDE DEF T, seqs
  <2> QED BY <1>1, <1>6, FlattenedIsSeq
<1>8. ToSet(FlattenSeq(seqs)) \subseteq T
  <2> HIDE DEF T, seqs
  <2>1. \A i \in 1..Len(FlattenSeq(seqs)) : FlattenSeq(seqs)[i] \in T
    BY <1>7, ElementOfSeq
  <2>2. DOMAIN FlattenSeq(seqs) = 1..Len(FlattenSeq(seqs))
    BY <1>7, LenProperties
  <2> QED BY <2>1, <2>2 DEF ToSet
<1>9. ASSUME NEW x \in T PROVE x \in ToSet(FlattenSeq(seqs))
  <2>1. PICK i \in 1..n : names[i] = x /\ store[x].suffix = suffix
    BY <1>1 DEF NamesOfKind, ToSet
  <2>2. seqs[i] = <<x>>
    BY <2>1
  <2>3. x \in ToSet(seqs[i])
    BY <2>2, OneIsSeq
  <2> HIDE DEF T, seqs, n
  <2> QED BY <1>1, <1>6, <2>3, FlattenedHas
<1> QED BY <1>2, <1>7, <1>8, <1>9

\* An item with one .hackdiff file has the path's rule file.
LEMMA OnlyHackDiff ==
  ASSUME NEW p \in DOMAIN mapping, NEW S, mapping[p] \in Seq(S), Len(HackDiffsOf(mapping[p])) = 1
  PROVE  HackDiffsOf(mapping[p]) = <<RuleName(p)>>
<1> DEFINE names == mapping[p]
           H == HackDiffsOf(names)
           T == NamesOfKind(names, ".hackdiff")
           places == {i \in DOMAIN names : store[names[i]].suffix = ".hackdiff"}
<1>1. H \in Seq(T) /\ ToSet(H) = T
  BY OfKindNames DEF HackDiffsOf
<1>2. H = <<H[1]>> /\ T = {H[1]}
  <2> HIDE DEF H, T
  <2>1. DOMAIN H = 1..1
    BY <1>1, LenProperties DEF H
  <2>2. ToSet(H) = {H[1]}
    BY <2>1 DEF ToSet
  <2> QED BY <1>1, <2>1, <2>2 DEF H
<1>3. places # {}
  <2>1. H[1] \in T
    <3> HIDE DEF H, T
    <3> QED BY <1>2
  <2> HIDE DEF H
  <2> QED BY <2>1 DEF NamesOfKind, ToSet
<1>4. DOMAIN names = 1..Len(names)
  BY LenProperties
<1>5. places \in SUBSET Nat
  BY <1>4
<1>6. Min(places) \in places
  <2> HIDE DEF places
  <2> QED BY <1>3, <1>5, MinInSet
<1>7. names[Min(places)] \in T
  BY <1>6 DEF NamesOfKind, ToSet
<1>8. RuleName(p) = names[Min(places)]
  BY <1>3 DEF RuleName, Item
<1> HIDE DEF H, T, places
<1>9. RuleName(p) = H[1]
  BY <1>2, <1>7, <1>8
<1> QED BY <1>2, <1>9 DEF H

FilesOf(names) == [i \in DOMAIN names |-> store[names[i]]]

\* The rule files of a path, the .hackdiff one before the JSON ones.
LEMMA FilesOfPath ==
  ASSUME NEW x, NEW S, NEW names \in Seq(S), NEW lines
  PROVE  /\ Len(FilesOf(names)) \in Nat /\ Len(FilesOf(<<x>> \o names)) = Len(FilesOf(names)) + 1
         /\ FilesOf(<<x>> \o names)[1] = store[x]
         /\ \A i \in 1..Len(FilesOf(names)) : FilesOf(<<x>> \o names)[i + 1] = FilesOf(names)[i]
         /\ ReplayNames(lines, names) = FilesApplied(lines, FilesOf(names))
         /\ ReplayNames(lines, <<x>> \o names) = FilesApplied(lines, FilesOf(<<x>> \o names))
<1> DEFINE all   == <<x>> \o names
           rest  == [i \in DOMAIN names |-> store[names[i]]]
           files == [i \in DOMAIN all |-> store[all[i]]]
           T == S \cup {x}
<1>1. names \in Seq(T) /\ <<x>> \in Seq(T) /\ Len(<<x>>) = 1 /\ <<x>>[1] = x
  OBVIOUS
<1>2. all \in Seq(T) /\ Len(all) = 1 + Len(names) /\ Len(names) \in Nat
      /\ \A i \in 1..1 + Len(names) : all[i] = IF i <= 1 THEN <<x>>[i] ELSE names[i - 1]
  <2> HIDE DEF T
  <2> QED BY <1>1, ConcatProperties, LenProperties
<1>3. DOMAIN names = 1..Len(names) /\ DOMAIN all = 1..Len(names) + 1
  <2> HIDE DEF T, all
  <2> QED BY <1>1, <1>2, LenProperties
<1>4. ReplayNames(lines, names) = FilesApplied(lines, rest)
  BY DEF ReplayNames, FilesApplied
<1>5. ReplayNames(lines, all) = FilesApplied(lines, files)
  BY DEF ReplayNames, FilesApplied
<1> HIDE DEF all
<1>6. Len(rest) = Len(names) /\ Len(files) = Len(names) + 1
  BY <1>2, <1>3
<1>7. files[1] = store[x]
  <2>1. 1 \in 1..1 + Len(names) /\ 1 \in DOMAIN all
    BY <1>2, <1>3
  <2>2. all[1] = x
    BY <1>1, <1>2, <2>1
  <2> QED BY <2>1, <2>2
<1>8. ASSUME NEW i \in 1..Len(names) PROVE files[i + 1] = rest[i]
  <2>1. i + 1 \in 1..1 + Len(names) /\ i + 1 \in DOMAIN all /\ ~(i + 1 <= 1) /\ (i + 1) - 1 = i
    BY <1>2, <1>3
  <2>2. all[i + 1] = names[i]
    BY <1>2, <2>1
  <2> QED BY <1>3, <2>1, <2>2
<1>9. FilesOf(names) = rest /\ FilesOf(all) = files
  BY DEF FilesOf
<1> HIDE DEF rest, files
<1> QED BY <1>2, <1>4, <1>5, <1>6, <1>7, <1>8, <1>9 DEF all

\* The JSON files of an item do not raise.
LEMMA JsonsNeverRaise ==
  ASSUME UpdateInv, StoredInv, NEW p \in DOMAIN mapping, NEW lines
  PROVE  ReplayNames(lines, JsonsOf(mapping[p])).ok /\ \E S : JsonsOf(mapping[p]) \in Seq(S)
<1> DEFINE names == JsonsOf(mapping[p])
           T == NamesOfKind(mapping[p], ".json")
           files == [i \in DOMAIN names |-> store[names[i]]]
<1>1. mapping[p] \in Seq(DOMAIN store)
  BY DEF UpdateInv, ItemsIn
<1>2. names \in Seq(T)
  BY <1>1, OfKindNames DEF JsonsOf
<1>3. DOMAIN names = 1..Len(names) /\ Len(names) \in Nat /\ \A i \in 1..Len(names) : names[i] \in T
  <2> HIDE DEF names, T
  <2> QED BY <1>2, LenProperties, ElementOfSeq
<1>4. ToSet(mapping[p]) \subseteq DOMAIN store
  <2>1. \A i \in 1..Len(mapping[p]) : mapping[p][i] \in DOMAIN store
    BY <1>1, ElementOfSeq
  <2>2. DOMAIN mapping[p] = 1..Len(mapping[p])
    BY <1>1, LenProperties
  <2> QED BY <2>1, <2>2 DEF ToSet
<1>5. \A n \in T : n \in DOMAIN store /\ store[n].suffix = ".json" /\ Len(store[n].rules) \in Nat
  BY <1>4 DEF NamesOfKind, StoredInv
<1> HIDE DEF names, T
<1>6. Len(files) = Len(names)
  BY <1>3
<1>7. \A i \in 1..Len(files) : files[i].suffix = ".json" /\ Len(files[i].rules) \in Nat
  BY <1>3, <1>5, <1>6
<1>8. FilesApplied(lines, files).ok
  <2> HIDE DEF files
  <2> QED BY <1>3, <1>6, <1>7, JsonFilesNeverRaise
<1>9. ReplayNames(lines, names) = FilesApplied(lines, files)
  BY DEF ReplayNames, FilesApplied
<1> QED BY <1>2, <1>8, <1>9 DEF names

\* In a state of the invariants, if the hunks of a diff are found again.
LEMMA ExpressibleIsReplayed ==
  ASSUME UpdateInv, StoredInv, DiffsReplay
  PROVE  ReplayOfExpressible
<1> SUFFICES ASSUME NEW p \in DOMAIN intended, Expressible(p)
             PROVE  Replayed(p).ok /\ Replayed(p).lines = intended[p]
  BY DEF ReplayOfExpressible
<1> DEFINE J == JsonsOf(mapping[p])
           x == RuleName(p)
           rest  == FilesOf(J)
           files == FilesOf(<<x>> \o J)
           result == ApplyRuleFile(head[p], store[x])
<1>1. p \in Path /\ p \in DOMAIN mapping /\ intended[p] = tree[p] /\ head[p] \in Contents /\ tree[p] \in Contents
  BY DEF UpdateInv, HistoryOK, StoredInv, Restrict
<1>2. Stored(p)
  <2>1. Own(p)
    BY DEF Expressible, Own
  <2> QED BY <2>1 DEF StoredInv
<1>3. HackDiffsOf(mapping[p]) = <<x>>
  <2>1. mapping[p] \in Seq(DOMAIN store)
    BY <1>1 DEF UpdateInv, ItemsIn
  <2>2. Len(HackDiffsOf(mapping[p])) = 1
    BY DEF Expressible
  <2> QED BY <1>1, <2>1, <2>2, OnlyHackDiff
<1>4. result.ok /\ result.lines = intended[p]
  <2>1. store[x] = MadeOf(head[p], tree[p]) /\ Diffable(head[p], tree[p])
    BY <1>2 DEF Stored
  <2>2. NoSingleSpace(tree[p]) /\ NoHeader(head[p]) /\ NoHeader(tree[p])
    BY <1>1 DEF Expressible
  <2>3. ASSUME NEW old \in Contents, NEW new \in Contents, Diffable(old, new),
               NoSingleSpace(new), NoHeader(old), NoHeader(new)
        PROVE  ApplyRuleFile(old, MadeOf(old, new)).ok /\ ApplyRuleFile(old, MadeOf(old, new)).lines = new
    BY <2>3 DEF DiffsReplay, Diffable
  <2> QED BY <1>1, <2>1, <2>2, <2>3
<1>5. PICK S : J \in Seq(S)
  BY <1>1, JsonsNeverRaise
<1>6. /\ Len(rest) \in Nat /\ Len(files) = Len(rest) + 1
      /\ files[1] = store[x] /\ \A i \in 1..Len(rest) : files[i + 1] = rest[i]
      /\ ReplayNames(intended[p], J) = FilesApplied(intended[p], rest)
      /\ ReplayNames(head[p], <<x>> \o J) = FilesApplied(head[p], files)
  <2> HIDE DEF J, x
  <2> QED BY <1>5, FilesOfPath
<1>7. Replayed(p) = FilesApplied(head[p], files)
  BY <1>3, <1>6 DEF Replayed
<1>8. ReplayNames(intended[p], J).ok /\ ReplayNames(intended[p], J).lines = intended[p]
  <2>1. ReplayNames(intended[p], J).ok
    BY <1>1, JsonsNeverRaise
  <2> QED BY <2>1 DEF Expressible
<1> HIDE DEF J, x, rest, files, result
<1>9. /\ FilesApplied(head[p], files).ok <=> FilesApplied(intended[p], rest).ok
      /\ FilesApplied(head[p], files).lines = FilesApplied(intended[p], rest).lines
  <2>1. ApplyRuleFile(head[p], store[x]).ok /\ intended[p] = ApplyRuleFile(head[p], store[x]).lines
    BY <1>4 DEF result
  <2> QED BY <1>6, <2>1, FirstThenRest
<1> QED BY <1>6, <1>7, <1>8, <1>9

\* What the tool was given comes back, where a diff's hunks are found again in
\* the lines they are from: whatever rules are made for other files, whatever was
\* made for this one before, and wherever other calls were interrupted.
THEOREM ExpressibleComesBack == DiffsReplay => (Spec => []ReplayOfExpressible)
<1> SUFFICES ASSUME DiffsReplay PROVE Spec => []ReplayOfExpressible
  OBVIOUS
<1>1. UpdateInv /\ StoredInv => ReplayOfExpressible
  BY ExpressibleIsReplayed
<1> QED BY <1>1, UpdateInvariant, StoredInvariant, PTL
=============================================================================
