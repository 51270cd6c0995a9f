---------------------------- MODULE HackRuleUpdate ----------------------------
(***************************************************************************)
(* tools/update_hack_rule_from_diff.py: a developer edits files of the     *)
(* Paddle tree and has the tool turn each file's git diff into a .hackdiff *)
(* rule, or attach a JSON rule; later the rules are replayed on the        *)
(* committed files by tools/apply_hack_rules.py.                           *)
(***************************************************************************)
EXTENDS HackRuleEngine, FiniteSetsExt

CONSTANTS Contents, \* file contents to choose from
          Commits,  \* functions from path to contents: what may be committed
          Context,  \* lines of context in a diff
          JsonRules,\* JSON rules that can be asked for
          Requests, \* sequences of them that one call asks for
          Slug,     \* path -> name of the .hackdiff file that is made for it
          JsonSlug, \* JSON rule -> first name of the file that is made for it
          Mapping0, \* path -> names of its rule files, at first
          Store0,   \* name -> rule file, at first
          Path,     \* files of the Paddle tree
          MaxSteps  \* bound: edits and calls of the tool

\* A name that the tool makes for a file says which kind of file it is, so a
\* .hackdiff file never has the name of a JSON one.  JsonName(rule, k) is the
\* name of the k-th file of a rule: a_to_b, a_to_b_2, a_to_b_2_3.
JsonName(rule, k) == JsonSlug[rule] \o [i \in 1..k |-> i + 1]

ASSUME NamesAssumption ==
  /\ Slug \in [Path -> Seq(STRING)] /\ JsonSlug \in [JsonRules -> Seq(STRING)]
  /\ \A p \in Path, rule \in JsonRules : \A k \in 0..Len(Slug[p]) : Slug[p] # JsonName(rule, k)

ASSUME FilesAssumption ==
  /\ Commits \subseteq [Path -> Contents] /\ MaxSteps \in Nat
  /\ \A rules \in Requests : rules \in Seq(JsonRules)

\* What the repository has at first: rule files that can be read, and every item
\* names files that are there.
ASSUME RepositoryAssumption ==
  /\ IsFiniteSet(DOMAIN Store0)
  /\ \A n \in DOMAIN Store0 : Store0[n].suffix \in {".hackdiff", ".json"} /\ IsRuleFile(Store0[n])
  /\ \A p \in Path : Slug[p] \in DOMAIN Store0 => Store0[Slug[p]].suffix = ".hackdiff"
  /\ DOMAIN Mapping0 \subseteq Path
  /\ \A p \in DOMAIN Mapping0 : Mapping0[p] \in Seq(DOMAIN Store0) /\ IsInjective(Mapping0[p])

VARIABLES
  head,     \* path -> committed lines
  tree,     \* path -> lines in the working tree
  mapping,  \* path -> names of its rule files; undefined where there is no item
  store,    \* the files under hack/rules
  call,     \* the running call of the tool, None between two calls
  intended, \* history: what a file's rules were made from; undefined where they
            \* were not, or the file was edited since
  asked,    \* history: path -> JSON rules that calls were asked to attach
  steps

vars == <<head, tree, mapping, store, call, intended, asked, steps>>

None == [path |-> "none"]

\* The function f with value at x, which need not be in its domain.
With(f, x, value) == [y \in DOMAIN f \cup {x} |-> IF y = x THEN value ELSE f[y]]

\* The texts of a line that makes its entry in a diff look like a header.
HeaderText == [sign \in {"-", "+"} |-> IF sign = "-" THEN "-- " ELSE "++ "]

TypeOK ==
  /\ head \in [Path -> Contents]
  /\ tree \in [Path -> Contents]
  /\ DOMAIN mapping \subseteq Path
  /\ \A p \in DOMAIN mapping : /\ ToSet(mapping[p]) \subseteq DOMAIN store
                               /\ IsInjective(mapping[p])
  /\ \A n \in DOMAIN store : store[n].suffix \in {".hackdiff", ".json"}
  /\ call # None => /\ call.path \in Path
                    /\ DOMAIN mapping \subseteq DOMAIN call.mapping
                    /\ ToSet(call.todo) \subseteq ToSet(call.rules)
  /\ DOMAIN intended \subseteq Path /\ intended = Restrict(tree, DOMAIN intended)
  /\ asked \in [Path -> SUBSET JsonRules]
  /\ steps \in 0..MaxSteps

Init ==
  /\ head \in Commits
  /\ tree = head
  /\ mapping = Mapping0
  /\ store = Store0
  /\ call = None
  /\ intended = <<>>
  /\ asked = [p \in Path |-> {}]
  /\ steps = 0

Edit(p, lines) ==
  /\ call = None
  /\ steps < MaxSteps /\ steps' = steps + 1
  /\ lines # tree[p]
  /\ tree' = [tree EXCEPT ![p] = lines]
  /\ intended' = Restrict(intended, DOMAIN intended \ {p})
  /\ UNCHANGED <<head, mapping, store, call, asked>>
-----------------------------------------------------------------------------
\* git diff: a shortest edit script, old lines before new ones.
Script(old, new) ==
  LET Kept(s) == Cardinality({k \in DOMAIN s : s[k].sign = " "})
      Entry(sign, line, rest) == <<[sign |-> sign, line |-> line]>> \o rest
      from[i \in 1..(Len(old) + 1), j \in 1..(Len(new) + 1)] ==
        CASE i > Len(old) -> [k \in 1..(Len(new) - j + 1) |-> Plus(new[j + k - 1])]
          [] i <= Len(old) /\ j > Len(new) -> [k \in 1..(Len(old) - i + 1) |-> Minus(old[i + k - 1])]
          [] i <= Len(old) /\ j <= Len(new) ->
               IF old[i] = new[j] THEN Entry(" ", old[i], from[i + 1, j + 1])
               ELSE IF Kept(from[i + 1, j]) >= Kept(from[i, j + 1])
                    THEN Entry("-", old[i], from[i + 1, j])
                    ELSE Entry("+", new[j], from[i, j + 1])
  IN  from[1, 1]

\* parse_unified_diff: the hunks are the runs of entries that have a change
\* within Context lines.  A changed line whose text, behind its sign, looks like
\* the header of a file ("--- ", "+++ ") is passed over.
Hunks(old, new) ==
  LET script == Script(old, new)
      shown  == {k \in DOMAIN script :
                   \E c \in DOMAIN script : /\ script[c].sign # " "
                                           /\ c \in (k - Context)..(k + Context)}
      firsts == {k \in shown : k - 1 \notin shown}
      Run(k) == SubSeq(script, k, Max({l \in shown : k..l \subseteq shown}))
      Header(e) == e.sign # " " /\ e.line.text = HeaderText[e.sign]
      Side(run, sign) ==
        LET side == SelectSeq(run, LAMBDA e : e.sign \in {" ", sign} /\ ~Header(e))
        IN  [i \in DOMAIN side |-> side[i].line]
      ordered == SetToSortSeq(firsts, LAMBDA k, l : k < l)
  IN  [h \in DOMAIN ordered |-> [old |-> Side(Run(ordered[h]), "-"), new |-> Side(Run(ordered[h]), "+")]]

\* git diff of every two contents.
DiffOf == [pair \in Contents \X Contents |-> Hunks(pair[1], pair[2])]

\* hackdiff_block
HackDiffBlock(hunk) ==
  [i \in DOMAIN hunk.old |-> Minus(hunk.old[i])] \o [i \in DOMAIN hunk.new |-> Plus(hunk.new[i])]

\* find_mapping_item, ensure_mapping_item
Item(map, p) == IF p \in DOMAIN map THEN map[p] ELSE <<>>

\* update_hackdiff_rule: the target's first .hackdiff file, or one named for it
\* by rule_name_for_path, which may be the name of another target's.
RuleName(p) ==
  LET names  == Item(mapping, p)
      places == {i \in DOMAIN names : store[names[i]].suffix = ".hackdiff"}
  IN  IF places = {} THEN Slug[p] ELSE names[Min(places)]

\* Mutant of AppendOnce.
AppendAlways(names, n) == Append(names, n)

\* append_rule_once
AppendOnce(names, n) == IF Contains(names, n) THEN names ELSE Append(names, n)

\* Mutant of Blocks: the new blocks go after those of an earlier diff.
BlocksAppended(p, hunks) ==
  (IF RuleName(p) \in DOMAIN store THEN store[RuleName(p)].blocks ELSE <<>>)
  \o [h \in DOMAIN hunks |-> HackDiffBlock(hunks[h])]

\* What update_hackdiff_rule writes over the rule file.
Blocks(p, hunks) == [h \in DOMAIN hunks |-> HackDiffBlock(hunks[h])]

\* update_hackdiff_rule, called with the mapping still in memory.  A hunk without
\* old lines raises before anything is written.
UpdateHackDiff(p, hunks, rules) ==
  /\ hunks # <<>> /\ \A h \in DOMAIN hunks : hunks[h].old # <<>>
  /\ store' = With(store, RuleName(p), [suffix |-> ".hackdiff", blocks |-> Blocks(p, hunks)])
  /\ call' = [path |-> p, rules |-> rules, todo |-> rules, made |-> TRUE,
              mapping |-> With(mapping, p, AppendOnce(Item(mapping, p), RuleName(p)))]

\* main, up to the rules asked for by --json-rule.  A dry run has these
\* conditions and writes nothing.
Main(p, noHackdiff, rules) ==
  /\ call = None
  /\ steps < MaxSteps /\ steps' = steps + 1
  /\ IF noHackdiff \/ tree[p] = head[p]
     THEN /\ call' = [path |-> p, rules |-> rules, todo |-> rules, made |-> FALSE, mapping |-> mapping]
          /\ UNCHANGED store
     ELSE LET hunks == DiffOf[head[p], tree[p]]
          IN  \/ UpdateHackDiff(p, hunks, rules)
              \/ /\ \E h \in DOMAIN hunks : hunks[h].old = <<>>
                 /\ UNCHANGED <<store, call>>
  /\ UNCHANGED <<head, tree, mapping, intended, asked>>

\* existing_json_rule: files that hold a rule with the same from and to, among
\* others perhaps, and whatever else the rule says.
Holding(rule) ==
  {n \in DOMAIN store : /\ store[n].suffix = ".json"
                        /\ \E r \in ToSet(store[n].rules) : r.from = rule.from /\ r.to = rule.to}

\* Mutant of NewJsonName: the name is taken as it is.
NewJsonNameTaken(rule) == JsonSlug[rule]

\* replacement_rule_name, made longer until there is no such file.
NewJsonName(rule) ==
  LET free == {k \in 0..Cardinality(DOMAIN store) : JsonName(rule, k) \notin DOMAIN store}
  IN  JsonName(rule, Min(free))

\* add_or_reuse_json_rule
AddOrReuseJsonRule ==
  /\ call # None /\ call.todo # <<>>
  /\ LET rule == Head(call.todo)
         p    == call.path
         Attach(n) == call' = [call EXCEPT !.todo = Tail(@),
                                           !.mapping = With(@, p, AppendOnce(Item(@, p), n))]
     IN  IF Holding(rule) # {}
         THEN \E n \in Holding(rule) : Attach(n) /\ UNCHANGED store
         ELSE /\ Attach(NewJsonName(rule))
              /\ store' = With(store, NewJsonName(rule), [suffix |-> ".json", rules |-> <<rule>>])
  /\ UNCHANGED <<head, tree, mapping, intended, asked, steps>>

\* The end of main: the mapping is written.
WriteMapping ==
  /\ call # None /\ call.todo = <<>>
  /\ mapping' = call.mapping
  /\ call' = None
  /\ intended' = IF call.made THEN With(intended, call.path, tree[call.path]) ELSE intended
  /\ asked' = [asked EXCEPT ![call.path] = @ \cup ToSet(call.rules)]
  /\ UNCHANGED <<head, tree, store, steps>>

\* The call is interrupted, or an exception ends it: rule files may be written
\* that the mapping does not name.
Interrupted ==
  /\ call # None
  /\ call' = None
  /\ UNCHANGED <<head, tree, mapping, store, intended, asked, steps>>

Next ==
  \/ \E p \in Path, lines \in Contents : Edit(p, lines)
  \/ \E p \in Path, noHackdiff \in BOOLEAN, rules \in Requests :
        (noHackdiff => rules # <<>>) /\ Main(p, noHackdiff, rules)
  \/ AddOrReuseJsonRule \/ WriteMapping \/ Interrupted

Spec == Init /\ [][Next]_vars
-----------------------------------------------------------------------------
OfKind(names, suffix) ==
  FlattenSeq([i \in DOMAIN names |->
    IF store[names[i]].suffix = suffix THEN <<names[i]>> ELSE <<>>])
HackDiffsOf(names) == OfKind(names, ".hackdiff")
JsonsOf(names) == OfKind(names, ".json")

\* The rule files of a target, replayed on its committed lines.
ReplayNames(lines, names) ==
  Applied(lines, [i \in DOMAIN names |-> store[names[i]]], ApplyRuleFile)

Replayed(p) == ReplayNames(head[p], HackDiffsOf(mapping[p]) \o JsonsOf(mapping[p]))

\* What the tool was given can be expressed: the target's .hackdiff file is its
\* only one and neither somebody else's nor the one that would be made for
\* somebody else, its JSON rules have nothing left to replace, no line that is
\* written has exactly one space before it, and no line looks like a header.
NoSingleSpace(lines) == \A i \in DOMAIN lines : lines[i].indent # 1
NoHeader(lines) == \A line \in ToSet(lines) : line.text \notin Range(HeaderText)
Expressible(p) ==
  /\ Len(HackDiffsOf(mapping[p])) = 1
  /\ \A q \in Path \ {p} : RuleName(q) # RuleName(p) /\ ~Contains(Item(mapping, q), RuleName(p))
  /\ ReplayNames(intended[p], JsonsOf(mapping[p])).lines = intended[p]
  /\ NoSingleSpace(intended[p]) /\ NoHeader(head[p]) /\ NoHeader(intended[p])

\* What the tool was given comes back: the rules made from a file's diff turn
\* the committed file into the file that the developer had, whatever rules are
\* made for other files, whatever was made for this one before, and wherever
\* other calls were interrupted.
ReplayOfExpressible ==
  \A p \in DOMAIN intended : Expressible(p) =>
    Replayed(p).ok /\ Replayed(p).lines = intended[p]

\* The .hackdiff file that is made of a diff.
MadeOf(old, new) ==
  [suffix |-> ".hackdiff", blocks |-> [h \in DOMAIN DiffOf[old, new] |-> HackDiffBlock(DiffOf[old, new][h])]]

\* The part of this that is about texts alone: the hunks of one diff, applied to
\* the old lines one after the other, are found where they were.
DiffsReplay ==
  \A old, new \in Contents :
    LET hunks  == DiffOf[old, new]
        result == ApplyRuleFile(old, MadeOf(old, new))
    IN  /\ hunks # <<>> /\ \A h \in DOMAIN hunks : hunks[h].old # <<>>
        /\ NoSingleSpace(new) /\ NoHeader(old) /\ NoHeader(new)
        => result.ok /\ result.lines = new

\* A JSON rule that a completed call attached to a file stays attached: the file
\* names a rule file that has it, whatever rules other calls name alike.
JsonRulesKept ==
  \A p \in Path : \A rule \in asked[p] :
    /\ p \in DOMAIN mapping
    /\ \E n \in ToSet(mapping[p]) : n \in Holding(rule)

\* hack/README.md:225, "`+` lines are the replacement text to write": also
\* where a line has exactly one space before it.
ReplayIsExact ==
  \A p \in DOMAIN intended : Replayed(p).lines = intended[p]
=============================================================================
