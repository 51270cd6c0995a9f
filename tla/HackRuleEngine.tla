---------------------------- MODULE HackRuleEngine ----------------------------
(***************************************************************************)
(* The rule engine of tools/apply_hack_rules.py, which turns a file of the *)
(* Paddle tree into its MUSA variant: parsing of .hackdiff blocks, matching*)
(* and replacing of line blocks, and JSON replacement rules.               *)
(*                                                                         *)
(* A line is its indentation, whether it mentions "include", and the rest  *)
(* as one symbol; a file is a sequence of lines.  A .hackdiff file is a    *)
(* sequence of blocks, a block a sequence of signed lines.                 *)
(***************************************************************************)
EXTENDS Naturals, Sequences, SequencesExt, FiniteSets

Line(indent, text) == [indent |-> indent, include |-> FALSE, text |-> text]
Include(text) == [indent |-> 0, include |-> TRUE, text |-> text]
Minus(line) == [sign |-> "-", line |-> line]
Plus(line) == [sign |-> "+", line |-> line]
EmptyLine == Line(0, "")

\* What the parsers make: lines, and the rules of a JSON file.
AnyLine == [indent : Nat, include : BOOLEAN, text : STRING]
AnyText == Seq(AnyLine)
JsonRule ==
  {rule \in [from : AnyText, to : AnyText, skipInclude : BOOLEAN, multiline : BOOLEAN, max : Nat] :
     ~rule.multiline => Len(rule.from) = 1 /\ Len(rule.to) = 1}
IsRuleFile(file) ==
  /\ file.suffix = ".hackdiff" => file.blocks \in Seq(Seq([sign : {"-", "+"}, line : AnyLine]))
  /\ file.suffix = ".json" => file.rules \in Seq(JsonRule)

Unsigned(signed, sign) ==
  FlattenSeq([i \in DOMAIN signed |-> IF signed[i].sign = sign THEN <<signed[i].line>> ELSE <<>>])
-----------------------------------------------------------------------------
\* strip_one_space_after_prefix
StripOneSpace(line) == IF line.indent = 0 THEN line ELSE [line EXCEPT !.indent = @ - 1]

\* Mutant of StripSingleSpace: a space is taken from every indented line.
StripAnySpace(line) == StripOneSpace(line)

\* strip_single_separator_space: only if it is the only one.
StripSingleSpace(line) == IF line.indent = 1 THEN [line EXCEPT !.indent = 0] ELSE line

\* parse_hackdiff_rule_block: "-" lines first, then "+" lines.
IsValid(block) ==
  \E k \in 1..Len(block) :
     \A i \in DOMAIN block : block[i].sign = IF i <= k THEN "-" ELSE "+"

\* A block of nothing but "-" is no rule.
IsSkipped(block) == \A i \in DOMAIN block : block[i] = Minus(EmptyLine)

HackDiffRule(block) ==
  LET Map(Op(_), s) == [i \in DOMAIN s |-> Op(s[i])]
      old == Unsigned(block, "-")
      new == Unsigned(block, "+")
  IN  [old |-> old,
       new |-> Map(StripSingleSpace, new),
       relaxedOld |-> Map(StripOneSpace, old),
       relaxedNew |-> Map(StripOneSpace, new)]

\* load_hackdiff_rules
Rules(blocks) ==
  FlattenSeq([i \in DOMAIN blocks |->
    IF IsSkipped(blocks[i]) THEN <<>> ELSE <<HackDiffRule(blocks[i])>>])

Loads(blocks) ==
  /\ \A i \in DOMAIN blocks : IsValid(blocks[i])
  /\ Rules(blocks) # <<>>
-----------------------------------------------------------------------------
MatchesAt(lines, pattern, i) ==
  /\ i + Len(pattern) - 1 <= Len(lines)
  /\ SubSeq(lines, i, i + Len(pattern) - 1) = pattern

\* find_subsequence
Found(lines, pattern) == \E i \in DOMAIN lines : MatchesAt(lines, pattern, i)

\* has_partial_subsequence: the pattern begins somewhere and breaks off.
Partial(lines, pattern) ==
  \E i \in DOMAIN lines :
     lines[i] = pattern[1] /\ ~MatchesAt(lines, pattern, i)

\* replace_first_subsequence (max = 1), replace_all_subsequences, and str.replace:
\* the first max matches from left to right that do not overlap.
Replace(lines, old, new, max) ==
  LET Next(done) ==
        LET places == {i \in DOMAIN lines : i >= done.next /\ MatchesAt(lines, old, i)}
        IN  IF places = {} THEN done
            ELSE [lines |-> done.lines \o SubSeq(lines, done.next, Min(places) - 1) \o new,
                  next  |-> Min(places) + Len(old),
                  count |-> done.count + 1]
      done[n \in 0..max] ==
        IF n = 0 THEN [lines |-> <<>>, next |-> 1, count |-> 0] ELSE Next(done[n - 1])
  IN  [lines |-> done[max].lines \o SubSeq(lines, done[max].next, Len(lines)),
       count |-> done[max].count]

Unchanged(lines) == [ok |-> TRUE, lines |-> lines, count |-> 0]
Raise(lines) == [ok |-> FALSE, lines |-> lines, count |-> 0]

\* hackdiff_candidate_replacements
Candidates(rule) ==
  LET strict  == [old |-> rule.old, new |-> rule.new]
      relaxed == [old |-> rule.relaxedOld, new |-> rule.relaxedNew]
  IN  IF strict = relaxed THEN <<strict>> ELSE <<strict, relaxed>>

\* hackdiff_rule_already_applied: the first form of which the old or the new
\* text is there decides.
AlreadyApplied(lines, rule) ==
  LET forms == Candidates(rule)
      seen  == {i \in DOMAIN forms : /\ forms[i].new # <<>>
                                     /\ Found(lines, forms[i].old) \/ Found(lines, forms[i].new)}
  IN  seen # {} /\ ~Found(lines, forms[Min(seen)].old)

\* The candidates whose old text is there; the first of them is taken.
Matching(lines, rule) == {i \in DOMAIN Candidates(rule) : Found(lines, Candidates(rule)[i].old)}
Taken(lines, rule) == Candidates(rule)[Min(Matching(lines, rule))]

\* Mutant of ApplyRule: a rule that does not match is passed over.
ApplyRuleQuietly(lines, rule) ==
  LET c      == Taken(lines, rule)
      result == Replace(lines, c.old, c.new, 1)
  IN  IF Matching(lines, rule) = {} THEN Unchanged(lines)
      ELSE [ok |-> TRUE, lines |-> result.lines, count |-> result.count]

\* The body of the loop of apply_hackdiff_rules.
ApplyRule(lines, rule) ==
  LET delete == rule.new = <<>>
      c      == Taken(lines, rule)
      result == Replace(lines, c.old, c.new, IF delete THEN Len(lines) ELSE 1)
      broken == \E i \in DOMAIN Candidates(rule) : Partial(lines, Candidates(rule)[i].old)
  IN  CASE AlreadyApplied(lines, rule) -> Unchanged(lines)
        [] ~AlreadyApplied(lines, rule) /\ Matching(lines, rule) # {} ->
             [ok |-> ~(delete /\ Partial(result.lines, c.old)),
              lines |-> result.lines, count |-> result.count]
        [] ~AlreadyApplied(lines, rule) /\ Matching(lines, rule) = {} ->
             IF delete /\ ~broken THEN Unchanged(lines) ELSE Raise(lines)

\* One rule after the other, until one raises.
Then(result, apply(_, _), rule) ==
  IF ~result.ok THEN result
  ELSE LET next == apply(result.lines, rule)
       IN  [ok |-> next.ok, lines |-> next.lines, count |-> result.count + next.count]

Applied(lines, rules, apply(_, _)) ==
  LET after[k \in 0..Len(rules)] ==
        IF k = 0 THEN Unchanged(lines) ELSE Then(after[k - 1], apply, rules[k])
  IN  after[Len(rules)]

ApplyHackDiffRules(lines, rules) == Applied(lines, rules, ApplyRule)
-----------------------------------------------------------------------------
\* apply_json_rule_file, one rule: [from, to, skipInclude, multiline, max].  A
\* multiline rule replaces sequences of lines; another one has one line on each
\* side and replaces its symbol wherever a line has it.  max is 0 where the file
\* gives none.
ApplyJsonRule(lines, rule) ==
  LET max  == IF rule.max = 0 THEN Len(lines) ELSE rule.max
      hits == {i \in DOMAIN lines : lines[i].text = rule.from[1].text
                                    /\ ~(rule.skipInclude /\ lines[i].include)}
      done == {i \in hits : Cardinality({j \in hits : j <= i}) <= max}
      text == Replace(lines, rule.from, rule.to, max)
  IN  IF rule.multiline
      THEN [ok |-> TRUE, lines |-> text.lines, count |-> text.count]
      ELSE [ok |-> TRUE, count |-> Cardinality(done),
            lines |-> [i \in DOMAIN lines |->
                         IF i \in done THEN [lines[i] EXCEPT !.text = rule.to[1].text] ELSE lines[i]]]

\* apply_rule_file: [suffix |-> ".hackdiff", blocks] or [suffix |-> ".json",
\* rules]; every other file, a missing or malformed one included, raises.
ApplyRuleFile(lines, file) ==
  CASE file.suffix = ".hackdiff" ->
         IF Loads(file.blocks) THEN ApplyHackDiffRules(lines, Rules(file.blocks)) ELSE Raise(lines)
    [] file.suffix = ".json" ->
         Applied(lines, file.rules, ApplyJsonRule)
    [] OTHER -> Raise(lines)
=============================================================================
