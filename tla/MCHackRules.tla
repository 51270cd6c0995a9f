------------------------------ MODULE MCHackRules ------------------------------
(* Instances of HackRules for TLC: rule files of the shapes that are in     *)
(* hack/rules, over files of at most three lines.                           *)
EXTENDS HackRules

A == Line(0, "a")
B == Line(0, "b")

HackDiff(blocks) == [suffix |-> ".hackdiff", blocks |-> blocks]
Json(from, to, multiline, max) ==
  [suffix |-> ".json",
   rules |-> <<[from |-> from, to |-> to, skipInclude |-> ~multiline,
                multiline |-> multiline, max |-> max]>>]

Replacing == <<Minus(A), Plus(B)>>
Inserting == <<Minus(A), Plus(A), Plus(B)>>
Deleting  == <<Minus(A), Minus(B)>>
Spacious  == <<Minus(Line(1, "b")), Plus(Line(1, "c"))>>
Blank     == <<Minus(EmptyLine)>>
Misplaced == <<Plus(A)>>

HackDiffs == {HackDiff(<<Replacing>>), HackDiff(<<Inserting>>), HackDiff(<<Deleting>>),
              HackDiff(<<Blank, Spacious>>), HackDiff(<<Replacing, Spacious>>),
              HackDiff(<<Misplaced>>)}
Jsons     == {Json(<<B>>, <<Line(0, "c")>>, FALSE, 0), Json(<<A>>, <<B>>, FALSE, 1), Json(<<A, B>>, <<B>>, TRUE, 1)}
Others    == {[suffix |-> ".txt"]}

Lists(S, n) == UNION {[1..k -> S] : k \in 1..n}
Item(path, rules) == [path |-> path, rules |-> rules]

\* One target, with two rule files in any order.
OneTarget == {<<Item("p", rules)>> : rules \in Lists(HackDiffs \cup Jsons \cup Others, 2)}
PTrees == {[p \in {"p"} |-> lines] : lines \in {<<A>>, <<A, A>>, <<A, B>>, <<A, B, Include("b")>>}}

\* Two targets, one of which may be missing.
Each == {HackDiff(<<Inserting>>), HackDiff(<<Blank, Spacious>>), HackDiff(<<Replacing, Spacious>>),
         HackDiff(<<Misplaced>>), Json(<<B>>, <<Line(0, "c")>>, FALSE, 0), Json(<<A, B>>, <<B>>, TRUE, 1)}
TwoTargets == {<<Item("p", <<f>>), Item("q", <<g>>)>> : f, g \in Each}
PQTrees == {[p \in {"p", "q"} |-> <<A, B>>], [p \in {"p"} |-> <<A, B>>],
            [p \in {"p", "q"} |-> IF p = "p" THEN <<A>> ELSE <<B, A>>]}

\* A line is inserted after the only one of a file.
Insertion == {<<Item("p", <<HackDiff(<<Inserting>>)>>)>>}
OneLine == {[p \in {"p"} |-> <<A>>]}

\* Both together.
AnyMapping == OneTarget \cup TwoTargets
AnyTree == PTrees \cup PQTrees
=============================================================================
