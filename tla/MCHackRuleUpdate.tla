--------------------------- MODULE MCHackRuleUpdate ---------------------------
(* Instances of HackRuleUpdate for TLC.                                     *)
EXTENDS HackRuleUpdate


A == Line(0, "a")
B == Line(0, "b")
C == Line(2, "b")
D == Line(0, "d")
E == Line(0, "e")
Dashes == Line(0, "-- ")

Rename(from, to) ==
  [from |-> <<Line(0, from)>>, to |-> <<Line(0, to)>>, skipInclude |-> TRUE,
   multiline |-> FALSE, max |-> 0]
AToB == Rename("a", "b")
AToBDot == Rename("a", "b.")
BToC == Rename("b", "c")

\* Three files, two of which give their .hackdiff files the same name; two JSON
\* rules that give theirs the same name, and a JSON file that has a third one
\* for its first line only, and another one.
Three == {"p", "q", "r"}
Unmapped == [p \in {} |-> <<>>]
Clashing == [p \in Three |-> IF p = "r" THEN <<"r">> ELSE <<"p">>]
Renames == {AToB, AToBDot, BToC}
Asked == {<<>>, <<AToB>>, <<AToBDot>>, <<BToC, AToB>>}
ClashingRenames == [rule \in Renames |-> IF rule = BToC THEN <<"b_to_c">> ELSE <<"a_to_b">>]
JsonFile ==
  [n \in {<<"both">>} |-> [suffix |-> ".json",
                           rules |-> <<Rename("d", "a"), [Rename("b", "c") EXCEPT !.max = 1]>>]]

\* Files without two equal lines, so that a match is never ambiguous; from one
\* of five lines to another there are two hunks, of which one moves a line.
Plain == {<<A, Dashes>>, <<D, EmptyLine, C>>, <<A, D, B, E, C>>, <<D, B, E, EmptyLine, A>>}
Commit(first, last) ==
  [p \in Three |-> CASE p = "p" -> <<D, EmptyLine, C>> [] p = "q" -> first [] p = "r" -> last]
PlainCommits == {Commit(<<A, Dashes>>, <<A, D, B, E, C>>), Commit(<<D, EmptyLine, C>>, <<D, B, E, EmptyLine, A>>)}

\* One file without rules, and no rule files.
One == {"p"}
OwnName == [p \in One |-> <<"p">>]
NoRules == {}
NoRequests == {<<>>}
NoNames == [rule \in {} |-> <<>>]
NoFiles == [n \in {} |-> <<>>]

\* A class with an access specifier, indented by one space as Paddle does.
Class == {<<Line(0, "class"), Line(0, "end")>>,
          <<Line(0, "class"), Line(1, "public"), Line(0, "end")>>}
ClassCommits == [One -> Class]

\* In these contents every hunk is found again.
ASSUME ContentsReplay == DiffsReplay
=============================================================================
