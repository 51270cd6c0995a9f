------------------------------- MODULE HackRules -------------------------------
(***************************************************************************)
(* main() of tools/apply_hack_rules.py, run again and again on one Paddle  *)
(* tree, and the reset of that tree by tools/build.sh.  A run works through*)
(* the rule files of every selected target, the .hackdiff files of all     *)
(* targets before the other ones, and writes a target after each rule file;*)
(* it stops at the first rule file that raises, or where it is interrupted,*)
(* in the middle of a write too, and leaves the tree as it is then.        *)
(***************************************************************************)
EXTENDS HackRuleEngine

CONSTANTS Mappings, \* mappings to choose from: sequences of [path, rules]
          Trees,    \* committed trees to choose from: path -> lines
          MaxRuns   \* bound: runs of the script

\* A mapping is a list of items, each with a list of rule files; a target is a
\* text.
ASSUME MappingsAssumption ==
  \A m \in Mappings :
    /\ m \in Seq(ToSet(m))
    /\ \A i \in DOMAIN m : /\ m[i].rules \in Seq(ToSet(m[i].rules))
                           /\ \A file \in ToSet(m[i].rules) : IsRuleFile(file)
ASSUME TreesAssumption == \A t \in Trees : \A p \in DOMAIN t : t[p] \in AnyText
ASSUME MaxRunsAssumption == MaxRuns \in Nat

VARIABLES
  mapping, \* hack/hack_file_rules.json
  head,    \* the committed tree
  tree,    \* the working tree
  run,     \* the current run: [active, dry, selected, start, total, done]
  todo,    \* rule files still to apply: sequence of [path, file]
  runs,    \* runs started
  reports  \* history: the runs that ended, by themselves or interrupted

vars == <<mapping, head, tree, run, todo, runs, reports>>

NoRun == [active |-> FALSE]
Paths == {mapping[i].path : i \in DOMAIN mapping}

TypeOK ==
  /\ mapping \in Mappings
  /\ head \in Trees
  /\ DOMAIN tree = DOMAIN head
  /\ todo # <<>> => run.active
  /\ run.active => /\ run.dry \in BOOLEAN
                   /\ run.selected \subseteq Paths
                   /\ run.total \in Nat
                   /\ \A i \in DOMAIN todo : todo[i].path \in run.selected
  /\ runs \in 0..MaxRuns
  /\ Cardinality(reports) <= runs

Init ==
  /\ mapping \in Mappings
  /\ head \in Trees
  /\ tree = head
  /\ run = NoRun
  /\ todo = <<>>
  /\ runs = 0
  /\ reports = {}
-----------------------------------------------------------------------------
\* The rule files of one pass over a mapping item.
PassOver(item, hackdiff) ==
  FlattenSeq([j \in DOMAIN item.rules |->
    IF (item.rules[j].suffix = ".hackdiff") = hackdiff
    THEN <<[path |-> item.path, file |-> item.rules[j]]>>
    ELSE <<>>])

\* Mutant of Work: one pass, in the order of the mapping.
WorkInOrder(selected) ==
  FlattenSeq([i \in DOMAIN mapping |->
    IF mapping[i].path \in selected
    THEN [j \in DOMAIN mapping[i].rules |->
            [path |-> mapping[i].path, file |-> mapping[i].rules[j]]]
    ELSE <<>>])

\* Two passes over the selected items.
Work(selected) ==
  LET pass(hackdiff) ==
        FlattenSeq([i \in DOMAIN mapping |->
          IF mapping[i].path \in selected THEN PassOver(mapping[i], hackdiff) ELSE <<>>])
  IN  pass(TRUE) \o pass(FALSE)

\* torn: the targets whose write was cut short.
Report(r, outcome, torn) ==
  [dry |-> r.dry, selected |-> r.selected, start |-> r.start, end |-> tree',
   total |-> r.total, outcome |-> outcome, torn |-> torn]

\* Mutant of Start: --path and --path-prefix are ignored.
StartUnfiltered(selected, dry) ==
  /\ ~run.active
  /\ runs < MaxRuns
  /\ runs' = runs + 1
  /\ selected \subseteq DOMAIN tree
  /\ run' = [active |-> TRUE, dry |-> dry, selected |-> selected, start |-> tree,
             total |-> 0, done |-> 0]
  /\ todo' = Work(Paths)
  /\ UNCHANGED <<mapping, head, tree, reports>>

\* main: arguments, mapping and targets are looked at before anything is
\* written.
Start(selected, dry) ==
  /\ ~run.active
  /\ runs < MaxRuns
  /\ runs' = runs + 1
  /\ selected \subseteq DOMAIN tree
  /\ run' = [active |-> TRUE, dry |-> dry, selected |-> selected, start |-> tree,
             total |-> 0, done |-> 0]
  /\ todo' = Work(selected)
  /\ UNCHANGED <<mapping, head, tree, reports>>

\* ... and a missing target raises at once.
StartWithoutTarget(selected, dry) ==
  /\ ~run.active
  /\ runs < MaxRuns
  /\ runs' = runs + 1
  /\ ~(selected \subseteq DOMAIN tree)
  /\ UNCHANGED <<mapping, head, tree, run, todo>>
  /\ reports' = reports \cup {Report([dry |-> dry, selected |-> selected, start |-> tree,
                                      total |-> 0], "failed", {})}

Result == ApplyRuleFile(tree[Head(todo).path], Head(todo).file)

\* apply_rule_file on the next target; a dry run does not write.
Apply ==
  /\ todo # <<>>
  /\ Result.ok
  /\ tree' = IF run.dry THEN tree ELSE [tree EXCEPT ![Head(todo).path] = Result.lines]
  /\ run' = [run EXCEPT !.total = @ + Result.count, !.done = @ + 1]
  /\ todo' = Tail(todo)
  /\ UNCHANGED <<mapping, head, runs, reports>>

\* Mutant of Raises: what the rules did up to the failing one is written.
RaisesAfterWriting ==
  /\ todo # <<>>
  /\ ~Result.ok
  /\ tree' = IF run.dry THEN tree ELSE [tree EXCEPT ![Head(todo).path] = Result.lines]
  /\ run' = NoRun
  /\ todo' = <<>>
  /\ reports' = reports \cup {Report(run, "failed", {})}
  /\ UNCHANGED <<mapping, head, runs>>

\* A rule that does not match, or a rule file that does not load, ends the run.
Raises ==
  /\ todo # <<>>
  /\ ~Result.ok
  /\ run' = NoRun
  /\ todo' = <<>>
  /\ UNCHANGED <<mapping, head, tree, runs>>
  /\ reports' = reports \cup {Report(run, "failed", {})}

Ends ==
  /\ run.active
  /\ todo = <<>>
  /\ run' = NoRun
  /\ UNCHANGED <<mapping, head, tree, todo, runs>>
  /\ reports' = reports \cup {Report(run, "done", {})}

\* The run is killed between two writes.
Interrupted ==
  /\ run.active
  /\ run' = NoRun
  /\ todo' = <<>>
  /\ UNCHANGED <<mapping, head, tree, runs>>
  /\ reports' = reports \cup {Report(run, "interrupted", {})}

\* The run is killed inside write_text, which has emptied the file and put some
\* of the new lines there; one that is cut in two counts as missing.
InterruptedWriting ==
  LET path == Head(todo).path
  IN  /\ todo # <<>>
      /\ ~run.dry
      /\ Result.ok /\ Result.lines # tree[path]
      /\ \E n \in 0..Len(Result.lines) - 1 : tree' = [tree EXCEPT ![path] = SubSeq(Result.lines, 1, n)]
      /\ run' = NoRun
      /\ todo' = <<>>
      /\ UNCHANGED <<mapping, head, runs>>
      /\ reports' = reports \cup {Report(run, "interrupted", {path})}

\* build.sh: restore_paddle_repository.
Restore ==
  /\ ~run.active
  /\ tree' = head
  /\ UNCHANGED <<mapping, head, run, todo, runs, reports>>

Next ==
  \/ \E selected \in SUBSET Paths, dry \in BOOLEAN :
       Start(selected, dry) \/ StartWithoutTarget(selected, dry)
  \/ Apply \/ Raises \/ Ends \/ Interrupted \/ InterruptedWriting
  \/ Restore

Spec == Init /\ [][Next]_vars
-----------------------------------------------------------------------------
\* What the first rule files of work make of the file p, one after the other.
Replay(lines, work, p) ==
  LET after[k \in 0..Len(work)] ==
        IF k = 0 THEN Unchanged(lines)
        ELSE IF work[k].path = p THEN Then(after[k - 1], ApplyRuleFile, work[k].file)
        ELSE after[k - 1]
  IN  after

\* What the targets hold when k rule files of work were applied and the write
\* of those in torn was cut short: the next rule file's, and no other.
LeftBy(start, work, k, now, torn) ==
  \A p \in DOMAIN start :
     LET replay == Replay(start[p], work, p)
     IN  IF p \in torn
         THEN /\ k < Len(work) /\ work[k + 1].path = p /\ replay[k + 1].ok
              /\ \E n \in 0..Len(replay[k + 1].lines) - 1 : now[p] = SubSeq(replay[k + 1].lines, 1, n)
         ELSE replay[k].ok /\ now[p] = replay[k].lines

\* A run that failed or was interrupted leaves every target as some number of
\* complete rule files made it: what a failing rule file did to its target is
\* not written, and no rule file after it is applied.  Only an interrupt inside
\* write_text leaves a part, of what the next rule file makes of its one target.
\* A dry run leaves everything as it was.
NoHalfAppliedFile ==
  \A r \in reports :
     LET work == Work(r.selected)
     IN  \E k \in 0..(IF r.dry THEN 0 ELSE Len(work)) : LeftBy(r.start, work, k, r.end, r.torn)

\* The rule files of a target, .hackdiff files first.
FilesOf(p) ==
  LET mine(hackdiff) ==
        FlattenSeq([i \in DOMAIN mapping |->
          IF mapping[i].path = p THEN PassOver(mapping[i], hackdiff) ELSE <<>>])
  IN  mine(TRUE) \o mine(FALSE)

\* Applied to the committed tree, a complete run gives each selected target its
\* .hackdiff files on the upstream text and then the other rule files, whatever
\* was run, failed or was interrupted before and whichever targets are
\* selected with it.
ReplayIsPerFile ==
  \A r \in reports : r.outcome = "done" /\ ~r.dry /\ r.start = head =>
    \A p \in DOMAIN head :
       r.end[p] = IF p \in r.selected
                  THEN Replay(head[p], FilesOf(p), p)[Len(FilesOf(p))].lines
                  ELSE head[p]

\* The items of the mapping that name p.
ItemsOf(p) == {i \in DOMAIN mapping : mapping[i].path = p}

\* A rule that upstream has outgrown is not lost silently: when a run is done,
\* the replacement text of the last block of a target is there, in one of its
\* two forms, unless the block only deletes or JSON rules came after it.
DoneMeansAdapted ==
  \A r \in reports, i \in DOMAIN mapping :
     LET files == mapping[i].rules
         rule  == Last(Rules(Last(files).blocks))
     IN  /\ r.outcome = "done" /\ ~r.dry /\ mapping[i].path \in r.selected
         /\ ItemsOf(mapping[i].path) = {i}
         /\ files # <<>> /\ \A j \in DOMAIN files : files[j].suffix = ".hackdiff"
         /\ rule.new # <<>>
         => \E c \in ToSet(Candidates(rule)) : Found(r.end[mapping[i].path], c.new)

\* hack/README.md:197, "If a non-delete block is already applied, it is
\* skipped.": applying the rules again to a tree they were applied to changes
\* nothing.
ReapplyKeeps ==
  \A r1, r2 \in reports :
    /\ r1.outcome = "done" /\ r2.outcome = "done" /\ ~r1.dry /\ ~r2.dry
    /\ r1.selected = r2.selected /\ r2.start = r1.end
    => r2.end = r2.start

\* hack/README.md:94, "Show what would be replaced without modifying Paddle
\* files": a dry run ends as the run does, with as many replacements, if
\* neither is interrupted.
DryRunPredicts ==
  \A r1, r2 \in reports :
    /\ "interrupted" \notin {r1.outcome, r2.outcome}
    /\ r1.dry /\ ~r2.dry /\ r1.selected = r2.selected /\ r1.start = r2.start
    => r1.outcome = r2.outcome /\ r1.total = r2.total
=============================================================================
