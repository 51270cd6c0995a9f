-------------------------- MODULE ParallelCrossEntropy --------------------------
(***************************************************************************)
(* The kernels of c_softmax_with_cross_entropy and of its form with many   *)
(* labels per row: every rank has some of the classes, rank r those from   *)
(* r * D, and reduces maxima, logits of labels and sums over all ranks.    *)
(* A call c has the logits of every rank by row and class, labels by row,  *)
(* and weights of labels; t are the tensors of rank r while the call runs. *)
(* Rows, classes of a rank and labels of a row count from 1, labels from 0.*)
(***************************************************************************)
EXTENDS Integers, SequencesExt

MaxSpread == 2 \* bound: how far a logit is below the largest of its row

\* e^v, as a power of ten: a sum of fewer than ten is known term by term.
Exp(v) == 10 ^ (MaxSpread + v)

Total(row) == FoldLeft(+, 0, row)

OneLabel(c) == c.op = "c_softmax_with_cross_entropy"

Rows(c) == DOMAIN c.label
Classes(c, r) == DOMAIN c.logits[r][1]
LabelsPerRow(c) == Len(c.label[1])

MaxOfRows(c, r, t) ==
  [t EXCEPT !.logits_max = [n \in Rows(c) |-> Max(Range(c.logits[r][n]))]]

\* An element of softmax is a numerator and a denominator.
SubtractMax(c, r, t) ==
  [t EXCEPT !.softmax =
     [n \in Rows(c) |-> [d \in Classes(c, r) |-> <<c.logits[r][n][d] - t.logits_max[n], 1>>]]]

\* MaskLabelByIndex: the logit of a label that is a class of this rank, or zero.
LabelLogit(c, r, t, i, label) ==
  LET D == Len(c.logits[r][1])
  IN  IF label \in (r * D)..(r * D + D - 1) THEN t.softmax[i][label - r * D + 1][1] ELSE 0

\* The same for all labels of all rows.
SoftMaskLabelByIndex(c, r, t) ==
  LET C == LabelsPerRow(c)
      row(k) == (k - 1) \div C + 1
  IN  [t EXCEPT !.predicted_logits =
         [k \in 1..(Len(c.label) * C) |->
            LabelLogit(c, r, t, row(k), c.label[row(k)][((k - 1) % C) + 1])]]

ExpAndSum(c, r, t) ==
  LET exps == [n \in Rows(c) |-> [d \in Classes(c, r) |-> Exp(t.softmax[n][d][1])]]
  IN  [t EXCEPT !.softmax = [n \in Rows(c) |-> [d \in Classes(c, r) |-> <<exps[n][d], 1>>]],
                !.sum_exp_logits = [n \in Rows(c) |-> Total(exps[n])]]

\* What label j adds to the loss of row i: the weight of log(sum) - logit.
Term(c, t, i, j) ==
  IF c.label[i][j] = c.ignore_index THEN <<>>
  ELSE <<<<IF OneLabel(c) THEN 1 ELSE c.smooth_weight[i][j], t.sum_exp_logits[i],
           t.predicted_logits[(i - 1) * LabelsPerRow(c) + j]>>>>

\* The thread of row i writes 0 to entry i before its own entries, which are not
\* the i-th when a row has several: that may undo what another row's thread wrote.
Endangered(c) ==
  IF OneLabel(c) \/ c.sum_multi_label_loss THEN {}
  ELSE {i \in Rows(c) : (i - 1) \div LabelsPerRow(c) + 1 # i}

\* CalculateLoss and CalculateSoftLoss; a loss is the terms it sums.
CalculateLoss(c, t, undone) ==
  LET C == LabelsPerRow(c)
  IN  [t EXCEPT !.loss =
         IF OneLabel(c) \/ c.sum_multi_label_loss
         THEN [i \in Rows(c) |-> FlattenSeq([j \in 1..C |-> Term(c, t, i, j)])]
         ELSE [k \in 1..(Len(c.label) * C) |->
                 IF k \in undone THEN <<>>
                 ELSE Term(c, t, (k - 1) \div C + 1, ((k - 1) % C) + 1)]]

\* Times the reciprocal of the sum.
Scale(c, r, t) ==
  [t EXCEPT !.softmax = [n \in Rows(c) |-> [d \in Classes(c, r) |->
                           <<t.softmax[n][d][1], t.sum_exp_logits[n]>>]]]

\* The kernels between two reductions.
Computed(name, c, r, t, undone) ==
  CASE name = "maxima" -> MaxOfRows(c, r, t)
    [] name = "targets" -> SoftMaskLabelByIndex(c, r, SubtractMax(c, r, t))
    [] name = "sums" -> ExpAndSum(c, r, t)
    [] name = "losses" -> Scale(c, r, CalculateLoss(c, t, undone))
=============================================================================
