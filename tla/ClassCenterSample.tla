---------------------------- MODULE ClassCenterSample ----------------------------
(***************************************************************************)
(* class_center_sample: every rank has num_classes[r] classes and samples  *)
(* of them those that are labels and random others, num_samples or more;   *)
(* labels are renumbered by their place among the samples of all ranks.    *)
(* What a rank computes once it knows all ranks' numbers of classes.  A    *)
(* call c has num_classes, num_samples and label; arrays over ranks count  *)
(* from 0, others from 1.                                                  *)
(***************************************************************************)
EXTENDS MCCL

Bound == 0..NRanks \* indices of class_interval, bound_index, bound_value

\* shard_dim_vec
ShardDims(c, r) == [j \in Bound |-> IF j = r + 1 THEN c.num_classes[r] ELSE 0]

InclusiveScan(Op(_, _), values) ==
  LET scan[j \in DOMAIN values] == IF j = 0 THEN values[0] ELSE Op(scan[j - 1], values[j])
  IN  scan

InclusiveSum(values) == InclusiveScan(LAMBDA a, b : a + b, values)

\* SortPairs: the indices of keys in stable ascending order of the keys.
SortedByKey(keys) ==
  SetToSortSeq(DOMAIN keys,
               LAMBDA a, b : keys[a] < keys[b] \/ (keys[a] = keys[b] /\ a < b))

\* Step 5: a key for each class; random.
RandomSampleClassCenter(c, r) == [1..c.num_classes[r] -> 0..(c.num_classes[r] - 1)]

\* Step 6: the keys of labels become negative, in the order of the classes.
MarkPositiveClassCenter(c, r, interval, random) ==
  LET n == c.num_classes[r]
  IN  [k \in 1..n |-> IF interval[r] + k - 1 \in Range(c.label) THEN k - 1 - n ELSE random[k]]

\* Step 7: the classes of rank r in the order of their keys, labels first.
SampleOrder(c, r, interval, random) ==
  LET order == SortedByKey(MarkPositiveClassCenter(c, r, interval, random))
  IN  [k \in DOMAIN order |-> order[k] - 1]

\* The rank that a class belongs to, by bisection.
FindIntervalIndex(interval, value) ==
  LET find[start, end \in Bound] ==
        LET mid == ((end - start) \div 2) + start + 1
        IN  IF start < end /\ interval[mid] # value
            THEN IF interval[mid] > value THEN find[start, mid - 1] ELSE find[mid, end]
            ELSE Min({mid, end})
  IN  find[0, NRanks]

\* Steps 8 and 9: labels in ascending order, and for each how many differ before it.
LabelOrder(c) == SortedByKey(c.label)

DistinctBefore(keys) ==
  LET count[i \in DOMAIN keys] ==
        IF i = 1 THEN 0 ELSE count[i - 1] + (IF keys[i] = keys[i - 1] THEN 0 ELSE 1)
  IN  count

\* Step 10: for each rank the first of the sorted labels that is not before it,
\* and its number among the distinct ones.
GetClassCenterBound(interval, keys, values) ==
  LET n == Len(keys)
      rank(i) == FindIntervalIndex(interval, keys[i])
  IN  [j \in Bound |->
         IF j <= rank(1) THEN [index |-> 0, value |-> values[1]]
         ELSE IF j > rank(n) THEN [index |-> n, value |-> values[n] + 1]
         ELSE LET i == CHOOSE i \in 2..n : rank(i - 1) < j /\ j <= rank(i)
              IN  [index |-> i - 1, value |-> values[i]]]

\* Step 11: how many each rank samples.  In a scan b - a takes the last result from
\* a bound, and not the last bound; few ranks are scanned in order.
ActualNumSampledFunctor(c, a, b) == Max({c.num_samples, b - a})
ActualNumSampled(c, bound) ==
  InclusiveScan(LAMBDA a, b : ActualNumSampledFunctor(c, a, b), [j \in Bound |-> bound[j].value])

\* Step 13.
GetRemappedLabel(c, bound, sampled_interval, order, values) ==
  LET home(i) == CHOOSE j \in 0..(NRanks - 1) :
                   bound[j].index <= i - 1 /\ i - 1 < bound[j + 1].index
      value(i) == values[i] - bound[home(i)].value + sampled_interval[home(i)]
  IN  [k \in DOMAIN c.label |-> value(CHOOSE i \in DOMAIN order : order[i] = k)]

\* The outputs of rank r; more than its classes are copied from memory that
\* nothing was written to.
ClassCenters(c, r, dims, random) ==
  LET interval == InclusiveSum(dims)
      order    == LabelOrder(c)
      keys     == [i \in DOMAIN order |-> c.label[order[i]]]
      values   == DistinctBefore(keys)
      bound    == GetClassCenterBound(interval, keys, values)
      actual   == ActualNumSampled(c, bound)
      sampled  == SampleOrder(c, r, interval, random)
  IN  [remapped_label |-> GetRemappedLabel(c, bound, InclusiveSum(actual), order, values),
       sampled_local_class_center |->
         [k \in 1..actual[r + 1] |-> IF k \in DOMAIN sampled THEN sampled[k] ELSE Unwritten]]
=============================================================================
