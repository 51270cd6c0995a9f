----------------------- MODULE RecordedGpuMallocProofs -----------------------
(***************************************************************************)
(* Proofs about RecordedGpuMalloc, for any number of threads, devices and  *)
(* pages: the counters are exact and never wrap, allocations do not        *)
(* overlap and are on their device, racing threads overshoot the limit by  *)
(* a bounded amount, and what is reported as free leaves room for what is  *)
(* handed out, or ignores the limit once it is overshot.                   *)
(***************************************************************************)
EXTENDS RecordedGpuMalloc, TLAPS, FiniteSetTheorems

\* An operation counts as many pages as it got, or gives back as many as it
\* freed, and an allocation is not empty.
OpsSized ==
  \A t \in Thread :
    /\ Allocating(t) \/ Releasing(t) => op[t].size = Cardinality(op[t].pages)
    /\ Allocating(t) => op[t].pages # {}
    /\ op[t].at = "malloc" => op[t].size \in Sizes

\* The inductive invariant.  The counter is exact because allocations are
\* disjoint and because every operation knows the size of what it handles;
\* that it stays in its range is then a consequence.
AccountingInv ==
  /\ Typed(Int)
  /\ BlocksDisjoint
  /\ OpsSized
  /\ AccountingExact
-----------------------------------------------------------------------------
\* Tagging a set of pages keeps its size.
LEMMA TagSize ==
  ASSUME NEW P, IsFiniteSet(P), NEW x
  PROVE  /\ IsFiniteSet(P \X {x})
         /\ Cardinality(P \X {x}) = Cardinality(P)
<1>1. IsFiniteSet({x}) /\ Cardinality({x}) = 1
  BY FS_Singleton
<1>2. /\ IsFiniteSet(P \X {x})
      /\ Cardinality(P \X {x}) = Cardinality(P) * Cardinality({x})
  BY <1>1, FS_Product
<1>3. Cardinality(P) \in Nat
  BY FS_CardinalityType
<1> QED
  BY <1>1, <1>2, <1>3

\* T is S with the pages of P added under the tag x, and removed from it.
Adds(S, T, P, x) == (P \X {x}) \cap S = {} /\ T = S \cup P \X {x}
Removes(S, T, P, x) == P \X {x} \subseteq S /\ T = S \ (P \X {x})

\* Adding pages under a tag under which none of them is present.
LEMMA AddTagged ==
  ASSUME NEW S, IsFiniteSet(S), NEW P, IsFiniteSet(P), NEW T, NEW x, Adds(S, T, P, x)
  PROVE  IsFiniteSet(T) /\ Cardinality(T) = Cardinality(S) + Cardinality(P)
<1>1. IsFiniteSet(P \X {x}) /\ Cardinality(P \X {x}) = Cardinality(P)
  BY TagSize
<1>2. Cardinality(S \cap (P \X {x})) = 0
  <2>1. S \cap (P \X {x}) = {}
    BY DEF Adds
  <2> QED
    BY <2>1, FS_EmptySet
<1>3. /\ IsFiniteSet(S \cup P \X {x})
      /\ Cardinality(S \cup P \X {x})
         = Cardinality(S) + Cardinality(P \X {x}) - Cardinality(S \cap (P \X {x}))
  BY <1>1, FS_Union
<1>4. Cardinality(S) \in Nat /\ Cardinality(P) \in Nat
  BY FS_CardinalityType
<1>5. T = S \cup P \X {x}
  BY DEF Adds
<1> QED
  BY <1>1, <1>2, <1>3, <1>4, <1>5

\* Removing pages under a tag under which all of them are present.
LEMMA RemoveTagged ==
  ASSUME NEW S, IsFiniteSet(S), NEW P, IsFiniteSet(P), NEW T, NEW x, Removes(S, T, P, x)
  PROVE  IsFiniteSet(T) /\ Cardinality(T) = Cardinality(S) - Cardinality(P)
<1>1. IsFiniteSet(P \X {x}) /\ Cardinality(P \X {x}) = Cardinality(P)
  BY TagSize
<1>2. S \cap (P \X {x}) = P \X {x}
  BY DEF Removes
<1>3. /\ IsFiniteSet(S \ (P \X {x}))
      /\ Cardinality(S \ (P \X {x})) = Cardinality(S) - Cardinality(S \cap (P \X {x}))
  BY FS_Difference
<1>4. T = S \ (P \X {x})
  BY DEF Removes
<1> QED
  BY <1>1, <1>2, <1>3, <1>4

\* What a counter stands for is finite and fits into the counter, with a
\* device's memory to spare.
LEMMA RecordedBound ==
  ASSUME Typed(Int), NEW h \in Device
  PROVE  /\ IsFiniteSet(Recorded(h))
         /\ Cardinality(Recorded(h)) \in 0..(W - 1)
         /\ Cardinality(Recorded(h)) + Cardinality(Page) < W
<1> DEFINE Tags == Thread \cup {Settled}
<1>1. IsFiniteSet(Tags) /\ Cardinality(Tags) = Cardinality(Thread) + 1
  BY MemoryAssumption, FS_AddElement
<1>2. /\ IsFiniteSet(Page \X Tags)
      /\ Cardinality(Page \X Tags) = Cardinality(Page) * (Cardinality(Thread) + 1)
  BY <1>1, MemoryAssumption, FS_Product
<1>3. UNION Blocks(h) \subseteq Page
  BY DEF Typed, Blocks
<1>4. \A t \in Thread : Returned(t, h) \subseteq Page
  BY DEF Typed, Returned, Releasing, Idle
<1>5. Recorded(h) \subseteq Page \X Tags
  BY <1>3, <1>4 DEF Recorded
<1>6. /\ IsFiniteSet(Recorded(h))
      /\ Cardinality(Recorded(h)) <= Cardinality(Page) * (Cardinality(Thread) + 1)
  BY <1>2, <1>5, FS_Subset
<1>7. /\ Cardinality(Recorded(h)) \in Nat
      /\ Cardinality(Page) \in Nat /\ Cardinality(Thread) \in Nat
  BY <1>6, MemoryAssumption, FS_CardinalityType
<1>8. /\ Cardinality(Page) * (Cardinality(Thread) + 1) \in Nat
      /\ Cardinality(Page) * (Cardinality(Thread) + 2)
         = Cardinality(Page) * (Cardinality(Thread) + 1) + Cardinality(Page)
  BY <1>7
<1> HIDE DEF Tags
<1> QED
  BY <1>6, <1>7, <1>8, MemoryAssumption
-----------------------------------------------------------------------------
\* A step that changes neither the counters nor what they stand for.
LEMMA RecordedUnchanged ==
  ASSUME AccountingExact, UNCHANGED curSize,
         \A h \in Device : (UNION Blocks(h))' = UNION Blocks(h),
         \A u \in Thread, h \in Device : Returned(u, h)' = Returned(u, h)
  PROVE  AccountingExact'
<1>1. \A h \in Device : Recorded(h)' = Recorded(h)
  BY DEF Recorded
<1> QED
  BY <1>1 DEF AccountingExact

\* The helper g has one allocation more, the pages P.
Gains(g, P) ==
  \A h \in Device : Blocks(h)' = IF h = g THEN Blocks(h) \cup {P} ELSE Blocks(h)

\* fetch_add of t: its pages become an allocation of its helper.
LEMMA CountKeepsExact ==
  ASSUME AccountingInv, NEW t \in Thread, Allocating(t),
         NEW g, g = op[t].helper, NEW P, P = op[t].pages,
         Gains(g, P),
         curSize' = [curSize EXCEPT ![g] = curSize[g] + op[t].size],
         op' = [op EXCEPT ![t] = Idle]
  PROVE  AccountingExact'
<1> USE DEF Gains
<1>1. g \in Device /\ P \subseteq Page /\ op[t].size = Cardinality(P)
  BY DEF AccountingInv, Typed, OpsSized, Allocating, Idle
<1>2. \A u \in Thread, h \in Device : Returned(u, h)' = Returned(u, h)
  BY DEF AccountingInv, Typed, Returned, Releasing, Allocating, Idle
<1>3. ASSUME NEW h \in Device, h # g PROVE curSize'[h] = Cardinality(Recorded(h)')
  <2>1. Recorded(h)' = Recorded(h)
    BY <1>2, <1>3 DEF Recorded
  <2>2. curSize'[h] = curSize[h]
    BY <1>3 DEF AccountingInv, Typed
  <2> QED
    BY <2>1, <2>2 DEF AccountingInv, AccountingExact
<1>4. curSize'[g] = Cardinality(Recorded(g)')
  <2>1. (UNION Blocks(g))' = (UNION Blocks(g)) \cup P
    BY <1>1
  <2>2. Recorded(g)' = Recorded(g) \cup P \X {Settled}
    BY <1>1, <1>2, <2>1 DEF Recorded
  <2>3. P \cap UNION Blocks(g) = {}
    BY <1>1 DEF AccountingInv, BlocksDisjoint
  <2>4. (P \X {Settled}) \cap Recorded(g) = {}
    BY <2>3, MemoryAssumption DEF Recorded
  <2>5. IsFiniteSet(P)
    BY <1>1, MemoryAssumption, FS_Subset
  <2>6. IsFiniteSet(Recorded(g))
    BY <1>1, RecordedBound DEF AccountingInv
  <2>10. Adds(Recorded(g), Recorded(g)', P, Settled)
    BY <2>2, <2>4 DEF Adds
  <2>7. Cardinality(Recorded(g)') = Cardinality(Recorded(g)) + Cardinality(P)
    BY <2>10, <2>5, <2>6, AddTagged
  <2>8. curSize'[g] = curSize[g] + Cardinality(P)
    BY <1>1 DEF AccountingInv, Typed
  <2>9. curSize[g] = Cardinality(Recorded(g))
    BY <1>1 DEF AccountingInv, AccountingExact
  <2> QED
    BY <2>7, <2>8, <2>9
<1> QED
  BY <1>3, <1>4 DEF AccountingExact

\* musaFree or muMemRelease of t: the pages of P leave the allocations of h
\* and wait for t to subtract them.
LEMMA ReleaseKeepsExact ==
  ASSUME AccountingInv, NEW t \in Thread, op[t] = Idle,
         NEW h \in Device, NEW P \in Blocks(h),
         \A g \in Device : Blocks(g)' = IF g = h THEN Blocks(g) \ {P} ELSE Blocks(g),
         UNCHANGED curSize,
         NEW step, step \in {"uncountMalloc", "uncountHandle"},
         Begin(t, step, h, Cardinality(P), P)
  PROVE  AccountingExact'
<1>1. P \subseteq Page
  BY DEF AccountingInv, Typed, Blocks
<1>2. \A g \in Device : Returned(t, g) = {} /\ Returned(t, g)' = IF g = h THEN P ELSE {}
  BY DEF AccountingInv, Typed, Returned, Releasing, Begin, Idle
<1>3. \A u \in Thread \ {t}, g \in Device : Returned(u, g)' = Returned(u, g)
  BY DEF AccountingInv, Typed, Returned, Releasing, Begin
<1>4. ASSUME NEW g \in Device, g # h PROVE Recorded(g)' = Recorded(g)
  BY <1>2, <1>3, <1>4 DEF Recorded
<1>5. Cardinality(Recorded(h)') = Cardinality(Recorded(h))
  <2>1. (UNION Blocks(h))' = (UNION Blocks(h)) \ P
    <3>1. \A Q \in Blocks(h) : Q # P => Q \cap P = {}
      BY DEF AccountingInv, BlocksDisjoint
    <3> QED
      BY <3>1
  <2>2. Recorded(h)' = (Recorded(h) \ (P \X {Settled})) \cup P \X {t}
    BY <1>2, <1>3, <2>1, MemoryAssumption DEF Recorded
  <2>3. P \X {Settled} \subseteq Recorded(h)
    BY DEF Recorded
  <2>4. (P \X {t}) \cap Recorded(h) = {}
    BY <1>2, MemoryAssumption DEF Recorded
  <2>5. IsFiniteSet(P)
    BY <1>1, MemoryAssumption, FS_Subset
  <2>6. IsFiniteSet(Recorded(h))
    BY RecordedBound DEF AccountingInv
  <2> DEFINE R == Recorded(h) \ (P \X {Settled})
  <2>7. Removes(Recorded(h), R, P, Settled)
    BY <2>3 DEF Removes
  <2>8. Adds(R, Recorded(h)', P, t)
    BY <2>2, <2>4 DEF Adds
  <2> HIDE DEF R
  <2>9. IsFiniteSet(R) /\ Cardinality(R) = Cardinality(Recorded(h)) - Cardinality(P)
    BY <2>5, <2>6, <2>7, RemoveTagged
  <2>10. Cardinality(Recorded(h)') = Cardinality(R) + Cardinality(P)
    BY <2>5, <2>8, <2>9, AddTagged
  <2>11. Cardinality(Recorded(h)) \in Nat /\ Cardinality(P) \in Nat
    BY <2>5, <2>6, FS_CardinalityType
  <2> QED
    BY <2>9, <2>10, <2>11
<1> QED
  BY <1>4, <1>5 DEF AccountingInv, AccountingExact

\* fetch_sub of t: the counter does not fall below zero, and the pages that t
\* released no longer count.
LEMMA UncountKeepsExact ==
  ASSUME AccountingInv, NEW t \in Thread, Releasing(t),
         NEW g, g = op[t].helper, NEW P, P = op[t].pages,
         \A h \in Device : Blocks(h)' = Blocks(h),
         curSize' = [curSize EXCEPT ![g] = Minus(curSize[g], op[t].size)],
         op' = [op EXCEPT ![t] = Idle]
  PROVE  AccountingExact'
<1>1. g \in Device /\ P \subseteq Page /\ op[t].size = Cardinality(P)
  BY DEF AccountingInv, Typed, OpsSized, Releasing, Idle
<1>2. \A h \in Device : Returned(t, h) = IF h = g THEN P ELSE {}
  BY DEF Returned
<1>3. \A h \in Device : Returned(t, h)' = {}
  BY DEF AccountingInv, Typed, Returned, Releasing, Idle
<1>4. \A u \in Thread \ {t}, h \in Device : Returned(u, h)' = Returned(u, h)
  BY DEF AccountingInv, Typed, Returned, Releasing
<1>5. ASSUME NEW h \in Device, h # g PROVE curSize'[h] = Cardinality(Recorded(h)')
  <2>1. Recorded(h)' = Recorded(h)
    BY <1>2, <1>3, <1>4, <1>5 DEF Recorded
  <2>2. curSize'[h] = curSize[h]
    BY <1>5 DEF AccountingInv, Typed
  <2> QED
    BY <2>1, <2>2 DEF AccountingInv, AccountingExact
<1>6. curSize'[g] = Cardinality(Recorded(g)')
  <2>1. Recorded(g)' = Recorded(g) \ (P \X {t})
    BY <1>1, <1>2, <1>3, <1>4, MemoryAssumption DEF Recorded
  <2>2. P \X {t} \subseteq Recorded(g)
    BY <1>1, <1>2 DEF Recorded
  <2>3. IsFiniteSet(P)
    BY <1>1, MemoryAssumption, FS_Subset
  <2>4. IsFiniteSet(Recorded(g))
    BY <1>1, RecordedBound DEF AccountingInv
  <2>9. Removes(Recorded(g), Recorded(g)', P, t)
    BY <2>1, <2>2 DEF Removes
  <2>5. Cardinality(Recorded(g)') = Cardinality(Recorded(g)) - Cardinality(P)
    BY <2>9, <2>3, <2>4, RemoveTagged
  <2>6. /\ Cardinality(Recorded(g)') \in Nat
        /\ Cardinality(Recorded(g)) \in Nat /\ Cardinality(P) \in Nat
    BY <2>1, <2>3, <2>4, FS_CardinalityType, FS_Difference
  <2>7. curSize'[g] = Minus(curSize[g], Cardinality(P))
    BY <1>1 DEF AccountingInv, Typed
  <2>8. curSize[g] = Cardinality(Recorded(g))
    BY <1>1 DEF AccountingInv, AccountingExact
  <2> QED
    BY <2>5, <2>6, <2>7, <2>8 DEF Minus
<1> QED
  BY <1>5, <1>6 DEF AccountingExact
-----------------------------------------------------------------------------
\* The counters are in range wherever they are exact.
LEMMA ExactIsTyped ==
  ASSUME Typed(Int), AccountingExact
  PROVE  TypeOK
<1>1. \A h \in Device : curSize[h] \in 0..(W - 1)
  BY RecordedBound DEF AccountingExact
<1> QED
  BY <1>1 DEF Typed, TypeOK

\* Every step keeps the variables in their ranges, the counters in Int.
LEMMA NextTyped ==
  ASSUME AccountingInv, [Next]_vars
  PROVE  Typed(Int)'
<1> USE DEF Begin, Continue, Return, EnterGuard, LeaveGuard, Steps
<1>0. /\ Typed(Int) /\ TypeOK
      /\ \A P \in SUBSET Page : Cardinality(P) \in Nat
  <2>1. \A P \in SUBSET Page : Cardinality(P) \in Nat
    BY MemoryAssumption, FS_Subset, FS_CardinalityType
  <2> QED
    BY <2>1, ExactIsTyped DEF AccountingInv
<1>1. ASSUME NEW t \in Thread, NEW d \in Device, SetDevice(t, d) PROVE Typed(Int)'
  BY <1>0, <1>1 DEF Typed, SetDevice
<1>2. ASSUME NEW t \in Thread, NEW h \in Device, NEW n \in Sizes, Malloc(t, h, n)
      PROVE  Typed(Int)'
  BY <1>0, <1>2 DEF Typed, Malloc, Sizes
<1>3. ASSUME NEW t \in Thread, NEW h \in Device, NEW n \in Sizes, MemCreate(t, h, n)
      PROVE  Typed(Int)'
  BY <1>0, <1>3 DEF Typed, MemCreate, Sizes, FreePages
<1>4. ASSUME NEW t \in Thread, MallocFails(t) PROVE Typed(Int)'
  BY <1>0, <1>4 DEF Typed, MallocFails, Idle
<1>5. ASSUME NEW t \in Thread, MallocSucceeds(t) PROVE Typed(Int)'
  <2>1. PICK P \in SUBSET FreePages(device[t]) : Continue(t, "countMalloc", P)
    BY <1>5, Zenon DEF MallocSucceeds
  <2>2. P \subseteq Page
    BY <2>1 DEF FreePages
  <2>3. /\ op[t].at = "malloc"
        /\ UNCHANGED <<curSize, mallocs, handles, abandoned, device, place, memInfo, driverUp>>
    BY <1>5 DEF MallocSucceeds
  <2>4. op' \in [Thread -> {Idle} \cup [at : Steps, helper : Device, size : Nat,
                                       pages : SUBSET Page, back : Device]]
    <3>1. op[t] \in [at : Steps, helper : Device, size : Nat, pages : SUBSET Page,
                     back : Device]
      BY <1>0, <2>3 DEF Typed, Idle
    <3> DEFINE r == [op[t] EXCEPT !.at = "countMalloc", !.pages = P]
    <3>2. op' = [op EXCEPT ![t] = r]
      BY <2>1
    <3>3. r \in [at : Steps, helper : Device, size : Nat, pages : SUBSET Page, back : Device]
      BY <2>2, <3>1
    <3> HIDE DEF r
    <3> QED
      BY <1>0, <3>2, <3>3 DEF Typed
  <2> QED
    BY <1>0, <2>3, <2>4 DEF Typed
<1>6. ASSUME NEW t \in Thread, CountMalloc(t) PROVE Typed(Int)'
  BY <1>0, <1>6 DEF Typed, CountMalloc, Idle
<1>7. ASSUME NEW t \in Thread, CountHandle(t) PROVE Typed(Int)'
  BY <1>0, <1>7 DEF Typed, CountHandle, Idle
<1>8. ASSUME NEW t \in Thread, NEW h \in Device, NEW P \in mallocs[h],
             Free(t, h, P) \/ FreeUnloading(t, h, P)
      PROVE  Typed(Int)'
  <2>1. P \in SUBSET Page
    BY <1>0 DEF Typed
  <2> QED
    <3>1. CASE Free(t, h, P)
      BY <1>0, <3>1, <2>1 DEF Typed, Free
    <3>2. CASE FreeUnloading(t, h, P)
      BY <1>0, <3>2, <2>1 DEF Typed, FreeUnloading
    <3> QED
      BY <1>8, <3>1, <3>2
<1>9. ASSUME NEW t \in Thread, NEW h \in Device, NEW P \in handles[h], MemRelease(t, h, P)
      PROVE  Typed(Int)'
  <2>1. P \in SUBSET Page
    BY <1>0 DEF Typed
  <2> QED
    BY <1>0, <1>9, <2>1 DEF Typed, MemRelease
<1>10. ASSUME NEW t \in Thread, UncountMalloc(t) PROVE Typed(Int)'
  BY <1>0, <1>10, MemoryAssumption DEF Typed, UncountMalloc, Idle, Minus
<1>11. ASSUME NEW t \in Thread, UncountHandle(t) PROVE Typed(Int)'
  BY <1>0, <1>11, MemoryAssumption DEF Typed, UncountHandle, Idle, Minus
<1>12. ASSUME NEW t \in Thread, NEW h \in Device, GetMemInfo(t, h) PROVE Typed(Int)'
  <2>1. Cardinality(FreePages(h)) \in Nat
    BY <1>0 DEF FreePages
  <2> QED
    BY <1>0, <1>12, <2>1 DEF Typed, GetMemInfo
<1>13. ASSUME NEW t \in Thread, ReportMemInfo(t) PROVE Typed(Int)'
  <2>1. op[t].helper \in Device /\ op[t].size \in Nat
    BY <1>0, <1>13 DEF Typed, ReportMemInfo, Idle
  <2>2. Capacity(op[t].helper) \in Nat
    BY <1>0 DEF Capacity
  <2>3. Minus(Limit, curSize[op[t].helper]) \in Nat
    BY <1>0, <2>1, MemoryAssumption DEF TypeOK, Typed, Minus
  <2>4. memInfo' \in [Thread -> [avail : Nat, total : Nat]]
    BY <1>0, <1>13, <2>1, <2>2, <2>3, MemoryAssumption DEF Typed, ReportMemInfo, Least
  <2> QED
    BY <1>0, <1>13, <2>4 DEF Typed, ReportMemInfo, Idle
<1>14. CASE DriverUnloads
  BY <1>0, <1>14 DEF Typed, DriverUnloads
<1>15. CASE UNCHANGED vars
  BY <1>0, <1>15 DEF Typed, vars
<1> QED
  BY <1>1, <1>2, <1>3, <1>4, <1>5, <1>6, <1>7, <1>8, <1>9, <1>10, <1>11, <1>12,
     <1>13, <1>14, <1>15 DEF Next
-----------------------------------------------------------------------------
\* What a successful musaMalloc records for its thread.
LEMMA ContinueEffect ==
  ASSUME Typed(Int), NEW t \in Thread, op[t].at = "malloc", NEW P,
         Continue(t, "countMalloc", P)
  PROVE  /\ op'[t].at = "countMalloc" /\ op'[t].pages = P
         /\ op'[t].helper = op[t].helper /\ op'[t].size = op[t].size
         /\ op'[t].back = op[t].back
         /\ \A u \in Thread \ {t} : op'[u] = op[u]
<1> DEFINE r == [op[t] EXCEPT !.at = "countMalloc", !.pages = P]
<1>1. op[t] \in [at : Steps, helper : Device, size : Nat, pages : SUBSET Page, back : Device]
  BY DEF Typed, Idle
<1>2. op' = [op EXCEPT ![t] = r]
  BY DEF Continue
<1>3. /\ r.at = "countMalloc" /\ r.pages = P /\ r.helper = op[t].helper
      /\ r.size = op[t].size /\ r.back = op[t].back
  BY <1>1
<1> HIDE DEF r
<1> QED
  BY <1>2, <1>3 DEF Typed

\* A step in which no operation starts or stops to hold pages of its own.
Quiet ==
  /\ UNCHANGED <<curSize, mallocs, handles>>
  /\ \A u \in Thread :
       \/ op'[u] = op[u]
       \/ op'[u].at \notin {"countMalloc", "countHandle", "uncountMalloc", "uncountHandle"}
          /\ ~Allocating(u) /\ ~Releasing(u)

LEMMA QuietKeepsAllocations ==
  ASSUME BlocksDisjoint, AccountingExact, Quiet
  PROVE  BlocksDisjoint' /\ AccountingExact'
<1>1. \A h \in Device : Blocks(h)' = Blocks(h)
  BY DEF Quiet, Blocks
<1>2. \A u \in Thread : Allocating(u)' => Allocating(u) /\ op'[u] = op[u]
  BY DEF Quiet, Allocating
<1>3. \A u \in Thread, h \in Device : Returned(u, h)' = Returned(u, h)
  BY DEF Quiet, Returned, Releasing
<1>4. AccountingExact'
  BY <1>1, <1>3, RecordedUnchanged DEF Quiet
<1>5. BlocksDisjoint'
  BY <1>1, <1>2 DEF BlocksDisjoint, Quiet
<1> QED
  BY <1>4, <1>5

\* Steps that leave every allocation and every counter alone.
LEMMA QuietSteps ==
  ASSUME AccountingInv,
         \/ \E t \in Thread :
              \/ \E d \in Device : SetDevice(t, d)
              \/ \E h \in Device, n \in Sizes : Malloc(t, h, n)
              \/ MallocFails(t)
              \/ \E h \in Device : \E P \in mallocs[h] : FreeUnloading(t, h, P)
              \/ \E h \in Device : GetMemInfo(t, h)
              \/ ReportMemInfo(t)
         \/ DriverUnloads
         \/ UNCHANGED vars
  PROVE  Quiet
<1> USE DEF AccountingInv, Typed, Quiet, Allocating, Releasing, Idle, Begin, Return
<1>1. ASSUME NEW t \in Thread, NEW d \in Device, SetDevice(t, d) PROVE Quiet
  BY <1>1 DEF SetDevice
<1>2. ASSUME NEW t \in Thread, NEW h \in Device, NEW n \in Sizes, Malloc(t, h, n)
      PROVE  Quiet
  BY <1>2 DEF Malloc
<1>3. ASSUME NEW t \in Thread, MallocFails(t) PROVE Quiet
  BY <1>3 DEF MallocFails
<1>4. ASSUME NEW t \in Thread, NEW h \in Device, NEW P, FreeUnloading(t, h, P) PROVE Quiet
  BY <1>4 DEF FreeUnloading
<1>5. ASSUME NEW t \in Thread, NEW h \in Device, GetMemInfo(t, h) PROVE Quiet
  <2>1. \A n, s : [at |-> s, helper |-> h, size |-> n, pages |-> {}, back |-> device[t]].at = s
    OBVIOUS
  <2> QED
    BY <1>5, <2>1 DEF GetMemInfo
<1>6. ASSUME NEW t \in Thread, ReportMemInfo(t) PROVE Quiet
  BY <1>6 DEF ReportMemInfo
<1>7. CASE DriverUnloads
  BY <1>7 DEF DriverUnloads
<1>8. CASE UNCHANGED vars
  BY <1>8 DEF vars
<1> QED
  BY <1>1, <1>2, <1>3, <1>4, <1>5, <1>6, <1>7, <1>8

\* Fresh pages are disjoint from every allocation and from what other threads
\* are about to count.
LEMMA FreshDisjoint ==
  ASSUME NEW d, NEW P \in SUBSET FreePages(d)
  PROVE  /\ \A h \in Device : P \cap UNION Blocks(h) = {}
         /\ \A u \in Thread : Allocating(u) => P \cap op[u].pages = {}
<1>1. P \cap UsedPages = {}
  BY DEF FreePages
<1>2. \A h \in Device : UNION Blocks(h) \subseteq UsedPages
  BY DEF UsedPages
<1>3. ASSUME NEW u \in Thread, Allocating(u) PROVE op[u].pages \subseteq UsedPages
  <2>1. Obtained(u) = op[u].pages
    BY <1>3 DEF Obtained
  <2> QED
    BY <2>1 DEF UsedPages
<1> QED
  BY <1>1, <1>2, <1>3

\* The driver hands t the pages P.
LEMMA AllocateKeeps ==
  ASSUME AccountingInv, NEW t \in Thread, ~Allocating(t), ~Releasing(t),
         NEW d, NEW P \in SUBSET FreePages(d),
         op'[t].at \in {"countMalloc", "countHandle"}, op'[t].pages = P,
         \A u \in Thread \ {t} : op'[u] = op[u],
         UNCHANGED <<curSize, mallocs, handles>>
  PROVE  BlocksDisjoint' /\ AccountingExact'
<1>1. \A h \in Device : Blocks(h)' = Blocks(h)
  BY DEF Blocks
<1>2. \A u \in Thread \ {t} : (Allocating(u)' <=> Allocating(u)) /\ op'[u] = op[u]
  BY DEF Allocating
<1>3. \A u \in Thread, h \in Device : Returned(u, h)' = Returned(u, h)
  BY DEF Returned, Releasing
<1>4. AccountingExact'
  BY <1>1, <1>3, RecordedUnchanged DEF AccountingInv
<1>5. BlocksDisjoint'
  BY <1>1, <1>2, FreshDisjoint DEF AccountingInv, BlocksDisjoint
<1> QED
  BY <1>4, <1>5

\* The pages of t become an allocation of the helper g.
LEMMA CountKeepsDisjoint ==
  ASSUME AccountingInv, NEW t \in Thread, Allocating(t),
         NEW g \in Device, NEW P, P = op[t].pages,
         \/ /\ mallocs' = [mallocs EXCEPT ![g] = mallocs[g] \cup {P}]
            /\ UNCHANGED handles
         \/ /\ handles' = [handles EXCEPT ![g] = handles[g] \cup {P}]
            /\ UNCHANGED mallocs,
         op' = [op EXCEPT ![t] = Idle]
  PROVE  Gains(g, P) /\ BlocksDisjoint'
<1>1. \A h \in Device : Blocks(h)' = IF h = g THEN Blocks(h) \cup {P} ELSE Blocks(h)
  BY DEF AccountingInv, Typed, Blocks
<1>2. /\ P # {}
      /\ \A h \in Device : P \cap UNION Blocks(h) = {}
      /\ \A u \in Thread \ {t} : Allocating(u) => P \cap op[u].pages = {}
  BY DEF AccountingInv, OpsSized, BlocksDisjoint
<1>3. ~Allocating(t)'
  BY DEF AccountingInv, Typed, Allocating, Idle
<1>4. \A u \in Thread \ {t} : (Allocating(u)' <=> Allocating(u)) /\ op'[u] = op[u]
  BY DEF AccountingInv, Typed, Allocating
<1>5. ASSUME NEW h \in Device, NEW k \in Device, NEW A \in Blocks(h)', NEW B \in Blocks(k)',
             A \cap B # {}
      PROVE  A = B /\ h = k
  BY <1>1, <1>2, <1>5 DEF AccountingInv, BlocksDisjoint
<1>6. \A h \in Device : mallocs'[h] \cap handles'[h] = {}
  <2>1. \A h \in Device : P \notin mallocs[h] /\ P \notin handles[h]
    BY <1>2 DEF Blocks
  <2>2. \A h \in Device : mallocs[h] \cap handles[h] = {}
    BY DEF AccountingInv, BlocksDisjoint
  <2>3. CASE mallocs' = [mallocs EXCEPT ![g] = mallocs[g] \cup {P}] /\ UNCHANGED handles
    BY <2>1, <2>2, <2>3 DEF AccountingInv, Typed
  <2>4. CASE handles' = [handles EXCEPT ![g] = handles[g] \cup {P}] /\ UNCHANGED mallocs
    BY <2>1, <2>2, <2>4 DEF AccountingInv, Typed
  <2> QED
    BY <2>3, <2>4
<1>7. ASSUME NEW u \in Thread, Allocating(u)'
      PROVE  /\ \A h \in Device : op'[u].pages \cap UNION Blocks(h)' = {}
             /\ \A v \in Thread \ {u} : Allocating(v)' => op'[u].pages \cap op'[v].pages = {}
  <2>1. u # t /\ Allocating(u) /\ op'[u] = op[u]
    BY <1>3, <1>4, <1>7
  <2>2. \A v \in Thread \ {u} : Allocating(v)' => v # t /\ Allocating(v) /\ op'[v] = op[v]
    BY <1>3, <1>4
  <2>3. /\ \A h \in Device : op[u].pages \cap UNION Blocks(h) = {}
        /\ \A v \in Thread \ {u} : Allocating(v) => op[u].pages \cap op[v].pages = {}
    BY <2>1 DEF AccountingInv, BlocksDisjoint
  <2>4. \A h \in Device : op[u].pages \cap UNION Blocks(h)' = {}
    BY <1>1, <1>2, <2>1, <2>3
  <2> QED
    BY <2>1, <2>2, <2>3, <2>4
<1>8. BlocksDisjoint'
  BY <1>5, <1>6, <1>7 DEF BlocksDisjoint
<1> QED
  BY <1>1, <1>8 DEF Gains

\* An allocation P of the helper g is given back to the driver.
LEMMA ReleaseKeepsDisjoint ==
  ASSUME AccountingInv, NEW t \in Thread, op[t] = Idle,
         NEW g \in Device, NEW P,
         \/ /\ P \in mallocs[g]
            /\ mallocs' = [mallocs EXCEPT ![g] = mallocs[g] \ {P}]
            /\ UNCHANGED handles
         \/ /\ P \in handles[g]
            /\ handles' = [handles EXCEPT ![g] = handles[g] \ {P}]
            /\ UNCHANGED mallocs,
         NEW step, step \in {"uncountMalloc", "uncountHandle"}, NEW n,
         Begin(t, step, g, n, P)
  PROVE  /\ \A h \in Device : Blocks(h)' = IF h = g THEN Blocks(h) \ {P} ELSE Blocks(h)
         /\ BlocksDisjoint'
<1>1. \A h \in Device : Blocks(h)' = IF h = g THEN Blocks(h) \ {P} ELSE Blocks(h)
  <2>1. mallocs[g] \cap handles[g] = {}
    BY DEF AccountingInv, BlocksDisjoint
  <2>2. CASE P \in mallocs[g] /\ mallocs' = [mallocs EXCEPT ![g] = mallocs[g] \ {P}]
             /\ UNCHANGED handles
    <3>1. P \notin handles[g]
      BY <2>1, <2>2
    <3> QED
      BY <2>2, <3>1 DEF AccountingInv, Typed, Blocks
  <2>3. CASE P \in handles[g] /\ handles' = [handles EXCEPT ![g] = handles[g] \ {P}]
             /\ UNCHANGED mallocs
    <3>1. P \notin mallocs[g]
      BY <2>1, <2>3
    <3> QED
      BY <2>3, <3>1 DEF AccountingInv, Typed, Blocks
  <2> QED
    BY <2>2, <2>3
<1>2. ~Allocating(t)'
  BY DEF AccountingInv, Typed, Allocating, Begin
<1>3. \A u \in Thread \ {t} : (Allocating(u)' <=> Allocating(u)) /\ op'[u] = op[u]
  BY DEF AccountingInv, Typed, Allocating, Begin
<1>4. \A h \in Device : Blocks(h)' \subseteq Blocks(h)
  BY <1>1
<1>5. \A h \in Device : mallocs'[h] \subseteq mallocs[h] /\ handles'[h] \subseteq handles[h]
  <2>1. CASE mallocs' = [mallocs EXCEPT ![g] = mallocs[g] \ {P}] /\ UNCHANGED handles
    BY <2>1 DEF AccountingInv, Typed
  <2>2. CASE handles' = [handles EXCEPT ![g] = handles[g] \ {P}] /\ UNCHANGED mallocs
    BY <2>2 DEF AccountingInv, Typed
  <2> QED
    BY <2>1, <2>2
<1>6. ASSUME NEW h \in Device, NEW k \in Device, NEW A \in Blocks(h)', NEW B \in Blocks(k)',
             A \cap B # {}
      PROVE  A = B /\ h = k
  BY <1>4, <1>6 DEF AccountingInv, BlocksDisjoint
<1>7. \A h \in Device : mallocs'[h] \cap handles'[h] = {}
  BY <1>5 DEF AccountingInv, BlocksDisjoint
<1>8. ASSUME NEW u \in Thread, Allocating(u)'
      PROVE  /\ \A h \in Device : op'[u].pages \cap UNION Blocks(h)' = {}
             /\ \A v \in Thread \ {u} : Allocating(v)' => op'[u].pages \cap op'[v].pages = {}
  BY <1>2, <1>3, <1>4, <1>8 DEF AccountingInv, BlocksDisjoint
<1>9. BlocksDisjoint'
  BY <1>6, <1>7, <1>8 DEF BlocksDisjoint
<1> QED
  BY <1>1, <1>9

\* fetch_sub leaves the allocations alone.
LEMMA UncountKeepsDisjoint ==
  ASSUME AccountingInv, NEW t \in Thread, op' = [op EXCEPT ![t] = Idle],
         UNCHANGED <<mallocs, handles>>
  PROVE  /\ \A h \in Device : Blocks(h)' = Blocks(h)
         /\ BlocksDisjoint'
<1>1. \A h \in Device : Blocks(h)' = Blocks(h)
  BY DEF Blocks
<1>2. \A u \in Thread : Allocating(u)' => Allocating(u) /\ op'[u] = op[u]
  BY DEF AccountingInv, Typed, Allocating, Idle
<1> QED
  BY <1>1, <1>2 DEF AccountingInv, BlocksDisjoint
-----------------------------------------------------------------------------
\* Initially nothing is allocated and every counter is zero.
LEMMA InitAccounting == Init => AccountingInv
<1> SUFFICES ASSUME Init PROVE AccountingInv
  OBVIOUS
<1>1. Typed(Int)
  BY DEF Init, Typed, NoInfo
<1>2. \A h \in Device : Blocks(h) = {}
  BY DEF Init, Blocks
<1>3. \A t \in Thread : ~Allocating(t) /\ ~Releasing(t) /\ op[t].at # "malloc"
  BY DEF Init, Allocating, Releasing, Idle
<1>4. BlocksDisjoint
  BY <1>2, <1>3 DEF BlocksDisjoint, Init
<1>5. OpsSized
  BY <1>3 DEF OpsSized
<1>6. AccountingExact
  <2>1. \A h \in Device : Recorded(h) = {}
    BY <1>2, <1>3 DEF Recorded, Returned
  <2> QED
    BY <2>1, FS_EmptySet DEF AccountingExact, Init
<1> QED
  BY <1>1, <1>4, <1>5, <1>6 DEF AccountingInv

\* Every step keeps the sizes of the operations right.
LEMMA NextSized ==
  ASSUME AccountingInv, [Next]_vars
  PROVE  OpsSized'
<1> DEFINE Sized(t) ==
      /\ Allocating(t) \/ Releasing(t) => op[t].size = Cardinality(op[t].pages)
      /\ Allocating(t) => op[t].pages # {}
      /\ op[t].at = "malloc" => op[t].size \in Sizes
<1>0. \A u \in Thread : Sized(u) /\ Typed(Int)
  BY DEF AccountingInv, OpsSized
<1>1. \A u \in Thread : op'[u] = op[u] => Sized(u)'
  BY <1>0 DEF Allocating, Releasing
<1>2. \A u \in Thread : op'[u] = Idle => Sized(u)'
  BY DEF Allocating, Releasing, Idle
<1>3. \A P \in SUBSET Page : Cardinality(P) \in Sizes => P # {}
  BY FS_EmptySet DEF Sizes
<1>4. ASSUME NEW t \in Thread, Return(t) PROVE OpsSized'
  <2>1. \A u \in Thread : op'[u] = IF u = t THEN Idle ELSE op[u]
    BY <1>0, <1>4 DEF Typed, Return
  <2> QED
    BY <1>1, <1>2, <2>1 DEF OpsSized
<1>5. ASSUME NEW t \in Thread, NEW step, NEW h, NEW n, NEW P, Begin(t, step, h, n, P),
             step \in {"malloc", "countHandle"} => n \in Sizes,
             step \in {"malloc", "limit", "limitUnknown"} \/ n = Cardinality(P),
             step # "countMalloc",
             step = "countHandle" => P \in SUBSET Page
      PROVE  OpsSized'
  <2>1. /\ op'[t].at = step /\ op'[t].size = n /\ op'[t].pages = P
        /\ \A u \in Thread \ {t} : op'[u] = op[u]
    BY <1>0, <1>5 DEF Typed, Begin
  <2>2. Sized(t)'
    <3>1. Allocating(t)' => step = "countHandle"
      BY <1>5, <2>1 DEF Allocating
    <3>2. Releasing(t)' => step \in {"uncountMalloc", "uncountHandle"}
      BY <2>1 DEF Releasing
    <3>3. step = "countHandle" => P # {} /\ n = Cardinality(P)
      BY <1>3, <1>5
    <3> QED
      BY <1>5, <2>1, <3>1, <3>2, <3>3
  <2> QED
    BY <1>1, <2>1, <2>2 DEF OpsSized
<1>6. ASSUME NEW t \in Thread, NEW h \in Device, NEW n \in Sizes, Malloc(t, h, n)
      PROVE  OpsSized'
  BY <1>5, <1>6 DEF Malloc
<1>7. ASSUME NEW t \in Thread, NEW h \in Device, NEW n \in Sizes, MemCreate(t, h, n)
      PROVE  OpsSized'
  <2>1. PICK P \in SUBSET FreePages(h) : Cardinality(P) = n /\ Begin(t, "countHandle", h, n, P)
    BY <1>7, Zenon DEF MemCreate
  <2>2. P \in SUBSET Page
    BY DEF FreePages
  <2> QED
    BY <1>5, <2>1, <2>2
<1>8. ASSUME NEW t \in Thread, MallocSucceeds(t) PROVE OpsSized'
  <2>1. PICK P \in SUBSET FreePages(device[t]) :
          Cardinality(P) = op[t].size /\ Continue(t, "countMalloc", P)
    BY <1>8, Zenon DEF MallocSucceeds
  <2>2. op[t].at = "malloc" /\ op[t].size \in Sizes
    BY <1>0, <1>8 DEF MallocSucceeds
  <2>3. P # {}
    BY <1>3, <2>1, <2>2 DEF FreePages
  <2>4. Sized(t)' /\ \A u \in Thread \ {t} : op'[u] = op[u]
    BY <1>0, <2>1, <2>2, <2>3, ContinueEffect DEF Allocating, Releasing
  <2> QED
    BY <1>1, <2>4 DEF OpsSized
<1>9. ASSUME NEW t \in Thread, NEW h \in Device, NEW P \in mallocs[h],
             Free(t, h, P) \/ FreeUnloading(t, h, P)
      PROVE  OpsSized'
  <2>1. CASE Free(t, h, P)
    BY <1>5, <2>1 DEF Free
  <2>2. CASE FreeUnloading(t, h, P)
    BY <1>1, <2>2 DEF FreeUnloading, OpsSized
  <2> QED
    BY <1>9, <2>1, <2>2
<1>10. ASSUME NEW t \in Thread, NEW h \in Device, NEW P \in handles[h], MemRelease(t, h, P)
       PROVE  OpsSized'
  BY <1>5, <1>10 DEF MemRelease
<1>11. ASSUME NEW t \in Thread, NEW h \in Device, GetMemInfo(t, h) PROVE OpsSized'
  <2>1. \E n : Begin(t, "limit", h, n, {}) \/ Begin(t, "limitUnknown", h, n, {})
    BY <1>11 DEF GetMemInfo
  <2> QED
    BY <1>5, <2>1
<1>12. ASSUME NEW t \in Thread,
              \/ MallocFails(t) \/ CountMalloc(t) \/ CountHandle(t)
              \/ UncountMalloc(t) \/ UncountHandle(t) \/ ReportMemInfo(t)
       PROVE  OpsSized'
  BY <1>4, <1>12 DEF MallocFails, CountMalloc, CountHandle, UncountMalloc, UncountHandle,
     ReportMemInfo
<1>13. ASSUME UNCHANGED op PROVE OpsSized'
  BY <1>1, <1>13 DEF OpsSized
<1> QED
  BY <1>6, <1>7, <1>8, <1>9, <1>10, <1>11, <1>12, <1>13
  DEF Next, SetDevice, DriverUnloads, vars

\* Every step keeps allocations disjoint and counters exact.
LEMMA NextExact ==
  ASSUME AccountingInv, [Next]_vars
  PROVE  BlocksDisjoint' /\ AccountingExact'
<1>0. Typed(Int) /\ BlocksDisjoint /\ AccountingExact
  BY DEF AccountingInv
<1>1. Quiet => BlocksDisjoint' /\ AccountingExact'
  BY <1>0, QuietKeepsAllocations
<1>2. ASSUME NEW t \in Thread, NEW h \in Device, NEW n \in Sizes, MemCreate(t, h, n)
      PROVE  BlocksDisjoint' /\ AccountingExact'
  <2>1. PICK P \in SUBSET FreePages(h) : Cardinality(P) = n /\ Begin(t, "countHandle", h, n, P)
    BY <1>2, Zenon DEF MemCreate
  <2>2. /\ op'[t].at = "countHandle" /\ op'[t].pages = P
        /\ \A u \in Thread \ {t} : op'[u] = op[u]
    BY <1>0, <2>1 DEF Typed, Begin
  <2>3. ~Allocating(t) /\ ~Releasing(t) /\ UNCHANGED <<curSize, mallocs, handles>>
    BY <1>2 DEF MemCreate, Allocating, Releasing, Idle
  <2> QED
    BY <2>2, <2>3, AllocateKeeps
<1>3. ASSUME NEW t \in Thread, MallocSucceeds(t) PROVE BlocksDisjoint' /\ AccountingExact'
  <2>1. PICK P \in SUBSET FreePages(device[t]) : Continue(t, "countMalloc", P)
    BY <1>3, Zenon DEF MallocSucceeds
  <2>2. op[t].at = "malloc" /\ UNCHANGED <<curSize, mallocs, handles>>
    BY <1>3 DEF MallocSucceeds
  <2>3. /\ op'[t].at = "countMalloc" /\ op'[t].pages = P
        /\ \A u \in Thread \ {t} : op'[u] = op[u]
    BY <1>0, <2>1, <2>2, ContinueEffect
  <2>4. ~Allocating(t) /\ ~Releasing(t)
    BY <2>2 DEF Allocating, Releasing
  <2> QED
    BY <2>2, <2>3, <2>4, AllocateKeeps
<1>4. ASSUME NEW t \in Thread, CountMalloc(t) \/ CountHandle(t)
      PROVE  BlocksDisjoint' /\ AccountingExact'
  <2>0. PICK g, P : g = op[t].helper /\ P = op[t].pages
    OBVIOUS
  <2>1. /\ Allocating(t)
        /\ op' = [op EXCEPT ![t] = Idle]
        /\ curSize' = [curSize EXCEPT ![g] = curSize[g] + op[t].size]
    BY <1>4, <2>0 DEF CountMalloc, CountHandle, Allocating, Return
  <2>2. \/ mallocs' = [mallocs EXCEPT ![g] = mallocs[g] \cup {P}] /\ UNCHANGED handles
        \/ handles' = [handles EXCEPT ![g] = handles[g] \cup {P}] /\ UNCHANGED mallocs
    BY <1>4, <2>0 DEF CountMalloc, CountHandle
  <2>3. g \in Device
    BY <1>0, <2>0, <2>1 DEF Typed, Allocating, Idle
  <2>4. Gains(g, P) /\ BlocksDisjoint'
    BY <2>0, <2>1, <2>2, <2>3, CountKeepsDisjoint
  <2>5. AccountingExact'
    BY <2>0, <2>1, <2>4, CountKeepsExact
  <2> QED
    BY <2>4, <2>5
<1>5. ASSUME NEW t \in Thread, NEW h \in Device, NEW P \in mallocs[h], Free(t, h, P)
      PROVE  BlocksDisjoint' /\ AccountingExact'
  <2>1. /\ op[t] = Idle /\ UNCHANGED <<curSize, handles>>
        /\ mallocs' = [mallocs EXCEPT ![h] = mallocs[h] \ {P}]
        /\ Begin(t, "uncountMalloc", h, Cardinality(P), P)
    BY <1>5 DEF Free
  <2>2. /\ \A g \in Device : Blocks(g)' = IF g = h THEN Blocks(g) \ {P} ELSE Blocks(g)
        /\ BlocksDisjoint'
    BY <2>1, ReleaseKeepsDisjoint
  <2>3. P \in Blocks(h)
    BY DEF Blocks
  <2>4. AccountingExact'
    BY <2>1, <2>2, <2>3, ReleaseKeepsExact
  <2> QED
    BY <2>2, <2>4
<1>6. ASSUME NEW t \in Thread, NEW h \in Device, NEW P \in handles[h], MemRelease(t, h, P)
      PROVE  BlocksDisjoint' /\ AccountingExact'
  <2>1. /\ op[t] = Idle /\ UNCHANGED <<curSize, mallocs>>
        /\ handles' = [handles EXCEPT ![h] = handles[h] \ {P}]
        /\ Begin(t, "uncountHandle", h, Cardinality(P), P)
    BY <1>6 DEF MemRelease
  <2>2. /\ \A g \in Device : Blocks(g)' = IF g = h THEN Blocks(g) \ {P} ELSE Blocks(g)
        /\ BlocksDisjoint'
    BY <2>1, ReleaseKeepsDisjoint
  <2>3. P \in Blocks(h)
    BY DEF Blocks
  <2>4. AccountingExact'
    BY <2>1, <2>2, <2>3, ReleaseKeepsExact
  <2> QED
    BY <2>2, <2>4
<1>7. ASSUME NEW t \in Thread, UncountMalloc(t) \/ UncountHandle(t)
      PROVE  BlocksDisjoint' /\ AccountingExact'
  <2>1. /\ Releasing(t) /\ op' = [op EXCEPT ![t] = Idle] /\ UNCHANGED <<mallocs, handles>>
        /\ curSize' = [curSize EXCEPT ![op[t].helper] =
                                        Minus(curSize[op[t].helper], op[t].size)]
    BY <1>7 DEF UncountMalloc, UncountHandle, Releasing, Return
  <2>2. (\A h \in Device : Blocks(h)' = Blocks(h)) /\ BlocksDisjoint'
    BY <2>1, UncountKeepsDisjoint
  <2>3. PICK g, P : g = op[t].helper /\ P = op[t].pages
    OBVIOUS
  <2>4. AccountingExact'
    BY <2>1, <2>2, <2>3, UncountKeepsExact
  <2> QED
    BY <2>2, <2>4
<1> QED
  BY <1>1, <1>2, <1>3, <1>4, <1>5, <1>6, <1>7, QuietSteps DEF Next

\* The counters are exact in every reachable state.
LEMMA AccountingHolds == Spec => []AccountingInv
<1>1. Init => AccountingInv
  BY InitAccounting
<1>2. AccountingInv /\ [Next]_vars => AccountingInv'
  <2> SUFFICES ASSUME AccountingInv, [Next]_vars PROVE AccountingInv'
    OBVIOUS
  <2>1. Typed(Int)'
    BY NextTyped
  <2>2. OpsSized'
    BY NextSized
  <2>3. BlocksDisjoint' /\ AccountingExact'
    BY NextExact
  <2> QED
    BY <2>1, <2>2, <2>3 DEF AccountingInv
<1> QED
  BY <1>1, <1>2, PTL DEF Spec

\* RecordedGpuMallocHelper::cur_size_ always equals the size of the
\* allocations of its helper plus what freeing threads have yet to subtract,
\* for any interleaving of any number of threads.
THEOREM CounterIsExact == Spec => []AccountingExact
<1>1. AccountingInv => AccountingExact
  BY DEF AccountingInv
<1> QED
  BY <1>1, AccountingHolds, PTL

\* Every variable stays in its range: fetch_add does not overflow and
\* fetch_sub does not go below zero.
THEOREM CounterInRange == Spec => []TypeOK
<1>1. AccountingInv => TypeOK
  BY ExactIsTyped DEF AccountingInv
<1> QED
  BY <1>1, AccountingHolds, PTL
-----------------------------------------------------------------------------
\* Where a thread is during a call: on the helper's device while musaMalloc
\* runs, and able to return to where the framework put it.
Guarded(t) ==
  /\ op[t].at \in {"malloc", "countMalloc", "uncountMalloc"} => op[t].back = place[t]
  /\ op[t].at \notin {"malloc", "countMalloc", "uncountMalloc"} => device[t] = place[t]
  /\ op[t].at = "malloc" => device[t] = op[t].helper
  /\ Allocating(t) => \A p \in op[t].pages : PageDevice[p] = op[t].helper

GuardInv ==
  /\ AccountingInv
  /\ BlocksOnDevice
  /\ \A t \in Thread : Guarded(t)

\* A step of t alone, which keeps the allocations, keeps the guard invariant
\* if it keeps it for t.
LEMMA GuardedFrame ==
  ASSUME GuardInv, NEW t \in Thread, Guarded(t)',
         \A u \in Thread \ {t} : op'[u] = op[u] /\ device'[u] = device[u] /\ place'[u] = place[u]
  PROVE  \A u \in Thread : Guarded(u)'
  BY DEF GuardInv, Guarded, Allocating

\* Every step leaves every thread guarded.
LEMMA NextGuarded ==
  ASSUME GuardInv, [Next]_vars
  PROVE  \A u \in Thread : Guarded(u)'
<1>0. Typed(Int) /\ (\A u \in Thread : Guarded(u)) /\ Idle.at = "idle"
  BY DEF GuardInv, AccountingInv, Idle
<1>1. ASSUME NEW t \in Thread, NEW d \in Device, SetDevice(t, d)
      PROVE  \A u \in Thread : Guarded(u)'
  <2>1. Guarded(t)'
    BY <1>0, <1>1 DEF SetDevice, Guarded, Typed, Allocating
  <2> QED
    BY <1>0, <1>1, <2>1, GuardedFrame DEF SetDevice, Typed
<1>2. ASSUME NEW t \in Thread, NEW h \in Device, NEW n, NEW P, NEW step,
             Begin(t, step, h, n, P), op[t] = Idle, UNCHANGED place,
             \/ EnterGuard(t, h) /\ step \in {"malloc", "uncountMalloc"}
             \/ UNCHANGED device /\ step \in {"countHandle", "uncountHandle", "limit",
                                               "limitUnknown"},
             step = "countHandle" => \A p \in P : PageDevice[p] = h
      PROVE  \A u \in Thread : Guarded(u)'
  <2>1. /\ op'[t].at = step /\ op'[t].helper = h /\ op'[t].pages = P /\ op'[t].back = device[t]
        /\ \A u \in Thread \ {t} : op'[u] = op[u]
    BY <1>0, <1>2 DEF Begin, Typed
  <2>2. device[t] = place[t]
    BY <1>0, <1>2 DEF Guarded
  <2>3. CASE EnterGuard(t, h) /\ step \in {"malloc", "uncountMalloc"}
    <3>1. device'[t] = h /\ \A u \in Thread \ {t} : device'[u] = device[u]
      BY <1>0, <2>3 DEF EnterGuard, Typed
    <3>2. Guarded(t)'
      BY <1>2, <2>1, <2>2, <2>3, <3>1 DEF Guarded, Allocating
    <3> QED
      BY <1>2, <2>1, <3>1, <3>2, GuardedFrame
  <2>4. CASE UNCHANGED device /\ step \in {"countHandle", "uncountHandle", "limit", "limitUnknown"}
    <3>1. Guarded(t)'
      BY <1>2, <2>1, <2>2, <2>4 DEF Guarded, Allocating
    <3> QED
      BY <1>2, <2>1, <2>4, <3>1, GuardedFrame
  <2> QED
    BY <1>2, <2>3, <2>4
<1>3. ASSUME NEW t \in Thread, Return(t), UNCHANGED place,
             \/ LeaveGuard(t) /\ op[t].at \in {"malloc", "countMalloc", "uncountMalloc"}
             \/ UNCHANGED device /\ op[t].at \notin {"malloc", "countMalloc", "uncountMalloc"}
      PROVE  \A u \in Thread : Guarded(u)'
  <2>1. op'[t] = Idle /\ \A u \in Thread \ {t} : op'[u] = op[u]
    BY <1>0, <1>3 DEF Return, Typed
  <2>2. device'[t] = place[t] /\ \A u \in Thread \ {t} : device'[u] = device[u]
    BY <1>0, <1>3 DEF LeaveGuard, Typed, Guarded
  <2>3. Guarded(t)'
    BY <1>0, <1>3, <2>1, <2>2 DEF Guarded, Allocating
  <2> QED
    BY <1>3, <2>1, <2>2, <2>3, GuardedFrame
<1>4. ASSUME NEW t \in Thread, NEW h \in Device, NEW n \in Sizes, Malloc(t, h, n)
      PROVE  \A u \in Thread : Guarded(u)'
  BY <1>2, <1>4 DEF Malloc
<1>5. ASSUME NEW t \in Thread, NEW h \in Device, NEW n \in Sizes, MemCreate(t, h, n)
      PROVE  \A u \in Thread : Guarded(u)'
  <2>1. PICK P \in SUBSET FreePages(h) : Begin(t, "countHandle", h, n, P)
    BY <1>5, Zenon DEF MemCreate
  <2>2. \A p \in P : PageDevice[p] = h
    BY DEF FreePages
  <2>3. op[t] = Idle /\ UNCHANGED <<device, place>>
    BY <1>5 DEF MemCreate
  <2> QED
    BY <1>2, <2>1, <2>2, <2>3
<1>6. ASSUME NEW t \in Thread, MallocSucceeds(t) PROVE \A u \in Thread : Guarded(u)'
  <2>1. PICK P \in SUBSET FreePages(device[t]) : Continue(t, "countMalloc", P)
    BY <1>6, Zenon DEF MallocSucceeds
  <2>2. op[t].at = "malloc" /\ UNCHANGED <<device, place>>
    BY <1>6 DEF MallocSucceeds
  <2>3. /\ op'[t].at = "countMalloc" /\ op'[t].pages = P
        /\ op'[t].helper = op[t].helper /\ op'[t].back = op[t].back
        /\ \A u \in Thread \ {t} : op'[u] = op[u]
    BY <1>0, <2>1, <2>2, ContinueEffect
  <2>4. op[t].back = place[t] /\ device[t] = op[t].helper
    BY <1>0, <2>2 DEF Guarded
  <2>5. \A p \in P : PageDevice[p] = op[t].helper
    BY <2>4 DEF FreePages
  <2>6. Guarded(t)'
    BY <2>2, <2>3, <2>4, <2>5 DEF Guarded, Allocating
  <2> QED
    BY <2>2, <2>3, <2>6, GuardedFrame
<1>7. ASSUME NEW t \in Thread, NEW h \in Device, NEW P \in mallocs[h], Free(t, h, P)
      PROVE  \A u \in Thread : Guarded(u)'
  BY <1>2, <1>7 DEF Free
<1>8. ASSUME NEW t \in Thread, NEW h \in Device, NEW P \in handles[h], MemRelease(t, h, P)
      PROVE  \A u \in Thread : Guarded(u)'
  BY <1>2, <1>8 DEF MemRelease
<1>9. ASSUME NEW t \in Thread, NEW h \in Device, GetMemInfo(t, h)
      PROVE  \A u \in Thread : Guarded(u)'
  BY <1>2, <1>9 DEF GetMemInfo
<1>10. ASSUME NEW t \in Thread, CountMalloc(t) \/ UncountMalloc(t) \/ MallocFails(t)
       PROVE  \A u \in Thread : Guarded(u)'
  BY <1>3, <1>10 DEF CountMalloc, UncountMalloc, MallocFails
<1>11. ASSUME NEW t \in Thread, CountHandle(t) \/ UncountHandle(t) \/ ReportMemInfo(t)
       PROVE  \A u \in Thread : Guarded(u)'
  BY <1>3, <1>11 DEF CountHandle, UncountHandle, ReportMemInfo
<1>12. ASSUME UNCHANGED <<op, device, place>> PROVE \A u \in Thread : Guarded(u)'
  BY <1>0, <1>12 DEF Guarded, Allocating
<1> QED
  BY <1>1, <1>4, <1>5, <1>6, <1>7, <1>8, <1>9, <1>10, <1>11, <1>12
  DEF Next, FreeUnloading, DriverUnloads, vars

\* Every step leaves every allocation on its helper's device.
LEMMA NextOnDevice ==
  ASSUME GuardInv, [Next]_vars
  PROVE  BlocksOnDevice'
<1>0. Typed(Int) /\ BlocksOnDevice /\ \A u \in Thread : Guarded(u)
  BY DEF GuardInv, AccountingInv
<1>1. ASSUME NEW t \in Thread, CountMalloc(t) PROVE BlocksOnDevice'
  <2>1. \A p \in op[t].pages : PageDevice[p] = op[t].helper
    BY <1>0, <1>1 DEF CountMalloc, Guarded, Allocating
  <2>2. /\ UNCHANGED handles
        /\ mallocs' = [mallocs EXCEPT ![op[t].helper] = mallocs[op[t].helper] \cup {op[t].pages}]
    BY <1>1 DEF CountMalloc
  <2> QED
    BY <1>0, <2>1, <2>2 DEF BlocksOnDevice, Blocks, Typed
<1>2. ASSUME NEW t \in Thread, CountHandle(t) PROVE BlocksOnDevice'
  <2>1. \A p \in op[t].pages : PageDevice[p] = op[t].helper
    BY <1>0, <1>2 DEF CountHandle, Guarded, Allocating
  <2>2. /\ UNCHANGED mallocs
        /\ handles' = [handles EXCEPT ![op[t].helper] = handles[op[t].helper] \cup {op[t].pages}]
    BY <1>2 DEF CountHandle
  <2> QED
    BY <1>0, <2>1, <2>2 DEF BlocksOnDevice, Blocks, Typed
<1>3. ASSUME \A h \in Device : Blocks(h)' \subseteq Blocks(h) PROVE BlocksOnDevice'
  BY <1>0, <1>3 DEF BlocksOnDevice
<1>4. ASSUME NEW t \in Thread, NEW h \in Device, NEW P \in mallocs[h], Free(t, h, P)
      PROVE  BlocksOnDevice'
  <2>1. UNCHANGED handles /\ mallocs' = [mallocs EXCEPT ![h] = mallocs[h] \ {P}]
    BY <1>4 DEF Free
  <2> QED
    BY <1>0, <1>3, <2>1 DEF Blocks, Typed
<1>5. ASSUME NEW t \in Thread, NEW h \in Device, NEW P \in handles[h], MemRelease(t, h, P)
      PROVE  BlocksOnDevice'
  <2>1. UNCHANGED mallocs /\ handles' = [handles EXCEPT ![h] = handles[h] \ {P}]
    BY <1>5 DEF MemRelease
  <2> QED
    BY <1>0, <1>3, <2>1 DEF Blocks, Typed
<1>6. ASSUME UNCHANGED <<mallocs, handles>> PROVE BlocksOnDevice'
  BY <1>3, <1>6 DEF Blocks
<1> QED
  BY <1>1, <1>2, <1>4, <1>5, <1>6
  DEF Next, SetDevice, Malloc, MemCreate, MallocFails, MallocSucceeds, FreeUnloading,
      UncountMalloc, UncountHandle, GetMemInfo, ReportMemInfo, DriverUnloads, vars

\* The guard invariant holds in every reachable state.
LEMMA GuardHolds == Spec => []GuardInv
<1>1. Init => GuardInv
  <2> SUFFICES ASSUME Init PROVE GuardInv
    OBVIOUS
  <2>1. AccountingInv
    BY InitAccounting
  <2>2. BlocksOnDevice
    BY DEF Init, BlocksOnDevice, Blocks
  <2>3. \A t \in Thread : Guarded(t)
    BY DEF Init, Guarded, Allocating, Idle
  <2> QED
    BY <2>1, <2>2, <2>3 DEF GuardInv
<1>2. GuardInv /\ [Next]_vars => GuardInv'
  <2> SUFFICES ASSUME GuardInv, [Next]_vars PROVE GuardInv'
    OBVIOUS
  <2>1. Typed(Int)' /\ OpsSized' /\ BlocksDisjoint' /\ AccountingExact'
    BY NextTyped, NextSized, NextExact DEF GuardInv
  <2> QED
    BY <2>1, NextGuarded, NextOnDevice DEF GuardInv, AccountingInv
<1> QED
  BY <1>1, <1>2, PTL DEF Spec

\* CUDADeviceGuard: whatever way an operation ends, its thread is back on the
\* device the framework put it on.
THEOREM GuardsRestoreDevice == Spec => []DeviceRestored
<1>1. GuardInv => DeviceRestored
  BY DEF GuardInv, Guarded, DeviceRestored, Idle
<1> QED
  BY <1>1, GuardHolds, PTL

\* CUDADeviceGuard: memory of a helper lies on the helper's device.
THEOREM MemoryOnItsDevice == Spec => []BlocksOnDevice
<1>1. GuardInv => BlocksOnDevice
  BY DEF GuardInv
<1> QED
  BY <1>1, GuardHolds, PTL
-----------------------------------------------------------------------------
\* A thread that passed the check of the limit and did not count yet, and what
\* it was promised: as many units as it asked for.
Requesting(t) == op[t].at \in {"malloc", "countMalloc"}
Asked(t, h) == IF Requesting(t) /\ op[t].helper = h THEN 1..op[t].size ELSE {}

\* Memory of the helper's callers and what the helper has promised on top.
Promised(h) ==
  (UNION mallocs[h]) \X {Settled} \cup (UNION {Asked(t, h) \X {t} : t \in Thread})

\* The inductive invariant behind OvershootBounded: the bound already holds
\* when every promise is counted as kept.
OvershootInv ==
  /\ AccountingInv
  /\ NeedRecord => \A t \in Thread : Requesting(t) => op[t].size <= Limit
  /\ NeedRecord => \A h \in Device :
       Cardinality(Promised(h)) <= Cardinality(Thread) * Limit

\* Promises are finite.
LEMMA PromisedFinite ==
  ASSUME Typed(Int), NEW h \in Device,
         \A t \in Thread : Requesting(t) => op[t].size <= Limit
  PROVE  /\ IsFiniteSet(Promised(h))
         /\ IsFiniteSet(UNION mallocs[h])
         /\ \A t \in Thread : Asked(t, h) \subseteq 1..Limit
<1>1. UNION mallocs[h] \subseteq Page
  BY DEF Typed
<1>2. \A t \in Thread : Asked(t, h) \subseteq 1..Limit
  <2> SUFFICES ASSUME NEW t \in Thread, Requesting(t)
               PROVE  1..op[t].size \subseteq 1..Limit
    BY DEF Asked
  <2>1. op[t].size \in Nat /\ op[t].size <= Limit
    BY DEF Typed, Requesting, Idle
  <2> QED
    BY <2>1, MemoryAssumption
<1>3. IsFiniteSet(1..Limit)
  BY MemoryAssumption, FS_Interval
<1>4. IsFiniteSet(Page \X {Settled}) /\ IsFiniteSet((1..Limit) \X Thread)
  <2>1. IsFiniteSet({Settled})
    BY FS_Singleton
  <2> QED
    BY <1>3, <2>1, MemoryAssumption, FS_Product
<1>5. IsFiniteSet(Page \X {Settled} \cup (1..Limit) \X Thread)
  BY <1>4, FS_Union
<1>6. Promised(h) \subseteq Page \X {Settled} \cup (1..Limit) \X Thread
  BY <1>1, <1>2 DEF Promised
<1> QED
  BY <1>1, <1>2, <1>5, <1>6, MemoryAssumption, FS_Subset

\* What may only shrink: what callers own and what they were promised.
Shrinks ==
  /\ \A h \in Device : UNION mallocs'[h] \subseteq UNION mallocs[h]
  /\ \A t \in Thread : Requesting(t)' =>
       /\ Requesting(t)
       /\ op'[t].helper = op[t].helper /\ op'[t].size = op[t].size

\* A step that grants nothing and settles nothing keeps the bound.
LEMMA ShrinkKeepsBound ==
  ASSUME OvershootInv, NeedRecord, Shrinks
  PROVE  /\ \A t \in Thread : Requesting(t)' => op'[t].size <= Limit
         /\ \A h \in Device : Cardinality(Promised(h)') <= Cardinality(Thread) * Limit
<1>1. \A t \in Thread : Requesting(t)' => op'[t].size <= Limit
  BY DEF OvershootInv, Shrinks
<1>2. ASSUME NEW h \in Device
      PROVE  Cardinality(Promised(h)') <= Cardinality(Thread) * Limit
  <2>1. IsFiniteSet(Promised(h))
    BY PromisedFinite DEF OvershootInv, AccountingInv
  <2>2. \A t \in Thread : Asked(t, h)' \subseteq Asked(t, h)
    BY DEF Shrinks, Asked
  <2>3. Promised(h)' \subseteq Promised(h)
    BY <2>2 DEF Shrinks, Promised
  <2>4. Cardinality(Promised(h)') <= Cardinality(Promised(h)) /\ IsFiniteSet(Promised(h)')
    BY <2>1, <2>3, FS_Subset
  <2>5. /\ Cardinality(Promised(h)) \in Nat /\ Cardinality(Promised(h)') \in Nat
        /\ Cardinality(Thread) * Limit \in Nat
    <3>1. Cardinality(Thread) \in Nat
      BY MemoryAssumption, FS_CardinalityType
    <3> QED
      BY <2>1, <2>4, <3>1, MemoryAssumption, FS_CardinalityType
  <2>6. Cardinality(Promised(h)) <= Cardinality(Thread) * Limit
    BY DEF OvershootInv
  <2> QED
    BY <2>4, <2>5, <2>6
<1> QED
  BY <1>1, <1>2

\* Malloc checks the counter against the limit: with the request of t, what
\* the helper has settled stays below the limit, and each other thread was
\* promised no more than the limit.
LEMMA MallocKeepsBound ==
  ASSUME OvershootInv, NeedRecord, NEW t \in Thread, NEW g \in Device, NEW n \in Sizes,
         Malloc(t, g, n)
  PROVE  /\ \A u \in Thread : Requesting(u)' => op'[u].size <= Limit
         /\ \A h \in Device : Cardinality(Promised(h)') <= Cardinality(Thread) * Limit
<1>0. Typed(Int) /\ n \in Nat
  BY MemoryAssumption DEF OvershootInv, AccountingInv, Sizes
<1>1. /\ op'[t].at = "malloc" /\ op'[t].helper = g /\ op'[t].size = n
      /\ \A u \in Thread \ {t} : op'[u] = op[u]
      /\ UNCHANGED <<mallocs, curSize>>
      /\ op[t] = Idle
  BY <1>0 DEF Malloc, Begin, Typed
<1>2. curSize[g] + n <= Limit
  BY <1>0, MemoryAssumption DEF Malloc, NeedRecord, OvershootInv, AccountingInv, Typed
<1>3. curSize[g] \in Nat
  BY <1>0, RecordedBound, FS_CardinalityType
  DEF OvershootInv, AccountingInv, AccountingExact
<1>4. \A u \in Thread : Requesting(u)' => op'[u].size <= Limit
  BY <1>0, <1>1, <1>2, <1>3, MemoryAssumption DEF OvershootInv, Requesting
<1>5. ~Requesting(t)
  BY <1>1 DEF Requesting, Idle
<1>6. \A u \in Thread \ {t}, h \in Device : Asked(u, h)' = Asked(u, h)
  BY <1>1 DEF Asked, Requesting
<1>7. ASSUME NEW h \in Device, h # g
      PROVE  Cardinality(Promised(h)') <= Cardinality(Thread) * Limit
  <2>1. Asked(t, h)' = Asked(t, h)
    BY <1>1, <1>5, <1>7 DEF Asked
  <2>2. Promised(h)' = Promised(h)
    BY <1>1, <1>6, <2>1 DEF Promised
  <2> QED
    BY <2>2 DEF OvershootInv
<1>8. Cardinality(Promised(g)') <= Cardinality(Thread) * Limit
  <2> DEFINE M == (UNION mallocs[g]) \X {Settled}
             Q == (1..n) \X {t}
             R == (1..Limit) \X (Thread \ {t})
  <2>1. IsFiniteSet(M) /\ Cardinality(M) <= curSize[g]
    <3>1. M \subseteq Recorded(g)
      BY DEF Recorded, Blocks
    <3>2. IsFiniteSet(Recorded(g)) /\ Cardinality(Recorded(g)) = curSize[g]
      BY <1>0, RecordedBound DEF OvershootInv, AccountingInv, AccountingExact
    <3> QED
      BY <3>1, <3>2, FS_Subset
  <2>2. IsFiniteSet(Q) /\ Cardinality(Q) = n
    <3>1. IsFiniteSet(1..n) /\ Cardinality(1..n) = n
      BY <1>0, FS_Interval
    <3> QED
      BY <3>1, TagSize
  <2>3. IsFiniteSet(R) /\ Cardinality(R) = Limit * (Cardinality(Thread) - 1)
    <3>1. IsFiniteSet(1..Limit) /\ Cardinality(1..Limit) = Limit
      BY MemoryAssumption, FS_Interval
    <3>2. IsFiniteSet(Thread \ {t}) /\ Cardinality(Thread \ {t}) = Cardinality(Thread) - 1
      BY MemoryAssumption, FS_RemoveElement
    <3>3. /\ IsFiniteSet(R)
          /\ Cardinality(R) = Cardinality(1..Limit) * Cardinality(Thread \ {t})
      BY <3>1, <3>2, FS_Product
    <3> QED
      BY <3>1, <3>2, <3>3
  <2>4. Promised(g)' \subseteq (M \cup Q) \cup R
    <3>1. Asked(t, g)' = 1..n
      BY <1>1 DEF Asked, Requesting
    <3>2. \A u \in Thread \ {t} : Asked(u, g)' \subseteq 1..Limit
      BY <1>0, <1>6, PromisedFinite DEF OvershootInv
    <3>3. \A u \in Thread : Asked(u, g)' \X {u} \subseteq Q \cup R
      <4> TAKE u \in Thread
      <4>1. CASE u = t
        BY <3>1, <4>1
      <4>2. CASE u # t
        BY <3>2, <4>2
      <4> QED
        BY <4>1, <4>2
    <3>4. Promised(g)' = M \cup (UNION {Asked(u, g)' \X {u} : u \in Thread})
      BY <1>1 DEF Promised
    <3> HIDE DEF M, Q, R
    <3>5. (UNION {Asked(u, g)' \X {u} : u \in Thread}) \subseteq Q \cup R
      BY <3>3
    <3> QED
      BY <3>4, <3>5
  <2> HIDE DEF M, Q, R
  <2>5. IsFiniteSet(M \cup Q) /\ Cardinality(M \cup Q) <= Cardinality(M) + Cardinality(Q)
    <3>1. /\ IsFiniteSet(M \cup Q)
          /\ Cardinality(M \cup Q) = Cardinality(M) + Cardinality(Q) - Cardinality(M \cap Q)
      BY <2>1, <2>2, FS_Union
    <3>2. Cardinality(M \cap Q) \in Nat /\ Cardinality(M) \in Nat /\ Cardinality(Q) \in Nat
      BY <2>1, <2>2, FS_Intersection, FS_CardinalityType
    <3> QED
      BY <3>1, <3>2
  <2>6. /\ IsFiniteSet((M \cup Q) \cup R)
        /\ Cardinality((M \cup Q) \cup R) <= Cardinality(M \cup Q) + Cardinality(R)
    <3>1. /\ IsFiniteSet((M \cup Q) \cup R)
          /\ Cardinality((M \cup Q) \cup R)
             = Cardinality(M \cup Q) + Cardinality(R) - Cardinality((M \cup Q) \cap R)
      BY <2>3, <2>5, FS_Union
    <3>2. /\ Cardinality((M \cup Q) \cap R) \in Nat
          /\ Cardinality(M \cup Q) \in Nat /\ Cardinality(R) \in Nat
      BY <2>3, <2>5, FS_Intersection, FS_CardinalityType
    <3> QED
      BY <3>1, <3>2
  <2>7. Cardinality(Promised(g)') <= Cardinality((M \cup Q) \cup R) /\ IsFiniteSet(Promised(g)')
    BY <2>4, <2>6, FS_Subset
  <2>8. /\ Cardinality(Promised(g)') \in Nat /\ Cardinality((M \cup Q) \cup R) \in Nat
        /\ Cardinality(M \cup Q) \in Nat /\ Cardinality(M) \in Nat
        /\ Cardinality(Thread) \in Nat
    BY <2>1, <2>5, <2>6, <2>7, MemoryAssumption, FS_CardinalityType
  <2>9. Limit * (Cardinality(Thread) - 1) = Cardinality(Thread) * Limit - Limit
    BY <2>8, MemoryAssumption
  <2>10. Cardinality(Thread) * Limit \in Nat
    BY <2>8, MemoryAssumption
  <2> QED
    BY <1>0, <1>2, <1>3, <2>1, <2>2, <2>3, <2>5, <2>6, <2>7, <2>8, <2>9, <2>10, MemoryAssumption
<1> QED
  BY <1>4, <1>7, <1>8

\* fetch_add settles a promise: as many units leave it as pages are owned.
LEMMA CountMallocKeepsBound ==
  ASSUME OvershootInv, NeedRecord, NEW t \in Thread, CountMalloc(t)
  PROVE  /\ \A u \in Thread : Requesting(u)' => op'[u].size <= Limit
         /\ \A h \in Device : Cardinality(Promised(h)') <= Cardinality(Thread) * Limit
<1> DEFINE g == op[t].helper
           P == op[t].pages
           n == op[t].size
<1>0. Typed(Int) /\ BlocksDisjoint /\ OpsSized
  BY DEF OvershootInv, AccountingInv
<1>1. /\ g \in Device /\ P \subseteq Page /\ n \in Nat
      /\ op[t].at = "countMalloc"
      /\ op'[t] = Idle /\ \A u \in Thread \ {t} : op'[u] = op[u]
      /\ mallocs' = [mallocs EXCEPT ![g] = mallocs[g] \cup {P}]
      /\ mallocs \in [Device -> SUBSET (SUBSET Page)]
  BY <1>0 DEF CountMalloc, Return, Typed, Idle
<1>2. n = Cardinality(P) /\ P \cap UNION mallocs[g] = {} /\ IsFiniteSet(P)
  <2>1. n = Cardinality(P) /\ P \cap UNION Blocks(g) = {}
    BY <1>0, <1>1 DEF OpsSized, BlocksDisjoint, Allocating
  <2>2. IsFiniteSet(P)
    BY <1>1, MemoryAssumption, FS_Subset
  <2> QED
    BY <2>1, <2>2 DEF Blocks
<1>3. ~Requesting(t)' /\ Requesting(t)
  BY <1>1 DEF Requesting, Idle
<1>4. \A u \in Thread \ {t}, h \in Device : Asked(u, h)' = Asked(u, h)
  BY <1>1 DEF Asked, Requesting
<1>5. \A u \in Thread : Requesting(u)' => op'[u].size <= Limit
  BY <1>1, <1>3 DEF OvershootInv, Requesting
<1>6. ASSUME NEW h \in Device, h # g
      PROVE  Cardinality(Promised(h)') <= Cardinality(Thread) * Limit
  <2>1. Asked(t, h)' = Asked(t, h)
    BY <1>3, <1>6 DEF Asked
  <2>2. Promised(h)' = Promised(h)
    BY <1>1, <1>4, <1>6, <2>1 DEF Promised
  <2> QED
    BY <2>2 DEF OvershootInv
<1>7. ASSUME NEW h \in Device, h = g
      PROVE  Cardinality(Promised(h)') <= Cardinality(Thread) * Limit
  <2> DEFINE Rest == Promised(h) \ ((1..n) \X {t})
  <2>1. /\ Asked(t, h) = 1..n /\ Asked(t, h)' = {}
        /\ UNION mallocs'[h] = P \cup UNION mallocs[h]
    BY <1>1, <1>3, <1>7 DEF Asked
  <2>2. Removes(Promised(h), Rest, 1..n, t)
    BY <2>1 DEF Removes, Promised
  <2>3. Adds(Rest, Promised(h)', P, Settled)
    <3>1. (P \X {Settled}) \cap Rest = {}
      BY <1>2, <1>7, MemoryAssumption DEF Promised
    <3>2. Promised(h)' = ((P \cup UNION mallocs[h]) \X {Settled})
                         \cup (UNION {Asked(u, h)' \X {u} : u \in Thread})
      BY <2>1 DEF Promised
    <3>3. Rest = ((UNION mallocs[h]) \X {Settled})
                 \cup (UNION {Asked(u, h)' \X {u} : u \in Thread})
      <4>1. \A u \in Thread : Asked(u, h)' = IF u = t THEN {} ELSE Asked(u, h)
        BY <1>4, <2>1
      <4>2. UNION {Asked(u, h)' \X {u} : u \in Thread}
            = (UNION {Asked(u, h) \X {u} : u \in Thread}) \ ((1..n) \X {t})
        <5> DEFINE Before(u) == Asked(u, h) \X {u}
                   After(u) == Asked(u, h)' \X {u}
                   T == (1..n) \X {t}
        <5>1. ASSUME NEW u \in Thread PROVE After(u) = Before(u) \ T
          <6>1. CASE u = t
            BY <2>1, <4>1, <6>1
          <6>2. CASE u # t
            BY <4>1, <6>2
          <6> QED
            BY <6>1, <6>2
        <5> HIDE DEF Before, After, T
        <5>2. UNION {After(u) : u \in Thread} = (UNION {Before(u) : u \in Thread}) \ T
          BY <5>1
        <5> QED
          BY <5>2 DEF Before, After, T
      <4>3. ((UNION mallocs[h]) \X {Settled}) \cap ((1..n) \X {t}) = {}
        BY MemoryAssumption
      <4> QED
        BY <4>2, <4>3 DEF Promised
    <3> HIDE DEF Rest, P
    <3> QED
      BY <3>1, <3>2, <3>3 DEF Adds
  <2>4. IsFiniteSet(Promised(h))
    BY <1>0, PromisedFinite DEF OvershootInv
  <2> HIDE DEF Rest, P, n
  <2>5. IsFiniteSet(1..n) /\ Cardinality(1..n) = n
    <3>1. n \in Nat
      BY <1>1
    <3> QED
      BY <3>1, FS_Interval
  <2>6. IsFiniteSet(Rest) /\ Cardinality(Rest) = Cardinality(Promised(h)) - n
    BY <2>2, <2>4, <2>5, RemoveTagged
  <2>7. Cardinality(Promised(h)') = Cardinality(Rest) + n
    BY <1>2, <2>3, <2>6, AddTagged
  <2>8. Cardinality(Promised(h)) \in Nat
    BY <2>4, FS_CardinalityType
  <2>9. Cardinality(Promised(h)') = Cardinality(Promised(h))
    BY <1>1, <2>6, <2>7, <2>8
  <2> QED
    BY <2>9 DEF OvershootInv
<1> QED
  BY <1>5, <1>6, <1>7

\* Every other step grants nothing and settles nothing.
LEMMA OtherStepsShrink ==
  ASSUME Typed(Int), [Next]_vars,
         ~\E t \in Thread, h \in Device, n \in Sizes : Malloc(t, h, n),
         ~\E t \in Thread : CountMalloc(t)
  PROVE  Shrinks
<1> USE DEF Shrinks, Requesting
<1>1. ASSUME NEW t \in Thread, NEW h \in Device, NEW step, NEW n, NEW P,
             Begin(t, step, h, n, P), step \notin {"malloc", "countMalloc"},
             \A g \in Device : UNION mallocs'[g] \subseteq UNION mallocs[g]
      PROVE  Shrinks
  <2>1. op'[t].at = step /\ \A u \in Thread \ {t} : op'[u] = op[u]
    BY <1>1 DEF Begin, Typed
  <2> QED
    BY <1>1, <2>1
<1>2. ASSUME NEW t \in Thread, Return(t), UNCHANGED mallocs
      PROVE  Shrinks
  <2>1. op'[t] = Idle /\ \A u \in Thread \ {t} : op'[u] = op[u]
    BY <1>2 DEF Return, Typed
  <2> QED
    BY <1>2, <2>1 DEF Idle
<1>3. ASSUME UNCHANGED <<mallocs, op>> PROVE Shrinks
  BY <1>3
<1>4. ASSUME NEW t \in Thread, MallocSucceeds(t) PROVE Shrinks
  <2>1. PICK P \in SUBSET FreePages(device[t]) : Continue(t, "countMalloc", P)
    BY <1>4, Zenon DEF MallocSucceeds
  <2>2. op[t].at = "malloc" /\ UNCHANGED mallocs
    BY <1>4 DEF MallocSucceeds
  <2> QED
    BY <2>1, <2>2, ContinueEffect
<1>5. ASSUME NEW t \in Thread, NEW h \in Device, NEW n \in Sizes, MemCreate(t, h, n)
      PROVE  Shrinks
  <2>1. PICK P \in SUBSET FreePages(h) : Begin(t, "countHandle", h, n, P)
    BY <1>5, Zenon DEF MemCreate
  <2>2. UNCHANGED mallocs
    BY <1>5 DEF MemCreate
  <2> QED
    BY <1>1, <2>1, <2>2
<1>6. ASSUME NEW t \in Thread, NEW h \in Device, NEW P, Free(t, h, P)
      PROVE  Shrinks
  <2>1. \A g \in Device : UNION mallocs'[g] \subseteq UNION mallocs[g]
    BY <1>6 DEF Free, Typed
  <2>2. Begin(t, "uncountMalloc", h, Cardinality(P), P)
    BY <1>6 DEF Free
  <2> QED
    BY <1>1, <2>1, <2>2
<1>7. ASSUME NEW t \in Thread, NEW h \in Device, NEW P, MemRelease(t, h, P)
      PROVE  Shrinks
  BY <1>1, <1>7 DEF MemRelease
<1>8. ASSUME NEW t \in Thread, NEW h \in Device, GetMemInfo(t, h) PROVE Shrinks
  BY <1>1, <1>8 DEF GetMemInfo
<1>9. ASSUME NEW t \in Thread,
             \/ MallocFails(t) \/ CountHandle(t) \/ UncountMalloc(t)
             \/ UncountHandle(t) \/ ReportMemInfo(t)
      PROVE  Shrinks
  BY <1>2, <1>9 DEF MallocFails, CountHandle, UncountMalloc, UncountHandle, ReportMemInfo
<1>10. ASSUME NEW t \in Thread,
              \/ \E d \in Device : SetDevice(t, d)
              \/ \E h \in Device : \E P \in mallocs[h] : FreeUnloading(t, h, P)
       PROVE  Shrinks
  BY <1>3, <1>10 DEF SetDevice, FreeUnloading
<1>11. CASE DriverUnloads \/ UNCHANGED vars
  BY <1>3, <1>11 DEF DriverUnloads, vars
<1> QED
  BY <1>4, <1>5, <1>6, <1>7, <1>8, <1>9, <1>10, <1>11 DEF Next

LEMMA OvershootHolds == Spec => []OvershootInv
<1>1. Init => OvershootInv
  <2> SUFFICES ASSUME Init PROVE OvershootInv
    OBVIOUS
  <2>1. \A t \in Thread : ~Requesting(t)
    BY DEF Init, Requesting, Idle
  <2>2. ASSUME NeedRecord, NEW h \in Device
        PROVE  Cardinality(Promised(h)) <= Cardinality(Thread) * Limit
    <3>1. Promised(h) = {}
      BY <2>1 DEF Promised, Asked, Init
    <3>2. Cardinality(Promised(h)) = 0
      BY <3>1, FS_EmptySet
    <3>3. Cardinality(Thread) \in Nat
      BY MemoryAssumption, FS_CardinalityType
    <3> QED
      BY <3>2, <3>3, MemoryAssumption
  <2> QED
    BY <2>1, <2>2, InitAccounting DEF OvershootInv
<1>2. AccountingInv' /\ OvershootInv /\ [Next]_vars => OvershootInv'
  <2> SUFFICES ASSUME AccountingInv', OvershootInv, [Next]_vars, NeedRecord
               PROVE  /\ \A u \in Thread : Requesting(u)' => op'[u].size <= Limit
                      /\ \A h \in Device :
                           Cardinality(Promised(h)') <= Cardinality(Thread) * Limit
    BY DEF OvershootInv, NeedRecord
  <2>1. Typed(Int)
    BY DEF OvershootInv, AccountingInv
  <2> QED
    BY <2>1, OtherStepsShrink, ShrinkKeepsBound, MallocKeepsBound, CountMallocKeepsBound
<1> QED
  BY <1>1, <1>2, AccountingHolds, PTL DEF Spec

\* Malloc's unlocked check of the limit: however the threads interleave, the
\* memory a helper handed out is at most the limit once per thread.
THEOREM OvershootIsBounded == Spec => []OvershootBounded
<1>1. OvershootInv => OvershootBounded
  <2> SUFFICES ASSUME OvershootInv, NeedRecord, NEW h \in Device
               PROVE  Cardinality(UNION mallocs[h]) <= Cardinality(Thread) * Limit
    BY DEF OvershootBounded
  <2>1. IsFiniteSet(Promised(h)) /\ IsFiniteSet(UNION mallocs[h])
    BY PromisedFinite DEF OvershootInv, AccountingInv
  <2>2. Cardinality((UNION mallocs[h]) \X {Settled}) = Cardinality(UNION mallocs[h])
    BY <2>1, TagSize
  <2>3. (UNION mallocs[h]) \X {Settled} \subseteq Promised(h)
    BY DEF Promised
  <2>4. Cardinality((UNION mallocs[h]) \X {Settled}) <= Cardinality(Promised(h))
    BY <2>1, <2>3, FS_Subset
  <2>5. /\ Cardinality(UNION mallocs[h]) \in Nat /\ Cardinality(Promised(h)) \in Nat
        /\ Cardinality(Thread) \in Nat
    BY <2>1, MemoryAssumption, FS_CardinalityType
  <2>6. Cardinality(Thread) * Limit \in Nat
    BY <2>5, MemoryAssumption
  <2>7. Cardinality(Promised(h)) <= Cardinality(Thread) * Limit
    BY DEF OvershootInv
  <2> QED
    BY <2>2, <2>4, <2>5, <2>6, <2>7
<1> QED
  BY <1>1, OvershootHolds, PTL
-----------------------------------------------------------------------------
Asking(t) == op[t].at \in {"limit", "limitUnknown"}

\* What the driver reported as free, kept across the two steps of GetMemInfo,
\* is not more than the device has.
MemInfoInv ==
  /\ AccountingInv
  /\ \A t \in Thread : Asking(t) => op[t].size <= Capacity(op[t].helper)

LEMMA CapacityBoundsFree ==
  ASSUME NEW h \in Device
  PROVE  /\ Capacity(h) \in Nat /\ Cardinality(FreePages(h)) \in Nat
         /\ Cardinality(FreePages(h)) <= Capacity(h)
<1> DEFINE Pages == {p \in Page : PageDevice[p] = h}
<1>1. IsFiniteSet(Pages) /\ FreePages(h) \subseteq Pages
  BY MemoryAssumption, FS_Subset DEF FreePages
<1> HIDE DEF Pages
<1>2. IsFiniteSet(FreePages(h)) /\ Cardinality(FreePages(h)) <= Cardinality(Pages)
  BY <1>1, FS_Subset
<1> QED
  BY <1>1, <1>2, FS_CardinalityType DEF Capacity, Pages

LEMMA NextMemInfo ==
  ASSUME MemInfoInv, [Next]_vars
  PROVE  \A t \in Thread : Asking(t)' => op'[t].size <= Capacity(op'[t].helper)
<1> DEFINE Kept == \A t \in Thread : Asking(t)' => op'[t] = op[t]
<1> USE DEF MemInfoInv, Asking
<1>0. Typed(Int) /\ (Kept => \A t \in Thread : Asking(t)'
                                 => op'[t].size <= Capacity(op'[t].helper))
  BY DEF AccountingInv
<1>1. ASSUME NEW t \in Thread, NEW h \in Device, NEW step, NEW n, NEW P,
             Begin(t, step, h, n, P), step \notin {"limit", "limitUnknown"}
      PROVE  Kept
  BY <1>0, <1>1 DEF Begin, Typed
<1>2. ASSUME NEW t \in Thread, NEW h \in Device, GetMemInfo(t, h)
      PROVE  \A u \in Thread : Asking(u)' => op'[u].size <= Capacity(op'[u].helper)
  <2> DEFINE n == Cardinality(FreePages(h))
  <2>1. n <= Capacity(h) /\ 0 <= Capacity(h)
    BY CapacityBoundsFree
  <2> HIDE DEF n
  <2>2. Begin(t, "limit", h, n, {}) \/ Begin(t, "limitUnknown", h, 0, {})
    BY <1>2 DEF GetMemInfo, n
  <2> QED
    BY <1>0, <2>1, <2>2 DEF Begin, Typed
<1>3. ASSUME NEW t \in Thread, Return(t)
      PROVE  Kept
  BY <1>0, <1>3 DEF Return, Typed, Idle
<1>4. ASSUME NEW t \in Thread, MallocSucceeds(t) PROVE Kept
  <2>1. PICK P \in SUBSET FreePages(device[t]) : Continue(t, "countMalloc", P)
    BY <1>4, Zenon DEF MallocSucceeds
  <2>2. op[t].at = "malloc"
    BY <1>4 DEF MallocSucceeds
  <2> QED
    BY <1>0, <2>1, <2>2, ContinueEffect
<1>5. ASSUME NEW t \in Thread, NEW h \in Device, NEW n \in Sizes, MemCreate(t, h, n)
      PROVE  Kept
  <2>1. PICK P \in SUBSET FreePages(h) : Begin(t, "countHandle", h, n, P)
    BY <1>5, Zenon DEF MemCreate
  <2> QED
    BY <1>1, <2>1
<1>6. ASSUME NEW t \in Thread, NEW h \in Device,
             \/ \E n \in Sizes : Malloc(t, h, n)
             \/ \E P : Free(t, h, P) \/ MemRelease(t, h, P)
      PROVE  Kept
  BY <1>1, <1>6 DEF Malloc, Free, MemRelease
<1>7. ASSUME NEW t \in Thread,
             \/ MallocFails(t) \/ CountMalloc(t) \/ CountHandle(t) \/ UncountMalloc(t)
             \/ UncountHandle(t) \/ ReportMemInfo(t)
      PROVE  Kept
  BY <1>3, <1>7
  DEF MallocFails, CountMalloc, CountHandle, UncountMalloc, UncountHandle, ReportMemInfo
<1>8. ASSUME NEW t \in Thread,
             \/ \E d \in Device : SetDevice(t, d)
             \/ \E h \in Device : \E P \in mallocs[h] : FreeUnloading(t, h, P)
      PROVE  Kept
  BY <1>8 DEF SetDevice, FreeUnloading
<1>9. CASE DriverUnloads \/ UNCHANGED vars
  BY <1>0, <1>9 DEF DriverUnloads, vars
<1> HIDE DEF Kept
<1> QED
  BY <1>0, <1>2, <1>4, <1>5, <1>6, <1>7, <1>8, <1>9 DEF Next

\* A call of GetMemInfo ends only in ReportMemInfo.
LEMMA OnlyReportEnds ==
  ASSUME Typed(Int), [Next]_vars, NEW t \in Thread, Asking(t), op'[t] = Idle
  PROVE  ReportMemInfo(t)
<1> SUFFICES ASSUME ~ReportMemInfo(t) PROVE op'[t] # Idle
  OBVIOUS
<1>1. op[t] # Idle
  BY DEF Idle, Asking
<1>2. ASSUME NEW u \in Thread, op[u] = Idle, NEW step, NEW h, NEW n, NEW P,
             Begin(u, step, h, n, P)
      PROVE  op'[t] = op[t]
  BY <1>1, <1>2 DEF Begin, Typed
<1>3. ASSUME NEW u \in Thread, Return(u), ~Asking(u) PROVE op'[t] = op[t]
  BY <1>3 DEF Return, Typed, Asking
<1>4. ASSUME NEW u \in Thread, MallocSucceeds(u) PROVE op'[t] = op[t]
  <2>1. PICK P \in SUBSET FreePages(device[u]) : Continue(u, "countMalloc", P)
    BY <1>4, Zenon DEF MallocSucceeds
  <2>2. op[u].at = "malloc"
    BY <1>4 DEF MallocSucceeds
  <2> QED
    BY <2>1, <2>2, ContinueEffect DEF Asking
<1>5. ASSUME NEW u \in Thread, ReportMemInfo(u) PROVE op'[t] = op[t]
  BY <1>5 DEF ReportMemInfo, Return, Typed
<1>6. ASSUME NEW u \in Thread, NEW h \in Device, NEW n \in Sizes, MemCreate(u, h, n)
      PROVE  op'[t] = op[t]
  <2>1. PICK P \in SUBSET FreePages(h) : Begin(u, "countHandle", h, n, P)
    BY <1>6, Zenon DEF MemCreate
  <2>2. op[u] = Idle
    BY <1>6 DEF MemCreate
  <2> QED
    BY <1>2, <2>1, <2>2
<1>7. ASSUME NEW u \in Thread, NEW h \in Device,
             \/ \E n \in Sizes : Malloc(u, h, n)
             \/ \E P : Free(u, h, P) \/ MemRelease(u, h, P)
             \/ GetMemInfo(u, h)
      PROVE  op'[t] = op[t]
  BY <1>2, <1>7 DEF Malloc, Free, MemRelease, GetMemInfo
<1>8. ASSUME NEW u \in Thread,
             MallocFails(u) \/ CountMalloc(u) \/ CountHandle(u) \/ UncountMalloc(u) \/ UncountHandle(u)
      PROVE  op'[t] = op[t]
  BY <1>3, <1>8 DEF MallocFails, CountMalloc, CountHandle, UncountMalloc, UncountHandle, Asking
<1>9. ASSUME NEW u \in Thread,
             \/ \E d \in Device : SetDevice(u, d)
             \/ \E h \in Device : \E P \in mallocs[h] : FreeUnloading(u, h, P)
      PROVE  op'[t] = op[t]
  BY <1>9 DEF SetDevice, FreeUnloading
<1>10. CASE DriverUnloads \/ UNCHANGED vars
  BY <1>1, <1>10 DEF DriverUnloads, vars
<1> QED
  BY <1>1, <1>4, <1>5, <1>6, <1>7, <1>8, <1>9, <1>10 DEF Next

\* Pages a helper has handed out are all recorded.
LEMMA HandedOutIsRecorded ==
  ASSUME Typed(Int), NEW h \in Device
  PROVE  /\ Cardinality(UNION Blocks(h)) \in Nat
         /\ Cardinality(UNION Blocks(h)) <= Cardinality(Recorded(h))
<1> DEFINE Pages == UNION Blocks(h)
<1>1. Pages \subseteq Page
  BY DEF Typed, Blocks
<1>2. IsFiniteSet(Pages)
  BY <1>1, MemoryAssumption, FS_Subset
<1>3. Pages \X {Settled} \subseteq Recorded(h)
  BY DEF Recorded
<1>4. IsFiniteSet(Recorded(h))
  BY RecordedBound
<1> HIDE DEF Pages
<1>5. Cardinality(Pages \X {Settled}) = Cardinality(Pages)
  BY <1>2, TagSize
<1>6. Cardinality(Pages \X {Settled}) <= Cardinality(Recorded(h))
  BY <1>3, <1>4, FS_Subset
<1>7. Cardinality(Pages) \in Nat
  BY <1>2, FS_CardinalityType
<1> QED
  BY <1>5, <1>6, <1>7 DEF Pages

\* What the report says.  Below the limit the difference is exact and leaves
\* room for all that is recorded; above it the difference wraps to more than
\* the device has, and the driver's answer is the smaller one.
LEMMA ReportFits ==
  ASSUME MemInfoInv, NeedRecord, NEW t \in Thread, Asking(t), ReportMemInfo(t),
         NEW h \in Device, h = op[t].helper
  PROVE  \/ memInfo'[t].avail + Cardinality(UNION Blocks(h)) <= Limit
         \/ Cardinality(Recorded(h)) > Limit /\ memInfo'[t].avail = op[t].size
<1> DEFINE actual == op[t].size
           cur == Cardinality(Recorded(h))
           held == Cardinality(UNION Blocks(h))
<1>1. /\ actual \in Nat /\ actual <= Capacity(h)
      /\ memInfo \in [Thread -> [avail : Nat, total : Nat]]
  BY DEF MemInfoInv, AccountingInv, Typed, Idle, Asking
<1>2. Capacity(h) \in Nat /\ Cardinality(Page) \in Nat /\ Capacity(h) <= Cardinality(Page)
  <2> DEFINE Pages == {p \in Page : PageDevice[p] = h}
  <2>1. IsFiniteSet(Page) /\ Pages \subseteq Page
    BY MemoryAssumption
  <2> HIDE DEF Pages
  <2>2. IsFiniteSet(Pages) /\ Cardinality(Pages) <= Cardinality(Page)
    BY <2>1, FS_Subset
  <2> QED
    BY <2>1, <2>2, FS_CardinalityType DEF Capacity, Pages
<1>3. cur \in Nat /\ cur + Cardinality(Page) < W
  BY RecordedBound DEF MemInfoInv, AccountingInv
<1>4. held \in Nat /\ held <= cur
  BY HandedOutIsRecorded DEF MemInfoInv, AccountingInv
<1>5. curSize[h] = cur
  BY DEF MemInfoInv, AccountingInv, AccountingExact
<1>6. memInfo'[t].avail = Least(actual, Minus(Limit, curSize[h]))
  BY <1>1 DEF ReportMemInfo
<1>7. Limit \in Nat /\ W \in Nat
  BY MemoryAssumption
<1> HIDE DEF actual, cur, held
<1>8. CASE cur <= Limit
  <2>1. memInfo'[t].avail <= Limit - cur /\ memInfo'[t].avail \in Nat
    BY <1>1, <1>3, <1>5, <1>6, <1>7, <1>8 DEF Least, Minus
  <2> QED
    BY <1>3, <1>4, <1>7, <1>8, <2>1 DEF held
<1>9. CASE cur > Limit
  <2>1. Minus(Limit, cur) = Limit - cur + W
    BY <1>3, <1>7, <1>9 DEF Minus
  <2>2. actual < Limit - cur + W
    BY <1>1, <1>2, <1>3, <1>7
  <2>3. memInfo'[t].avail = actual
    BY <1>1, <1>5, <1>6, <2>1, <2>2 DEF Least
  <2> QED
    BY <1>9, <2>3 DEF cur, actual
<1> QED
  BY <1>3, <1>7, <1>8, <1>9

\* GetMemInfo: for any number of threads, and whatever the others allocate
\* between the driver's answer and the counter's, a report leaves room for all
\* that is handed out, or the limit has been overshot and plays no part in it.
THEOREM ReportsLeaveRoom == Spec => MemInfoLeavesRoom
<1>1. Init => MemInfoInv
  <2>1. Init => \A t \in Thread : ~Asking(t)
    BY DEF Init, Idle, Asking
  <2> QED
    BY <2>1, InitAccounting DEF MemInfoInv
<1>2. AccountingInv' /\ MemInfoInv /\ [Next]_vars => MemInfoInv'
  BY NextMemInfo DEF MemInfoInv
<1>3. MemInfoInv /\ [Next]_vars
      => [\A t \in Thread : \A h \in Device :
            NeedRecord /\ op[t].at \in {"limit", "limitUnknown"} /\ op'[t] = Idle /\ op[t].helper = h
            => \/ memInfo'[t].avail + Cardinality(UNION Blocks(h)) <= Limit
               \/ Cardinality(Recorded(h)) > Limit /\ memInfo'[t].avail = op[t].size]_vars
  <2>1. MemInfoInv => Typed(Int)
    BY DEF MemInfoInv, AccountingInv
  <2>2. \A t \in Thread : Asking(t) <=> op[t].at \in {"limit", "limitUnknown"}
    BY DEF Asking
  <2> QED
    BY <2>1, <2>2, OnlyReportEnds, ReportFits
<1> QED
  BY <1>1, <1>2, <1>3, AccountingHolds, PTL DEF Spec, MemInfoLeavesRoom
=============================================================================
