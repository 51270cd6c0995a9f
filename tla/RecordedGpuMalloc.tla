-------------------------- MODULE RecordedGpuMalloc --------------------------
(***************************************************************************)
(* RecordedGpuMallocHelper of runtime/musa_platform_info.cc: one helper    *)
(* per device counts in an atomic cur_size_ the bytes that the threads of  *)
(* the process obtained through it, and refuses a Malloc that would exceed *)
(* limit_size_.  Each operation is several steps: the check of the limit,  *)
(* the driver's allocation or release, and the update of the counter are   *)
(* not protected by a lock, so operations of threads interleave there.     *)
(* The driver's memory is a set of pages; a page stands for one unit of    *)
(* size, and an allocation is the set of its pages.                        *)
(***************************************************************************)
EXTENDS Integers, FiniteSets

CONSTANTS Thread,    \* threads that allocate
          Device,    \* device ordinals, one helper each
          Page,      \* units of device memory
          PageDevice, \* the device each page belongs to
          Limit,     \* FLAGS_gpu_memory_limit_mb << 20, in pages; 0 is no limit
          MaxSize,   \* bound: largest request, in pages
          W,         \* the counter's modulus, 2^64 in the code
          Settled    \* tag of counted pages, not a thread

\* 2^64 bytes are more than all the memory counted once per thread: a counter
\* never wraps, and a difference that wraps is larger than any device.
ASSUME MemoryAssumption ==
  /\ IsFiniteSet(Thread) /\ IsFiniteSet(Page)
  /\ PageDevice \in [Page -> Device]
  /\ Limit \in Nat /\ MaxSize \in Nat
  /\ W \in Nat /\ Limit < W /\ Cardinality(Page) * (Cardinality(Thread) + 2) < W
  /\ Settled \notin Thread

VARIABLES
  curSize,    \* cur_size_ of each helper
  mallocs,    \* allocations each helper returned from Malloc and not freed
  handles,    \* allocations each helper returned from MemCreate, not released
  abandoned,  \* allocations freed after the driver had shut down
  device,     \* current device of each thread
  place,      \* the device the framework last moved each thread to
  op,         \* the operation each thread is in
  memInfo,    \* what GetMemInfo last reported to each thread
  driverUp    \* FALSE once the driver answers CudartUnloading

vars == <<curSize, mallocs, handles, abandoned, device, place, op,
          memInfo, driverUp>>

Idle == [at |-> "idle"]
Steps == {"malloc", "countMalloc", "countHandle", "uncountMalloc", "uncountHandle", "limit",
          "limitUnknown"}
NoInfo == [avail |-> 0, total |-> 0]
Sizes == 1..MaxSize

\* Unsigned 64-bit subtraction.
Minus(a, b) == IF a >= b THEN a - b ELSE a - b + W

Capacity(d) == Cardinality({p \in Page : PageDevice[p] = d})

Allocating(t) == op[t].at \in {"countMalloc", "countHandle"}
Releasing(t) == op[t].at \in {"uncountMalloc", "uncountHandle"}

Blocks(h) == mallocs[h] \cup handles[h]

\* Pages the driver has handed out.
Obtained(t) == IF Allocating(t) THEN op[t].pages ELSE {}
UsedPages ==
  (UNION {UNION Blocks(h) : h \in Device}) \cup (UNION {Obtained(t) : t \in Thread})
FreePages(d) == {p \in Page \ UsedPages : PageDevice[p] = d}

Typed(Counter) ==
  /\ curSize \in [Device -> Counter]
  /\ mallocs \in [Device -> SUBSET (SUBSET Page)]
  /\ handles \in [Device -> SUBSET (SUBSET Page)]
  /\ abandoned \in [Device -> SUBSET (SUBSET Page)]
  /\ device \in [Thread -> Device]
  /\ place \in [Thread -> Device]
  /\ op \in [Thread -> {Idle} \cup [at : Steps, helper : Device, size : Nat,
                                    pages : SUBSET Page, back : Device]]
  /\ memInfo \in [Thread -> [avail : Nat, total : Nat]]
  /\ driverUp \in BOOLEAN

\* Every variable in its range; a counter that wrapped would leave 0..(W - 1)
\* upwards, since CountMalloc and CountHandle do not reduce it modulo W.
TypeOK == Typed(0..(W - 1))

Init ==
  /\ curSize = [h \in Device |-> 0]
  /\ mallocs = [h \in Device |-> {}]
  /\ handles = [h \in Device |-> {}]
  /\ abandoned = [h \in Device |-> {}]
  /\ device \in [Thread -> Device]
  /\ place = device
  /\ op = [t \in Thread |-> Idle]
  /\ memInfo = [t \in Thread |-> NoInfo]
  /\ driverUp = TRUE

NeedRecord == Limit # 0

\* Progress of a call: step to do next, helper, size and pages concerned, and
\* the device the thread was on, which a CUDADeviceGuard remembers.
Begin(t, step, h, n, pages) ==
  op' = [op EXCEPT ![t] = [at |-> step, helper |-> h, size |-> n, pages |-> pages,
                           back |-> device[t]]]
Continue(t, step, pages) == op' = [op EXCEPT ![t].at = step, ![t].pages = pages]
Return(t) == op' = [op EXCEPT ![t] = Idle]

\* Mutant of EnterGuard: no CUDADeviceGuard around the driver call.
EnterNoGuard(t, h) == UNCHANGED device

\* CUDADeviceGuard guard(dev_id_): the constructor moves the thread to the
\* helper's device, the destructor brings it back.
EnterGuard(t, h) == device' = [device EXCEPT ![t] = h]

LeaveGuard(t) == device' = [device EXCEPT ![t] = op[t].back]
-----------------------------------------------------------------------------
\* The framework moves a thread to another device between two calls.
SetDevice(t, d) ==
  /\ op[t] = Idle
  /\ device[t] # d
  /\ device' = [device EXCEPT ![t] = d]
  /\ place' = [place EXCEPT ![t] = d]
  /\ UNCHANGED <<curSize, mallocs, handles, abandoned, op, memInfo, driverUp>>

\* Mutant of Malloc: the request is compared with the limit by itself.
MallocIgnoringRecorded(t, h, n) ==
  /\ op[t] = Idle
  /\ ~(NeedRecord /\ n > Limit)
  /\ EnterGuard(t, h)
  /\ Begin(t, "malloc", h, n, {})
  /\ UNCHANGED <<curSize, mallocs, handles, abandoned, place, memInfo, driverUp>>

\* Malloc: a request above the limit is refused at once; otherwise the guard
\* is entered.  The counter is read here and updated two steps later.
Malloc(t, h, n) ==
  /\ op[t] = Idle
  /\ ~(NeedRecord /\ curSize[h] + n > Limit)
  /\ EnterGuard(t, h)
  /\ Begin(t, "malloc", h, n, {})
  /\ UNCHANGED <<curSize, mallocs, handles, abandoned, place, memInfo, driverUp>>

\* Malloc: musaMalloc on the thread's current device succeeds.
MallocSucceeds(t) ==
  /\ op[t].at = "malloc"
  /\ \E P \in SUBSET FreePages(device[t]) :
       /\ Cardinality(P) = op[t].size
       /\ Continue(t, "countMalloc", P)
  /\ UNCHANGED <<curSize, mallocs, handles, abandoned, device, place,
                 memInfo, driverUp>>

\* Mutant of MallocFails: the device is switched by hand, not by a guard, and
\* the path that throws forgets to switch back.
MallocFailsUnguarded(t) ==
  /\ op[t].at = "malloc"
  /\ Return(t)
  /\ UNCHANGED <<curSize, mallocs, handles, abandoned, device, place, memInfo, driverUp>>

\* Malloc: musaMalloc fails.  RaiseNonOutOfMemoryError makes it a return for
\* out of memory and an exception otherwise; the guard is left either way.
MallocFails(t) ==
  /\ op[t].at = "malloc"
  /\ LeaveGuard(t)
  /\ Return(t)
  /\ UNCHANGED <<curSize, mallocs, handles, abandoned, place, memInfo, driverUp>>

\* Malloc: cur_size_.fetch_add(size), and the caller owns the memory.
CountMalloc(t) ==
  LET h == op[t].helper IN
  /\ op[t].at = "countMalloc"
  /\ curSize' = [curSize EXCEPT ![h] = curSize[h] + op[t].size]
  /\ mallocs' = [mallocs EXCEPT ![h] = mallocs[h] \cup {op[t].pages}]
  /\ LeaveGuard(t)
  /\ Return(t)
  /\ UNCHANGED <<handles, abandoned, place, memInfo, driverUp>>

\* Free: musaFree succeeds; other threads can be given the pages from now on.
Free(t, h, P) ==
  /\ op[t] = Idle
  /\ driverUp
  /\ P \in mallocs[h] \ abandoned[h]
  /\ EnterGuard(t, h)
  /\ mallocs' = [mallocs EXCEPT ![h] = mallocs[h] \ {P}]
  /\ Begin(t, "uncountMalloc", h, Cardinality(P), P)
  /\ UNCHANGED <<curSize, handles, abandoned, place, memInfo, driverUp>>

\* Mutant of FreeUnloading: the counter is reduced whatever musaFree answers.
FreeUnloadingCounted(t, h, P) ==
  /\ op[t] = Idle
  /\ ~driverUp
  /\ P \in mallocs[h] \ abandoned[h]
  /\ abandoned' = [abandoned EXCEPT ![h] = abandoned[h] \cup {P}]
  /\ curSize' = [curSize EXCEPT ![h] = Minus(curSize[h], Cardinality(P))]
  /\ UNCHANGED <<mallocs, handles, device, place, op, memInfo, driverUp>>

\* Free: musaFree answers CudartUnloading while the process terminates.  The
\* error is cleared and the counter left alone.
FreeUnloading(t, h, P) ==
  /\ op[t] = Idle
  /\ ~driverUp
  /\ P \in mallocs[h] \ abandoned[h]
  /\ abandoned' = [abandoned EXCEPT ![h] = abandoned[h] \cup {P}]
  /\ UNCHANGED <<curSize, mallocs, handles, device, place, op, memInfo, driverUp>>

\* Free: cur_size_.fetch_sub(size).
UncountMalloc(t) ==
  LET h == op[t].helper IN
  /\ op[t].at = "uncountMalloc"
  /\ curSize' = [curSize EXCEPT ![h] = Minus(curSize[h], op[t].size)]
  /\ LeaveGuard(t)
  /\ Return(t)
  /\ UNCHANGED <<mallocs, handles, abandoned, place, memInfo, driverUp>>
-----------------------------------------------------------------------------
\* MemCreate: muMemCreate succeeds on the device its properties name; there
\* is no guard and no check of the limit.
MemCreate(t, h, n) ==
  /\ op[t] = Idle
  /\ driverUp
  /\ \E P \in SUBSET FreePages(h) :
       /\ Cardinality(P) = n
       /\ Begin(t, "countHandle", h, n, P)
  /\ UNCHANGED <<curSize, mallocs, handles, abandoned, device, place,
                 memInfo, driverUp>>

\* Mutant of CountHandle: handles are released from the recorded size, but
\* were never added to it.
CountHandleForgotten(t) ==
  LET h == op[t].helper IN
  /\ op[t].at = "countHandle"
  /\ handles' = [handles EXCEPT ![h] = handles[h] \cup {op[t].pages}]
  /\ Return(t)
  /\ UNCHANGED <<curSize, mallocs, abandoned, device, place, memInfo, driverUp>>

\* MemCreate: cur_size_.fetch_add(size).
CountHandle(t) ==
  LET h == op[t].helper IN
  /\ op[t].at = "countHandle"
  /\ curSize' = [curSize EXCEPT ![h] = curSize[h] + op[t].size]
  /\ handles' = [handles EXCEPT ![h] = handles[h] \cup {op[t].pages}]
  /\ Return(t)
  /\ UNCHANGED <<mallocs, abandoned, device, place, memInfo, driverUp>>

\* MemRelease: muMemRelease succeeds.
MemRelease(t, h, P) ==
  /\ op[t] = Idle
  /\ driverUp
  /\ P \in handles[h]
  /\ handles' = [handles EXCEPT ![h] = handles[h] \ {P}]
  /\ Begin(t, "uncountHandle", h, Cardinality(P), P)
  /\ UNCHANGED <<curSize, mallocs, abandoned, device, place, memInfo, driverUp>>

\* MemRelease: cur_size_.fetch_sub(size).
UncountHandle(t) ==
  LET h == op[t].helper IN
  /\ op[t].at = "uncountHandle"
  /\ curSize' = [curSize EXCEPT ![h] = Minus(curSize[h], op[t].size)]
  /\ Return(t)
  /\ UNCHANGED <<mallocs, handles, abandoned, device, place, memInfo, driverUp>>
-----------------------------------------------------------------------------
Least(a, b) == IF a < b THEN a ELSE b

\* GetMemInfo: the driver is asked under a guard of its own block; the pages
\* it counts as free may be taken before the limit is applied.  When it is
\* out of memory itself, *actual_avail is zeroed and *actual_total not set.
GetMemInfo(t, h) ==
  /\ op[t] = Idle
  /\ \/ Begin(t, "limit", h, Cardinality(FreePages(h)), {})
     \/ Begin(t, "limitUnknown", h, 0, {})
  /\ UNCHANGED <<curSize, mallocs, handles, abandoned, device, place, memInfo, driverUp>>

\* Mutant of ReportMemInfo: what is already recorded is left out.
ReportMemInfoOfLimit(t) ==
  LET h == op[t].helper
      actual == op[t].size
  IN  /\ op[t].at \in {"limit", "limitUnknown"}
      /\ memInfo' = [memInfo EXCEPT ![t] = [avail |-> Least(actual, Limit),
                                            total |-> Least(Capacity(h), Limit)]]
      /\ Return(t)
      /\ UNCHANGED <<curSize, mallocs, handles, abandoned, device, place, driverUp>>

\* GetMemInfo: *avail and *total from the driver's numbers, the limit and the
\* counter of this moment.  limit_size_ - cur_size_ is unsigned, and an
\* actual_total that was not set is whatever the caller's variable held.
ReportMemInfo(t) ==
  LET h == op[t].helper
      actual == op[t].size
  IN  /\ op[t].at \in {"limit", "limitUnknown"}
      /\ \E actualTotal \in IF op[t].at = "limit" THEN {Capacity(h)} ELSE 0..(W - 1) :
           memInfo' = [memInfo EXCEPT ![t] =
             IF NeedRecord
             THEN [avail |-> Least(actual, Minus(Limit, curSize[h])),
                   total |-> Least(actualTotal, Limit)]
             ELSE [avail |-> actual, total |-> actualTotal]]
      /\ Return(t)
      /\ UNCHANGED <<curSize, mallocs, handles, abandoned, device, place, driverUp>>

\* The driver shuts down at process exit.
DriverUnloads ==
  /\ driverUp
  /\ driverUp' = FALSE
  /\ UNCHANGED <<curSize, mallocs, handles, abandoned, device, place, op, memInfo>>
-----------------------------------------------------------------------------
Next ==
  \/ \E t \in Thread :
       \/ \E d \in Device : SetDevice(t, d)
       \/ \E h \in Device, n \in Sizes : Malloc(t, h, n) \/ MemCreate(t, h, n)
       \/ MallocFails(t) \/ MallocSucceeds(t) \/ CountMalloc(t) \/ CountHandle(t)
       \/ \E h \in Device : \E P \in mallocs[h] : Free(t, h, P) \/ FreeUnloading(t, h, P)
       \/ \E h \in Device : \E P \in handles[h] : MemRelease(t, h, P)
       \/ UncountMalloc(t) \/ UncountHandle(t)
       \/ \E h \in Device : GetMemInfo(t, h)
       \/ ReportMemInfo(t)
  \/ DriverUnloads

Spec == Init /\ [][Next]_vars
-----------------------------------------------------------------------------
\* What cur_size_ of a helper stands for: the pages of its live allocations
\* and the pages threads have returned to the driver but not yet subtracted.
\* The latter carry their thread: they may already be allocated again.
Returned(t, h) ==
  IF Releasing(t) /\ op[t].helper = h THEN op[t].pages ELSE {}
Recorded(h) ==
  (UNION Blocks(h)) \X {Settled}
  \cup (UNION {Returned(t, h) \X {t} : t \in Thread})

\* Whatever the interleaving of Malloc, Free, MemCreate and MemRelease, the
\* counter equals the size of the helper's allocations plus what is still to
\* be subtracted: it never drifts, and fetch_sub never takes it below zero.
AccountingExact == \A h \in Device : curSize[h] = Cardinality(Recorded(h))

\* No two allocations share memory, and a page being returned to the counter
\* belongs to the allocation that was freed: sizes add up.
BlocksDisjoint ==
  /\ \A h, g \in Device : \A P \in Blocks(h), Q \in Blocks(g) :
       P \cap Q # {} => P = Q /\ h = g
  /\ \A h \in Device : mallocs[h] \cap handles[h] = {}
  /\ \A t \in Thread : Allocating(t) =>
       /\ \A h \in Device : op[t].pages \cap UNION Blocks(h) = {}
       /\ \A u \in Thread \ {t} : Allocating(u) => op[t].pages \cap op[u].pages = {}

\* Memory a helper hands out lies on the helper's device, on whatever device
\* the calling thread was before.
BlocksOnDevice ==
  \A h \in Device : \A p \in UNION Blocks(h) : PageDevice[p] = h

\* Malloc checks the counter without a lock, so the limit is no bound on what
\* it hands out; but threads can overshoot it only together: the check of the
\* latest one missed at most one request of each other thread.
OvershootBounded ==
  NeedRecord => \A h \in Device :
    Cardinality(UNION mallocs[h]) <= Cardinality(Thread) * Limit

\* Between calls a thread is on the device the framework put it on: every
\* way out of an operation, an exception included, undoes its device guard.
DeviceRestored == \A t \in Thread : op[t] = Idle => device[t] = place[t]

\* GetMemInfo reads the counter after the driver's answer and outside every
\* lock.  What it reports as available still leaves room, under the limit, for
\* everything the helper has handed out, to whatever thread.  The exception is
\* an overshoot: with more recorded than the limit the difference wraps, and
\* the report is what the driver said, as if there were no limit.
MemInfoLeavesRoom ==
  [][\A t \in Thread : \A h \in Device :
       NeedRecord /\ op[t].at \in {"limit", "limitUnknown"} /\ op'[t] = Idle /\ op[t].helper = h
       => \/ memInfo'[t].avail + Cardinality(UNION Blocks(h)) <= Limit
          \/ Cardinality(Recorded(h)) > Limit /\ memInfo'[t].avail = op[t].size]_vars
=============================================================================
