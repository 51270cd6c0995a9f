--------------------------- MODULE MudnnHandlePool ---------------------------
(***************************************************************************)
(* The MuDNN handle pool of kernels/kernels_utils.h: one process-wide      *)
(* DeviceThreadHandlePool owned by a function-local static shared_ptr, one *)
(* thread_local PoolWindow per thread that caches a handle per device and  *)
(* reaches the pool only through a weak_ptr.  A window takes handles from  *)
(* the pool under the pool's mutex (reserve) and gives all of them back    *)
(* when its thread ends (release).  The program may end at any time: the   *)
(* static reference is dropped while other threads are still inside the    *)
(* pool, and the pool dies with its last strong reference.                 *)
(***************************************************************************)
EXTENDS Naturals, Sequences, FiniteSets

CONSTANTS Thread,            \* threads that launch kernels
          Device,            \* device ordinals
          Handle,            \* identities of ::musa::dnn::Handle objects
          Stream,            \* streams of the device contexts
          NoThread, NoHandle, NoStream,
          Absent, Free,      \* states of an unleased handle in HandleLease
          MaxCreateFailures  \* bound: failing constructors of ::musa::dnn::Handle

ASSUME PoolAssumption ==
  /\ IsFiniteSet(Thread)
  /\ NoThread \notin Thread
  /\ NoHandle \notin Handle
  /\ NoStream \notin Stream
  /\ Absent \notin Thread \cup Device /\ Free \notin Thread /\ Absent # Free
  /\ MaxCreateFailures \in Nat

VARIABLES
  poolRef,     \* the static shared_ptr still refers to the pool
  strong,      \* threads whose weak_parent_.lock() result is alive
  mutex,       \* the thread inside parent->mutex, or NoThread
  created,     \* created_handles, per device
  available,   \* available_handles, per device, back() last
  destroyed,   \* handles whose object was deleted
  window,      \* internal_handles_ of each thread's PoolWindow
  device,      \* current device of each thread (musaGetDevice)
  wanted,      \* dev_ctx.stream() of the call in progress
  stream,      \* the stream each handle was last bound to
  failures,    \* constructors that failed so far
  pc           \* where each thread is

vars == <<poolRef, strong, mutex, created, available, destroyed, window,
          device, wanted, stream, failures, pc>>

\* noWindow: the thread_local window does not exist yet
\* idle: between two calls           lookup, lock, reserve, pop: inside reserve()
\* reserved: guard released, parent still held    bind: back in GetMudnnHandle
\* running: the kernel uses the handle
\* exitLookup, exitLock, exitReturn, exitDrop: inside release()    done: ended
Location == {"noWindow", "idle", "lookup", "lock", "reserve", "pop", "reserved", "thrown",
             "bind", "running", "exitLookup", "exitLock", "exitReturn", "exitDrop", "done"}

EmptyWindow == [d \in Device |-> NoHandle]

TypeOK ==
  /\ poolRef \in BOOLEAN
  /\ strong \subseteq Thread
  /\ mutex \in Thread \cup {NoThread}
  /\ created \in [Device -> SUBSET Handle]
  /\ available \in [Device -> Seq(Handle)]
  /\ destroyed \subseteq Handle
  /\ window \in [Thread -> [Device -> Handle \cup {NoHandle}]]
  /\ device \in [Thread -> Device]
  /\ wanted \in [Thread -> Stream \cup {NoStream}]
  /\ stream \in [Handle -> Stream \cup {NoStream}]
  /\ failures \in 0..MaxCreateFailures
  /\ pc \in [Thread -> Location]

Init ==
  /\ poolRef = TRUE
  /\ strong = {}
  /\ mutex = NoThread
  /\ created = [d \in Device |-> {}]
  /\ available = [d \in Device |-> <<>>]
  /\ destroyed = {}
  /\ window = [t \in Thread |-> EmptyWindow]
  /\ device \in [Thread -> Device]
  /\ wanted = [t \in Thread |-> NoStream]
  /\ stream = [h \in Handle |-> NoStream]
  /\ failures = 0
  /\ pc = [t \in Thread |-> "noWindow"]

Goto(t, location) == pc' = [pc EXCEPT ![t] = location]

\* weak_ptr::lock() succeeds while any strong reference is left.
PoolAlive == poolRef \/ strong # {}

\* Mutant of DestroyMuDNNHandle: the object is deleted with the pool.
DeleteMuDNNHandle(handles) == handles

\* DestroyMuDNNHandle has an empty body: no object is deleted.
DestroyMuDNNHandle(handles) == {}

\* What is left of the pool's tables once ref and threads are its only
\* strong references: with none left, ~DeviceThreadHandlePool clears them.
Survives(ref, threads) == ref \/ threads # {}

Outlives(ref, threads) ==
  IF Survives(ref, threads)
  THEN UNCHANGED <<created, available, destroyed>>
  ELSE /\ created' = [d \in Device |-> {}]
       /\ available' = [d \in Device |-> <<>>]
       /\ destroyed' = destroyed \cup DestroyMuDNNHandle(UNION {created[d] : d \in Device})
-----------------------------------------------------------------------------
\* First use in a thread: the thread_local window is made from the static pool.
NewPoolWindow(t) ==
  /\ pc[t] = "noWindow"
  /\ poolRef
  /\ Goto(t, "idle")
  /\ UNCHANGED <<poolRef, strong, mutex, created, available, destroyed, window,
                 device, wanted, stream, failures>>

\* The framework moves an idle thread to another device.
SetDevice(t, d) ==
  /\ pc[t] = "idle"
  /\ device[t] # d
  /\ device' = [device EXCEPT ![t] = d]
  /\ UNCHANGED <<poolRef, strong, mutex, created, available, destroyed, window,
                 wanted, stream, failures, pc>>

\* GetMudnnHandle up to the lookup in internal_handles_.
GetMudnnHandle(t, s) ==
  /\ pc[t] = "idle"
  /\ wanted' = [wanted EXCEPT ![t] = s]
  /\ Goto(t, IF window[t][device[t]] # NoHandle THEN "bind" ELSE "lookup")
  /\ UNCHANGED <<poolRef, strong, mutex, created, available, destroyed, window,
                 device, stream, failures>>

\* Mutant of LockParent: the pool is reached without a look at whether the
\* weak pointer still leads to it.
LockParentUnchecked(t) ==
  /\ pc[t] = "lookup"
  /\ strong' = strong \cup {t}
  /\ Goto(t, "lock")
  /\ UNCHANGED <<poolRef, mutex, created, available, destroyed, window,
                 device, wanted, stream, failures>>

\* reserve(): auto parent = weak_parent_.lock(); no parent raises Fatal.
LockParent(t) ==
  /\ pc[t] = "lookup"
  /\ IF PoolAlive
     THEN strong' = strong \cup {t} /\ Goto(t, "lock") /\ UNCHANGED wanted
     ELSE wanted' = [wanted EXCEPT ![t] = NoStream] /\ Goto(t, "idle") /\ UNCHANGED strong
  /\ UNCHANGED <<poolRef, mutex, created, available, destroyed, window,
                 device, stream, failures>>

\* Mutant of LockMutex: the guard is commented out, as in RecordedGpuMalloc.
LockNothing(t) ==
  /\ pc[t] \in {"lock", "exitLock"}
  /\ mutex' = t
  /\ Goto(t, IF pc[t] = "lock" THEN "reserve" ELSE "exitReturn")
  /\ UNCHANGED <<poolRef, strong, created, available, destroyed, window,
                 device, wanted, stream, failures>>

\* std::lock_guard on parent->mutex, in reserve() and in release().
LockMutex(t) ==
  /\ pc[t] \in {"lock", "exitLock"}
  /\ mutex = NoThread
  /\ mutex' = t
  /\ Goto(t, IF pc[t] = "lock" THEN "reserve" ELSE "exitReturn")
  /\ UNCHANGED <<poolRef, strong, created, available, destroyed, window,
                 device, wanted, stream, failures>>

\* reserve(): the most recently returned handle of the device is taken ...
TakeAvailable(t) ==
  LET d == device[t]
  IN  /\ pc[t] = "reserve"
      /\ available[d] # <<>>
      /\ window' = [window EXCEPT ![t][d] = available[d][Len(available[d])]]
      /\ Goto(t, "pop")
      /\ UNCHANGED <<poolRef, strong, mutex, created, available, destroyed, device,
                     wanted, stream, failures>>

\* ... and then removed from the list, which ends the critical section.
PopAvailable(t) ==
  LET d == device[t]
  IN  /\ pc[t] = "pop"
      /\ available' = [available EXCEPT ![d] = SubSeq(@, 1, Len(@) - 1)]
      /\ mutex' = NoThread
      /\ Goto(t, "reserved")
      /\ UNCHANGED <<poolRef, strong, created, destroyed, window, device, wanted,
                     stream, failures>>

\* Mutant of CreateHandle: available_handles is not consulted.
CreateHandleAlways(t, h) ==
  LET d == device[t]
  IN  /\ pc[t] = "reserve"
      /\ \A e \in Device : h \notin created[e]
      /\ created' = [created EXCEPT ![d] = @ \cup {h}]
      /\ window' = [window EXCEPT ![t][d] = h]
      /\ mutex' = NoThread
      /\ Goto(t, "reserved")
      /\ UNCHANGED <<poolRef, strong, available, destroyed, device, wanted, stream, failures>>

\* reserve(): none is available, so CreateMuDNNHandle makes one on the
\* thread's current device and created_handles records it.
CreateHandle(t, h) ==
  LET d == device[t]
  IN  /\ pc[t] = "reserve"
      /\ available[d] = <<>>
      /\ \A e \in Device : h \notin created[e]
      /\ created' = [created EXCEPT ![d] = @ \cup {h}]
      /\ window' = [window EXCEPT ![t][d] = h]
      /\ mutex' = NoThread
      /\ Goto(t, "reserved")
      /\ UNCHANGED <<poolRef, strong, available, destroyed, device, wanted, stream, failures>>

\* CreateMuDNNHandle throws inside emplace_back: nothing was recorded, the
\* guard and then the parent are released while the stack unwinds.
CreateFails(t) ==
  /\ pc[t] = "reserve"
  /\ available[device[t]] = <<>>
  /\ failures < MaxCreateFailures
  /\ failures' = failures + 1
  /\ mutex' = NoThread
  /\ Goto(t, "thrown")
  /\ UNCHANGED <<poolRef, strong, created, available, destroyed, window, device, wanted, stream>>

\* Mutant of DropParent: the reference is not dropped while unwinding.
DropParentUnlessThrown(t) ==
  /\ pc[t] \in {"reserved", "thrown", "exitDrop"}
  /\ strong' = IF pc[t] = "thrown" THEN strong ELSE strong \ {t}
  /\ Outlives(poolRef, strong')
  /\ Goto(t, CASE pc[t] = "reserved" -> "bind"
               [] pc[t] = "thrown" -> "idle"
               [] pc[t] = "exitDrop" -> "done")
  /\ wanted' = [wanted EXCEPT ![t] = IF pc[t] = "thrown" THEN NoStream ELSE wanted[t]]
  /\ UNCHANGED <<poolRef, mutex, window, device, stream, failures>>

\* The local shared_ptr parent goes out of scope after the guard did; the
\* last one out destroys a pool the program has already let go of.
DropParent(t) ==
  /\ pc[t] \in {"reserved", "thrown", "exitDrop"}
  /\ strong' = strong \ {t}
  /\ Outlives(poolRef, strong')
  /\ Goto(t, CASE pc[t] = "reserved" -> "bind"
               [] pc[t] = "thrown" -> "idle"
               [] pc[t] = "exitDrop" -> "done")
  /\ wanted' = [wanted EXCEPT ![t] = IF pc[t] = "thrown" THEN NoStream ELSE wanted[t]]
  /\ UNCHANGED <<poolRef, mutex, window, device, stream, failures>>

\* handle->SetStream(dev_ctx.stream()), on every call, cached handle or not.
SetStream(t) ==
  /\ pc[t] = "bind"
  /\ stream' = [stream EXCEPT ![window[t][device[t]]] = wanted[t]]
  /\ Goto(t, "running")
  /\ UNCHANGED <<poolRef, strong, mutex, created, available, destroyed, window,
                 device, wanted, failures>>

\* The kernel that asked for the handle returns.
KernelReturns(t) ==
  /\ pc[t] = "running"
  /\ wanted' = [wanted EXCEPT ![t] = NoStream]
  /\ Goto(t, "idle")
  /\ UNCHANGED <<poolRef, strong, mutex, created, available, destroyed, window,
                 device, stream, failures>>
-----------------------------------------------------------------------------
\* The thread ends: ~PoolWindow calls release(), which has nothing to do when
\* the window holds no handle.
ThreadExit(t) ==
  /\ pc[t] = "idle"
  /\ Goto(t, IF window[t] = EmptyWindow THEN "done" ELSE "exitLookup")
  /\ UNCHANGED <<poolRef, strong, mutex, created, available, destroyed, window,
                 device, wanted, stream, failures>>

\* release(): a pool that is gone gets nothing back; the window dies anyway.
ReleaseLockParent(t) ==
  /\ pc[t] = "exitLookup"
  /\ IF PoolAlive
     THEN strong' = strong \cup {t} /\ Goto(t, "exitLock") /\ UNCHANGED window
     ELSE window' = [window EXCEPT ![t] = EmptyWindow] /\ Goto(t, "done") /\ UNCHANGED strong
  /\ UNCHANGED <<poolRef, mutex, created, available, destroyed,
                 device, wanted, stream, failures>>

\* Mutant of Release: a list is extended for a device the window never used.
ReleaseUnused(t, d) ==
  /\ pc[t] = "exitReturn"
  /\ available' = [available EXCEPT ![d] = Append(@, window[t][d])]
  /\ window' = [window EXCEPT ![t][d] = NoHandle]
  /\ UNCHANGED <<poolRef, strong, mutex, created, destroyed, device, wanted, stream,
                 failures, pc>>

\* release(): the handles of the window are pushed back to their devices'
\* lists one by one, in the order of an unordered_map.
Release(t, d) ==
  /\ pc[t] = "exitReturn"
  /\ window[t][d] # NoHandle
  /\ available' = [available EXCEPT ![d] = Append(@, window[t][d])]
  /\ window' = [window EXCEPT ![t][d] = NoHandle]
  /\ UNCHANGED <<poolRef, strong, mutex, created, destroyed, device, wanted, stream,
                 failures, pc>>

\* Mutant of ReleaseDone: the window of a thread is destroyed with handles in
\* it for devices other than the current one.
ReleaseDoneEarly(t) ==
  /\ pc[t] = "exitReturn"
  /\ window[t][device[t]] = NoHandle
  /\ window' = [window EXCEPT ![t] = EmptyWindow]
  /\ mutex' = NoThread
  /\ Goto(t, "exitDrop")
  /\ UNCHANGED <<poolRef, strong, created, available, destroyed, device, wanted, stream,
                 failures>>

\* release(): after the last one the guard goes out of scope.
ReleaseDone(t) ==
  /\ pc[t] = "exitReturn"
  /\ window[t] = EmptyWindow
  /\ mutex' = NoThread
  /\ Goto(t, "exitDrop")
  /\ UNCHANGED <<poolRef, strong, created, available, destroyed, window, device, wanted,
                 stream, failures>>

\* A later thread takes the place of one that ended.
NewThread(t) ==
  /\ pc[t] = "done"
  /\ poolRef
  /\ Goto(t, "noWindow")
  /\ UNCHANGED <<poolRef, strong, mutex, created, available, destroyed, window,
                 device, wanted, stream, failures>>

\* Static destruction drops the pool's own reference while threads still run.
ProgramExit ==
  /\ poolRef
  /\ poolRef' = FALSE
  /\ Outlives(FALSE, strong)
  /\ UNCHANGED <<strong, mutex, window, device, wanted, stream, failures, pc>>
-----------------------------------------------------------------------------
\* The steps that end a call or a thread once it has begun.
Work(t) ==
  \/ LockParent(t) \/ LockMutex(t) \/ TakeAvailable(t) \/ PopAvailable(t)
  \/ \E h \in Handle : CreateHandle(t, h)
  \/ CreateFails(t) \/ DropParent(t) \/ SetStream(t) \/ KernelReturns(t)
  \/ ReleaseLockParent(t) \/ (\E d \in Device : Release(t, d)) \/ ReleaseDone(t)

Next ==
  \/ \E t \in Thread :
       \/ NewPoolWindow(t) \/ ThreadExit(t) \/ NewThread(t)
       \/ \E d \in Device : SetDevice(t, d)
       \/ \E s \in Stream : GetMudnnHandle(t, s)
       \/ Work(t)
  \/ ProgramExit

Spec == Init /\ [][Next]_vars

\* A thread inside a call keeps running; nothing makes it start one.
FairSpec == Spec /\ \A t \in Thread : WF_vars(Work(t))
-----------------------------------------------------------------------------
Held(d) == {window[t][d] : t \in Thread} \ {NoHandle}
Idle(d) == {available[d][i] : i \in 1..Len(available[d])}

\* The handle a running kernel refers to.
InUse(t) == window[t][device[t]]

\* No handle is cached by two threads, twice in the pool, or cached by a
\* thread and available in the pool, but for the one a thread is just taking:
\* GetMudnnHandle never hands the same ::musa::dnn::Handle to two kernels
\* that run at the same time.
ExclusiveLease ==
  /\ \A t, u \in Thread, d, e \in Device :
       window[t][d] # NoHandle /\ window[t][d] = window[u][e] => t = u /\ d = e
  /\ \A t \in Thread, d, e \in Device : \A i \in 1..Len(available[e]) :
       window[t][d] = available[e][i] =>
         pc[t] = "pop" /\ d = e /\ d = device[t] /\ i = Len(available[d])
  /\ \A d, e \in Device : \A i \in 1..Len(available[d]), j \in 1..Len(available[e]) :
       available[d][i] = available[e][j] => d = e /\ i = j

\* While the pool lives, every handle it ever created for a device is either
\* cached by a thread or available for that device: none is lost when threads
\* end or constructors throw, and none moves to another device.
NoHandleLost ==
  Survives(poolRef, strong) => \A d \in Device : created[d] = Held(d) \cup Idle(d)

\* Threads that come and go reuse handles: a device never has more of them
\* than threads ever ran at the same time.
HandlesBounded == \A d \in Device : Cardinality(created[d]) <= Cardinality(Thread)

\* A kernel runs on its own handle, bound to the stream of the context it was
\* given, on an object that the end of the program has not deleted under it.
KernelOwnsHandle ==
  \A t \in Thread : pc[t] = "running" =>
    /\ InUse(t) # NoHandle
    /\ stream[InUse(t)] = wanted[t]
    /\ InUse(t) \notin destroyed

\* Once static destruction has begun the pool is torn down: the weak pointers
\* of the windows keep no thread able to prolong its life for ever.
PoolTornDown == ~poolRef ~> ~PoolAlive
-----------------------------------------------------------------------------
\* The lease a handle stands for: the thread and device whose window caches
\* it, or the device that lists it as available.
LeasedTo(h, t, d) == window[t][d] = h
LeaseOwner == [h \in Handle |->
  IF \E t \in Thread, d \in Device : LeasedTo(h, t, d)
  THEN CHOOSE t \in Thread : \E d \in Device : LeasedTo(h, t, d)
  ELSE IF \E d \in Device : h \in Idle(d) THEN Free ELSE Absent]
LeaseHome == [h \in Handle |->
  IF \E d \in Device : h \in Held(d) \cup Idle(d)
  THEN CHOOSE d \in Device : h \in Held(d) \cup Idle(d)
  ELSE Absent]

Lease == INSTANCE HandleLease
           WITH owner <- LeaseOwner, home <- LeaseHome, open <- PoolAlive

\* Weak pointers, windows and the mutex together implement HandleLease: the
\* steps of reserve() and release() grant and return whole leases, and a
\* thread that outlives the pool neither gets a handle nor returns one.
ImplementsLease == Lease!LeaseSpec
=============================================================================
