------------------------ MODULE MudnnHandlePoolProofs ------------------------
(***************************************************************************)
(* Proofs about MudnnHandlePool, for any number of threads, devices,       *)
(* handles and streams: typing, the exclusive lease, that no handle is     *)
(* lost while the pool lives, and that the pool implements HandleLease.    *)
(***************************************************************************)
EXTENDS MudnnHandlePool, TLAPS, FiniteSetTheorems

\* Who is where: the mutex and the strong references follow the program
\* counters, and a window caches a handle of the current device exactly from
\* the moment reserve() got one.
Locking ==
  /\ \A t \in Thread : mutex = t <=> pc[t] \in {"reserve", "pop", "exitReturn"}
  /\ \A t \in Thread : t \in strong <=>
       pc[t] \in {"lock", "reserve", "pop", "reserved", "thrown",
                 "exitLock", "exitReturn", "exitDrop"}

Windows ==
  \A t \in Thread :
    /\ pc[t] \in {"lookup", "lock", "reserve"} => window[t][device[t]] = NoHandle
    /\ pc[t] \in {"pop", "reserved", "bind", "running"} => window[t][device[t]] # NoHandle
    /\ pc[t] \in {"noWindow", "exitDrop", "done"} => window[t] = EmptyWindow
    /\ pc[t] = "pop" => /\ available[device[t]] # <<>>
                        /\ window[t][device[t]] = available[device[t]][Len(available[device[t]])]

\* The inductive invariant.  ExclusiveLease alone is not inductive: a new
\* handle is new because every existing one is in the tables, and the mutex
\* keeps a second thread from the handle a first one is about to remove.
PoolInv ==
  /\ TypeOK
  /\ Locking
  /\ Windows
  /\ ExclusiveLease
  /\ NoHandleLost
  /\ destroyed = {}
-----------------------------------------------------------------------------
\* Init establishes the type invariant.
LEMMA InitTypeOK == Init => TypeOK
  BY PoolAssumption DEF Init, TypeOK, EmptyWindow, Location

\* Dropping strong references leaves the tables of the pool well typed.
LEMMA OutlivesType ==
  ASSUME TypeOK, NEW ref \in BOOLEAN, NEW threads, Outlives(ref, threads)
  PROVE  /\ created' \in [Device -> SUBSET Handle]
         /\ available' \in [Device -> Seq(Handle)]
         /\ destroyed' \subseteq Handle
<1>1. CASE Survives(ref, threads)
  <2>1. UNCHANGED <<created, available, destroyed>>
    BY <1>1 DEF Outlives
  <2> QED
    BY <2>1 DEF TypeOK
<1>2. CASE ~Survives(ref, threads)
  <2>1. /\ created' = [d \in Device |-> {}]
        /\ available' = [d \in Device |-> <<>>]
        /\ destroyed' = destroyed
    BY <1>2 DEF Outlives, DestroyMuDNNHandle
  <2>2. <<>> \in Seq(Handle)
    OBVIOUS
  <2> QED
    BY <2>1, <2>2 DEF TypeOK
<1> QED
  BY <1>1, <1>2

\* A call step or an end-of-thread step of t preserves the type invariant.
LEMMA WorkTypeOK ==
  ASSUME TypeOK, NEW t \in Thread, Work(t)
  PROVE  TypeOK'
<1> USE PoolAssumption DEF Goto, Location
<1>1. CASE LockParent(t)
  BY <1>1 DEF TypeOK, LockParent
<1>2. CASE LockMutex(t)
  BY <1>2 DEF TypeOK, LockMutex
<1>3. CASE TakeAvailable(t)
  <2> DEFINE s == available[device[t]]
  <2>1. s \in Seq(Handle) /\ s # <<>>
    BY <1>3 DEF TypeOK, TakeAvailable
  <2>2. s[Len(s)] \in Handle
    BY <2>1
  <2>3. window' \in [Thread -> [Device -> Handle \cup {NoHandle}]]
    BY <1>3, <2>2 DEF TypeOK, TakeAvailable
  <2> QED
    BY <1>3, <2>3 DEF TypeOK, TakeAvailable
<1>11. CASE PopAvailable(t)
  <2> DEFINE s == available[device[t]]
  <2>1. s \in Seq(Handle)
    BY DEF TypeOK
  <2>2. SubSeq(s, 1, Len(s) - 1) \in Seq(Handle)
    BY <2>1
  <2>3. available' \in [Device -> Seq(Handle)]
    BY <1>11, <2>2 DEF TypeOK, PopAvailable
  <2> QED
    BY <1>11, <2>3 DEF TypeOK, PopAvailable
<1>4. ASSUME NEW h \in Handle, CreateHandle(t, h) PROVE TypeOK'
  BY <1>4 DEF TypeOK, CreateHandle
<1>5. CASE CreateFails(t)
  BY <1>5 DEF TypeOK, CreateFails
<1>6. CASE DropParent(t)
  BY <1>6, OutlivesType DEF TypeOK, DropParent
<1>7. CASE SetStream(t)
  BY <1>7 DEF TypeOK, SetStream
<1>8. CASE KernelReturns(t)
  BY <1>8 DEF TypeOK, KernelReturns
<1>9. CASE ReleaseLockParent(t)
  <2>1. /\ strong' \subseteq Thread
        /\ window' \in [Thread -> [Device -> Handle \cup {NoHandle}]]
        /\ pc' \in [Thread -> Location]
    <3>1. CASE PoolAlive
      BY <1>9, <3>1 DEF TypeOK, ReleaseLockParent
    <3>2. CASE ~PoolAlive
      <4>1. /\ UNCHANGED strong
            /\ window' = [window EXCEPT ![t] = EmptyWindow]
            /\ pc' = [pc EXCEPT ![t] = "done"]
        BY <1>9, <3>2 DEF ReleaseLockParent
      <4>2. EmptyWindow \in [Device -> Handle \cup {NoHandle}]
        BY DEF EmptyWindow
      <4> QED
        BY <4>1, <4>2 DEF TypeOK
    <3> QED
      BY <3>1, <3>2
  <2> QED
    BY <1>9, <2>1 DEF TypeOK, ReleaseLockParent
<1>10. ASSUME NEW d \in Device, Release(t, d) PROVE TypeOK'
  <2>1. Append(available[d], window[t][d]) \in Seq(Handle)
    BY <1>10 DEF TypeOK, Release
  <2>2. available' \in [Device -> Seq(Handle)]
    BY <1>10, <2>1 DEF TypeOK, Release
  <2> QED
    BY <1>10, <2>2 DEF TypeOK, Release
<1>12. CASE ReleaseDone(t)
  BY <1>12 DEF TypeOK, ReleaseDone
<1> QED
  BY <1>1, <1>2, <1>3, <1>4, <1>5, <1>6, <1>7, <1>8, <1>9, <1>10, <1>11, <1>12 DEF Work

\* Every step preserves the type invariant.
LEMMA NextTypeOK == TypeOK /\ [Next]_vars => TypeOK'
<1> SUFFICES ASSUME TypeOK, [Next]_vars PROVE TypeOK'
  OBVIOUS
<1> USE PoolAssumption DEF Goto, Location
<1>1. ASSUME NEW t \in Thread, NewPoolWindow(t) PROVE TypeOK'
  BY <1>1 DEF TypeOK, NewPoolWindow
<1>2. ASSUME NEW t \in Thread, ThreadExit(t) PROVE TypeOK'
  BY <1>2 DEF TypeOK, ThreadExit
<1>3. ASSUME NEW t \in Thread, NewThread(t) PROVE TypeOK'
  BY <1>3 DEF TypeOK, NewThread
<1>4. ASSUME NEW t \in Thread, NEW d \in Device, SetDevice(t, d) PROVE TypeOK'
  BY <1>4 DEF TypeOK, SetDevice
<1>5. ASSUME NEW t \in Thread, NEW s \in Stream, GetMudnnHandle(t, s) PROVE TypeOK'
  BY <1>5 DEF TypeOK, GetMudnnHandle
<1>6. CASE ProgramExit
  BY <1>6, OutlivesType DEF TypeOK, ProgramExit
<1>7. CASE UNCHANGED vars
  BY <1>7 DEF TypeOK, vars
<1> QED
  BY <1>1, <1>2, <1>3, <1>4, <1>5, <1>6, <1>7, WorkTypeOK DEF Next

\* Every variable keeps its type, for all values of the constants.
THEOREM TypeCorrect == Spec => []TypeOK
  BY InitTypeOK, NextTypeOK, PTL DEF Spec
-----------------------------------------------------------------------------
\* Init establishes the inductive invariant.
LEMMA InitPoolInv == Init => PoolInv
<1> SUFFICES ASSUME Init PROVE PoolInv
  OBVIOUS
<1>1. TypeOK
  BY InitTypeOK
<1>2. Locking /\ Windows
  BY PoolAssumption DEF Init, Locking, Windows
<1>3. ExclusiveLease
  BY DEF Init, ExclusiveLease, EmptyWindow
<1>4. NoHandleLost
  BY DEF Init, NoHandleLost, Held, Idle, EmptyWindow
<1> QED
  BY <1>1, <1>2, <1>3, <1>4 DEF PoolInv, Init

\* A step of thread t that is not in the middle of a take, and that leaves the
\* tables and the windows alone, keeps the lease exclusive and the tables full.
LEMMA QuietStep ==
  ASSUME PoolInv,
         UNCHANGED <<window, available, created, destroyed>>,
         \A u \in Thread : pc[u] = "pop" => pc'[u] = "pop" /\ device'[u] = device[u],
         PoolAlive' => PoolAlive
  PROVE  ExclusiveLease' /\ NoHandleLost' /\ destroyed' = {}
<1>1. ExclusiveLease'
  BY DEF PoolInv, ExclusiveLease
<1>2. NoHandleLost'
  BY DEF PoolInv, NoHandleLost, Held, Idle, Survives, PoolAlive
<1> QED
  BY <1>1, <1>2 DEF PoolInv

\* The last strong reference that goes leaves empty tables behind.
LEMMA OutlivesStep ==
  ASSUME PoolInv, poolRef' \in BOOLEAN, Outlives(poolRef', strong'),
         poolRef' => poolRef, strong' \subseteq strong,
         UNCHANGED window,
         \A u \in Thread : pc[u] = "pop" =>
           u \in strong' /\ pc'[u] = "pop" /\ device'[u] = device[u]
  PROVE  ExclusiveLease' /\ NoHandleLost' /\ destroyed' = {}
<1>1. CASE Survives(poolRef', strong')
  <2>1. UNCHANGED <<created, available, destroyed>>
    BY <1>1 DEF Outlives
  <2>2. PoolAlive' => PoolAlive
    BY DEF PoolAlive
  <2> QED
    BY <2>1, <2>2, QuietStep
<1>2. CASE ~Survives(poolRef', strong')
  <2>1. /\ available' = [d \in Device |-> <<>>]
        /\ destroyed' = {}
    BY <1>2 DEF Outlives, DestroyMuDNNHandle, PoolInv
  <2>2. ExclusiveLease'
    BY <2>1 DEF PoolInv, ExclusiveLease
  <2>3. NoHandleLost'
    BY <1>2 DEF NoHandleLost, Survives
  <2> QED
    BY <2>1, <2>2, <2>3
<1> QED
  BY <1>1, <1>2

\* Taking the last available handle: no other thread is between taking and
\* removing, because this one has the mutex.
LEMMA TakeStep ==
  ASSUME PoolInv, TypeOK', NEW t \in Thread, TakeAvailable(t)
  PROVE  ExclusiveLease' /\ NoHandleLost' /\ destroyed' = {}
<1> DEFINE d == device[t]
           n == Len(available[d])
<1> USE DEF Goto
<1>1. /\ d \in Device
      /\ available \in [Device -> Seq(Handle)]
      /\ window \in [Thread -> [Device -> Handle \cup {NoHandle}]]
      /\ pc \in [Thread -> Location]
      /\ pc[t] = "reserve"
      /\ UNCHANGED <<available, created, destroyed, device, poolRef, strong>>
      /\ pc' = [pc EXCEPT ![t] = "pop"]
      /\ window' = [window EXCEPT ![t][d] = available[d][n]]
      /\ available[d] # <<>>
  BY DEF PoolInv, TypeOK, TakeAvailable
<1>2. n \in 1..n /\ available[d][n] \in Handle
  BY <1>1
<1>3. \A u \in Thread : pc[u] # "pop"
  BY <1>1 DEF PoolInv, Locking
<1>4. \A u \in Thread, e \in Device : window[u][e] # available[d][n]
  <2> SUFFICES ASSUME NEW u \in Thread, NEW e \in Device, window[u][e] = available[d][n]
               PROVE  FALSE
    OBVIOUS
  <2>1. \A i \in 1..Len(available[d]) : window[u][e] = available[d][i] => pc[u] = "pop"
    BY <1>1 DEF PoolInv, ExclusiveLease
  <2> QED
    BY <1>2, <1>3, <2>1
<1>5. window[t][d] = NoHandle
  BY <1>1 DEF PoolInv, Windows
<1>6. /\ window'[t][d] = available[d][n]
      /\ \A u \in Thread, e \in Device :
           u # t \/ e # d => window'[u][e] = window[u][e]
  BY <1>1
<1>7. ExclusiveLease'
  <2>1. \A u, v \in Thread, e, f \in Device :
          window'[u][e] # NoHandle /\ window'[u][e] = window'[v][f] => u = v /\ e = f
    BY <1>4, <1>6 DEF PoolInv, ExclusiveLease
  <2>2. \A u \in Thread, e, f \in Device : \A i \in 1..Len(available[f]) :
          window'[u][e] = available[f][i] =>
            pc'[u] = "pop" /\ e = f /\ e = device[u] /\ i = Len(available[e])
    BY <1>1, <1>2, <1>3, <1>6 DEF PoolInv, ExclusiveLease
  <2> QED
    BY <1>1, <2>1, <2>2 DEF PoolInv, ExclusiveLease
<1>8. NoHandleLost'
  <2>1. Held(d)' = Held(d) \cup {available[d][n]}
    BY <1>1, <1>2, <1>5, <1>6, PoolAssumption DEF Held
  <2>2. \A e \in Device \ {d} : Held(e)' = Held(e)
    BY <1>6 DEF Held
  <2>3. \A e \in Device : Idle(e)' = Idle(e)
    BY <1>1 DEF Idle
  <2>4. available[d][n] \in Idle(d)
    BY <1>2 DEF Idle
  <2>5. Survives(poolRef, strong)' => Survives(poolRef, strong)
    BY <1>1 DEF Survives
  <2>6. SUFFICES ASSUME Survives(poolRef, strong), NEW e \in Device
                 PROVE  created[e] = Held(e)' \cup Idle(e)'
    BY <1>1, <2>5 DEF NoHandleLost
  <2>7. created[e] = Held(e) \cup Idle(e)
    BY <2>6 DEF PoolInv, NoHandleLost
  <2>8. CASE e = d
    BY <1>1, <2>1, <2>3, <2>4, <2>7, <2>8
  <2>9. CASE e # d
    BY <1>1, <2>2, <2>3, <2>7, <2>9
  <2> QED
    BY <2>8, <2>9
<1> QED
  BY <1>1, <1>7, <1>8 DEF PoolInv

\* Removing the handle that was taken: it stays held, the rest stays idle.
LEMMA PopStep ==
  ASSUME PoolInv, TypeOK', NEW t \in Thread, PopAvailable(t)
  PROVE  ExclusiveLease' /\ NoHandleLost' /\ destroyed' = {}
<1> DEFINE d == device[t]
           n == Len(available[d])
<1> USE DEF Goto
<1>1. /\ d \in Device
      /\ available \in [Device -> Seq(Handle)]
      /\ pc \in [Thread -> Location]
      /\ pc[t] = "pop"
      /\ UNCHANGED <<window, created, destroyed, device, poolRef, strong>>
      /\ pc' = [pc EXCEPT ![t] = "reserved"]
      /\ available' = [available EXCEPT ![d] = SubSeq(@, 1, Len(@) - 1)]
  BY DEF PoolInv, TypeOK, PopAvailable
<1>2. available[d] # <<>> /\ window[t][d] # NoHandle
  BY <1>1 DEF PoolInv, Windows
<1>3. n \in 1..n
  BY <1>1, <1>2
<1>4. /\ Len(available'[d]) = n - 1
      /\ \A i \in 1..(n - 1) : available'[d][i] = available[d][i]
      /\ \A e \in Device \ {d} : available'[e] = available[e]
  BY <1>1, <1>3
<1>5. \A u \in Thread : pc[u] = "pop" => u = t
  BY <1>1 DEF PoolInv, Locking
<1>6. ExclusiveLease'
  <2>1. \A u \in Thread, e, f \in Device : \A i \in 1..Len(available'[f]) :
          window[u][e] # available'[f][i]
    <3> SUFFICES ASSUME NEW u \in Thread, NEW e \in Device, NEW f \in Device,
                        NEW i \in 1..Len(available'[f]), window[u][e] = available'[f][i]
                 PROVE  FALSE
      OBVIOUS
    <3>1. i \in 1..Len(available[f]) /\ window[u][e] = available[f][i]
      BY <1>3, <1>4
    <3>2. u = t /\ e = d /\ f = d /\ i = n
      BY <1>5, <3>1 DEF PoolInv, ExclusiveLease
    <3> QED
      BY <1>3, <1>4, <3>2
  <2>3. \A e \in Device : \A i \in 1..Len(available'[e]) :
          i \in 1..Len(available[e]) /\ available'[e][i] = available[e][i]
    BY <1>3, <1>4
  <2>2. \A e, f \in Device : \A i \in 1..Len(available'[e]), j \in 1..Len(available'[f]) :
          available'[e][i] = available'[f][j] => e = f /\ i = j
    BY <2>3 DEF PoolInv, ExclusiveLease
  <2> QED
    BY <1>1, <2>1, <2>2 DEF PoolInv, ExclusiveLease
<1>7. NoHandleLost'
  <2>1. window[t][d] \in Held(d)
    BY <1>1, <1>2 DEF Held
  <2>2. \A e \in Device : Held(e)' = Held(e)
    BY <1>1 DEF Held
  <2>3. \A e \in Device \ {d} : Idle(e)' = Idle(e)
    BY <1>4 DEF Idle
  <2>4. Idle(d) = Idle(d)' \cup {available[d][n]}
    <3>1. Idle(d)' = {available[d][i] : i \in 1..(n - 1)}
      BY <1>1, <1>4 DEF Idle
    <3>2. 1..n = (1..(n - 1)) \cup {n}
      BY <1>3
    <3> QED
      BY <3>1, <3>2 DEF Idle
  <2>5. Survives(poolRef, strong)' => Survives(poolRef, strong)
    BY <1>1 DEF Survives
  <2>6. window[t][d] = available[d][n]
    BY <1>1 DEF PoolInv, Windows
  <2>7. SUFFICES ASSUME Survives(poolRef, strong), NEW e \in Device
                 PROVE  created[e] = Held(e)' \cup Idle(e)'
    BY <1>1, <2>5 DEF NoHandleLost
  <2>8. created[e] = Held(e) \cup Idle(e)
    BY <2>7 DEF PoolInv, NoHandleLost
  <2>9. CASE e = d
    BY <1>1, <2>1, <2>2, <2>4, <2>6, <2>8, <2>9
  <2>10. CASE e # d
    BY <1>1, <2>2, <2>3, <2>8, <2>10
  <2> QED
    BY <2>9, <2>10
<1> QED
  BY <1>1, <1>6, <1>7 DEF PoolInv

\* A handle made by CreateMuDNNHandle is in no window and no list: the pool
\* lives, so its tables know every handle there is.
LEMMA CreateStep ==
  ASSUME PoolInv, TypeOK', NEW t \in Thread, NEW h \in Handle, CreateHandle(t, h)
  PROVE  ExclusiveLease' /\ NoHandleLost' /\ destroyed' = {}
<1> DEFINE d == device[t]
<1> USE DEF Goto
<1>1. /\ d \in Device
      /\ created \in [Device -> SUBSET Handle]
      /\ window \in [Thread -> [Device -> Handle \cup {NoHandle}]]
      /\ pc \in [Thread -> Location]
      /\ pc[t] = "reserve"
      /\ UNCHANGED <<available, destroyed, device, poolRef, strong>>
      /\ pc' = [pc EXCEPT ![t] = "reserved"]
      /\ created' = [created EXCEPT ![d] = @ \cup {h}]
      /\ window' = [window EXCEPT ![t][d] = h]
      /\ \A e \in Device : h \notin created[e]
  BY DEF PoolInv, TypeOK, CreateHandle
<1>2. Survives(poolRef, strong) /\ Survives(poolRef, strong)'
  BY <1>1 DEF PoolInv, Locking, Survives
<1>3. \A e \in Device : h \notin Held(e) /\ h \notin Idle(e)
  BY <1>1, <1>2 DEF PoolInv, NoHandleLost
<1>4. /\ \A u \in Thread, e \in Device : window[u][e] # h
      /\ \A e \in Device : \A i \in 1..Len(available[e]) : available[e][i] # h
  BY <1>3, PoolAssumption DEF Held, Idle
<1>5. window[t][d] = NoHandle
  BY <1>1 DEF PoolInv, Windows
<1>6. /\ window'[t][d] = h
      /\ \A u \in Thread, e \in Device :
           u # t \/ e # d => window'[u][e] = window[u][e]
  BY <1>1
<1>7. ExclusiveLease'
  <2>1. \A u, v \in Thread, e, f \in Device :
          window'[u][e] # NoHandle /\ window'[u][e] = window'[v][f] => u = v /\ e = f
    BY <1>4, <1>6 DEF PoolInv, ExclusiveLease
  <2>2. \A u \in Thread, e, f \in Device : \A i \in 1..Len(available[f]) :
          window'[u][e] = available[f][i] =>
            pc'[u] = "pop" /\ e = f /\ e = device[u] /\ i = Len(available[e])
    BY <1>1, <1>4, <1>6 DEF PoolInv, ExclusiveLease
  <2> QED
    BY <1>1, <2>1, <2>2 DEF PoolInv, ExclusiveLease
<1>8. NoHandleLost'
  <2>1. SUFFICES ASSUME NEW e \in Device
                 PROVE  created'[e] = Held(e)' \cup Idle(e)'
    BY DEF NoHandleLost
  <2>2. created[e] = Held(e) \cup Idle(e)
    BY <1>2 DEF PoolInv, NoHandleLost
  <2>3. Idle(e)' = Idle(e)
    BY <1>1 DEF Idle
  <2>4. CASE e = d
    <3>1. Held(e)' = Held(e) \cup {h}
      BY <1>1, <1>5, <1>6, <2>4, PoolAssumption DEF Held
    <3> QED
      BY <1>1, <2>2, <2>3, <2>4, <3>1
  <2>5. CASE e # d
    <3>1. Held(e)' = Held(e)
      BY <1>6, <2>5 DEF Held
    <3> QED
      BY <1>1, <2>2, <2>3, <2>5, <3>1
  <2> QED
    BY <2>4, <2>5
<1> QED
  BY <1>1, <1>7, <1>8 DEF PoolInv

\* Giving one handle back moves it from the window to the list of its device.
LEMMA ReleaseStep ==
  ASSUME PoolInv, TypeOK', NEW t \in Thread, NEW d \in Device, Release(t, d)
  PROVE  ExclusiveLease' /\ NoHandleLost' /\ destroyed' = {}
<1> DEFINE n == Len(available[d])
           h == window[t][d]
<1>1. /\ available \in [Device -> Seq(Handle)]
      /\ window \in [Thread -> [Device -> Handle \cup {NoHandle}]]
      /\ pc[t] = "exitReturn"
      /\ UNCHANGED <<created, destroyed, device, poolRef, strong, pc>>
      /\ h # NoHandle /\ h \in Handle
      /\ available' = [available EXCEPT ![d] = Append(@, h)]
      /\ window' = [window EXCEPT ![t][d] = NoHandle]
  BY DEF PoolInv, TypeOK, Release
<1>2. /\ Len(available'[d]) = n + 1 /\ n \in Nat
      /\ available'[d][n + 1] = h
      /\ \A i \in 1..n : available'[d][i] = available[d][i]
      /\ \A e \in Device \ {d} : available'[e] = available[e]
  BY <1>1
<1>3. \A u \in Thread : pc[u] # "pop"
  BY <1>1 DEF PoolInv, Locking
<1>4. /\ window'[t][d] = NoHandle
      /\ \A u \in Thread, e \in Device :
           u # t \/ e # d => window'[u][e] = window[u][e]
  BY <1>1
<1>5. \A u \in Thread, e, f \in Device : \A i \in 1..Len(available[f]) :
        window[u][e] # available[f][i]
  BY <1>3 DEF PoolInv, ExclusiveLease
<1>6. \A u \in Thread, e \in Device : window'[u][e] # h
  BY <1>1, <1>4 DEF PoolInv, ExclusiveLease
<1>7. \A e \in Device : \A i \in 1..Len(available'[e]) :
        \/ i \in 1..Len(available[e]) /\ available'[e][i] = available[e][i]
        \/ e = d /\ i = n + 1 /\ available'[e][i] = h
  BY <1>2
<1>8. ExclusiveLease'
  <2>1. \A u, v \in Thread, e, f \in Device :
          window'[u][e] # NoHandle /\ window'[u][e] = window'[v][f] => u = v /\ e = f
    BY <1>4 DEF PoolInv, ExclusiveLease
  <2>2. \A u \in Thread, e, f \in Device : \A i \in 1..Len(available'[f]) :
          window'[u][e] # available'[f][i]
    <3> SUFFICES ASSUME NEW u \in Thread, NEW e \in Device, NEW f \in Device,
                        NEW i \in 1..Len(available'[f]), window'[u][e] = available'[f][i]
                 PROVE  FALSE
      OBVIOUS
    <3>1. i \in 1..Len(available[f]) /\ available'[f][i] = available[f][i]
      BY <1>6, <1>7
    <3>2. available[f][i] # NoHandle
      BY <1>1, <3>1, PoolAssumption
    <3> QED
      BY <1>4, <1>5, <3>1, <3>2
  <2>3. \A e, f \in Device : \A i \in 1..Len(available'[e]), j \in 1..Len(available'[f]) :
          available'[e][i] = available'[f][j] => e = f /\ i = j
    BY <1>5, <1>7 DEF PoolInv, ExclusiveLease
  <2>4. \A u \in Thread, e, f \in Device : \A i \in 1..Len(available'[f]) :
          window'[u][e] = available'[f][i] =>
            pc'[u] = "pop" /\ e = f /\ e = device'[u] /\ i = Len(available'[e])
    BY <2>2
  <2> QED
    BY <2>1, <2>3, <2>4 DEF ExclusiveLease
<1>9. NoHandleLost'
  <2>1. SUFFICES ASSUME Survives(poolRef, strong), NEW e \in Device
                 PROVE  created[e] = Held(e)' \cup Idle(e)'
    BY <1>1 DEF NoHandleLost, Survives
  <2>2. created[e] = Held(e) \cup Idle(e)
    BY <2>1 DEF PoolInv, NoHandleLost
  <2>3. CASE e = d
    <3>1. Held(e) = Held(e)' \cup {h}
      BY <1>1, <1>4, <2>3, PoolAssumption DEF Held
    <3>2. Idle(e)' = Idle(e) \cup {h}
      <4>1. 1..(n + 1) = (1..n) \cup {n + 1}
        BY <1>2
      <4> QED
        BY <1>2, <2>3, <4>1 DEF Idle
    <3> QED
      BY <2>2, <3>1, <3>2
  <2>4. CASE e # d
    <3>1. Held(e)' = Held(e)
      BY <1>4, <2>4 DEF Held
    <3>2. Idle(e)' = Idle(e)
      BY <1>2, <2>4 DEF Idle
    <3> QED
      BY <2>2, <3>1, <3>2
  <2> QED
    BY <2>3, <2>4
<1> QED
  BY <1>1, <1>8, <1>9 DEF PoolInv

\* A thread that ends after the pool takes its window with it.
LEMMA ReleaseLockParentStep ==
  ASSUME PoolInv, TypeOK', NEW t \in Thread, ReleaseLockParent(t)
  PROVE  ExclusiveLease' /\ NoHandleLost' /\ destroyed' = {}
<1> USE DEF Goto
<1>1. /\ pc[t] = "exitLookup" /\ pc \in [Thread -> Location]
      /\ UNCHANGED <<available, created, destroyed, device, poolRef>>
      /\ \A u \in Thread : u # t => pc'[u] = pc[u]
  BY DEF PoolInv, TypeOK, ReleaseLockParent
<1>2. CASE PoolAlive
  <2>1. UNCHANGED window
    BY <1>2 DEF ReleaseLockParent
  <2> QED
    BY <1>1, <1>2, <2>1, QuietStep
<1>3. CASE ~PoolAlive
  <2>1. UNCHANGED strong /\ window' = [window EXCEPT ![t] = EmptyWindow]
    BY <1>3 DEF ReleaseLockParent
  <2>2. \A u \in Thread, e \in Device :
          window'[u][e] = NoHandle \/ (u # t /\ window'[u][e] = window[u][e])
    BY <2>1 DEF PoolInv, TypeOK, EmptyWindow
  <2>3. \A e \in Device : \A i \in 1..Len(available[e]) : available[e][i] # NoHandle
    BY PoolAssumption DEF PoolInv, TypeOK
  <2>4. ExclusiveLease'
    <3>1. \A u, v \in Thread, e, f \in Device :
            window'[u][e] # NoHandle /\ window'[u][e] = window'[v][f] => u = v /\ e = f
      BY <2>2 DEF PoolInv, ExclusiveLease
    <3>2. \A u \in Thread, e, f \in Device : \A i \in 1..Len(available[f]) :
            window'[u][e] = available[f][i] =>
              pc'[u] = "pop" /\ e = f /\ e = device[u] /\ i = Len(available[e])
      <4> SUFFICES ASSUME NEW u \in Thread, NEW e \in Device, NEW f \in Device,
                          NEW i \in 1..Len(available[f]), window'[u][e] = available[f][i]
                   PROVE  pc'[u] = "pop" /\ e = f /\ e = device[u] /\ i = Len(available[e])
        OBVIOUS
      <4>1. u # t /\ window[u][e] = available[f][i]
        BY <2>2, <2>3
      <4> QED
        BY <1>1, <4>1 DEF PoolInv, ExclusiveLease
    <3> QED
      BY <1>1, <3>1, <3>2 DEF PoolInv, ExclusiveLease
  <2>5. NoHandleLost'
    BY <1>1, <1>3, <2>1 DEF NoHandleLost, Survives, PoolAlive
  <2> QED
    BY <1>1, <2>4, <2>5 DEF PoolInv
<1> QED
  BY <1>2, <1>3

\* The mutex, the strong references and the windows follow the program
\* counters through every step of a call or of the end of a thread.
LEMMA WorkControl ==
  ASSUME PoolInv, TypeOK', NEW t \in Thread, Work(t)
  PROVE  Locking' /\ Windows'
<1> USE PoolAssumption DEF Goto, PoolInv, TypeOK, Locking, Windows
<1>1. CASE LockParent(t)
  <2>1. /\ pc[t] = "lookup"
        /\ UNCHANGED <<mutex, window, available, device>>
        /\ \/ strong' = strong \cup {t} /\ pc' = [pc EXCEPT ![t] = "lock"]
           \/ strong' = strong /\ pc' = [pc EXCEPT ![t] = "idle"]
    BY <1>1, Zenon DEF LockParent
  <2>2. CASE strong' = strong \cup {t} /\ pc' = [pc EXCEPT ![t] = "lock"]
    <3>1. Locking'
      BY <2>1, <2>2
    <3>2. Windows'
      BY <2>1, <2>2
    <3> QED
      BY <3>1, <3>2
  <2>3. CASE strong' = strong /\ pc' = [pc EXCEPT ![t] = "idle"]
    BY <2>1, <2>3
  <2> QED
    BY <2>1, <2>2, <2>3
<1>2. CASE LockMutex(t)
  BY <1>2 DEF LockMutex
<1>3. CASE TakeAvailable(t)
  BY <1>3 DEF TakeAvailable
<1>4. CASE PopAvailable(t)
  BY <1>4 DEF PopAvailable
<1>5. ASSUME NEW h \in Handle, CreateHandle(t, h) PROVE Locking' /\ Windows'
  BY <1>5 DEF CreateHandle
<1>6. CASE CreateFails(t)
  BY <1>6 DEF CreateFails
<1>7. CASE DropParent(t)
  BY <1>7 DEF DropParent, Outlives, Survives
<1>8. CASE SetStream(t)
  BY <1>8 DEF SetStream
<1>9. CASE KernelReturns(t)
  BY <1>9 DEF KernelReturns
<1>10. CASE ReleaseLockParent(t)
  <2>1. /\ pc[t] = "exitLookup"
        /\ UNCHANGED <<mutex, available, device>>
        /\ \/ /\ strong' = strong \cup {t}
              /\ pc' = [pc EXCEPT ![t] = "exitLock"]
              /\ UNCHANGED window
           \/ /\ strong' = strong
              /\ pc' = [pc EXCEPT ![t] = "done"]
              /\ window' = [window EXCEPT ![t] = EmptyWindow]
    BY <1>10, Zenon DEF ReleaseLockParent
  <2>2. CASE strong' = strong \cup {t} /\ pc' = [pc EXCEPT ![t] = "exitLock"]
    BY <2>1, <2>2
  <2>3. CASE /\ strong' = strong
             /\ pc' = [pc EXCEPT ![t] = "done"]
             /\ window' = [window EXCEPT ![t] = EmptyWindow]
    <3>1. Locking'
      BY <2>1, <2>3
    <3>2. Windows'
      BY <2>1, <2>3
    <3> QED
      BY <3>1, <3>2
  <2> QED
    BY <2>1, <2>2, <2>3
<1>11. ASSUME NEW d \in Device, Release(t, d) PROVE Locking' /\ Windows'
  BY <1>11 DEF Release
<1>12. CASE ReleaseDone(t)
  BY <1>12 DEF ReleaseDone
<1> QED
  BY <1>1, <1>2, <1>3, <1>4, <1>5, <1>6, <1>7, <1>8, <1>9, <1>10, <1>11, <1>12 DEF Work

\* Every step preserves the inductive invariant.
LEMMA NextPoolInv == PoolInv /\ [Next]_vars => PoolInv'
<1> SUFFICES ASSUME PoolInv, [Next]_vars PROVE PoolInv'
  OBVIOUS
<1> USE DEF Goto
<1>1. TypeOK'
  BY NextTypeOK DEF PoolInv
<1>2. Locking' /\ Windows'
  <2> USE <1>1, PoolAssumption DEF PoolInv, TypeOK, Locking, Windows
  <2>1. ASSUME NEW t \in Thread, NewPoolWindow(t) PROVE Locking' /\ Windows'
    BY <2>1 DEF NewPoolWindow
  <2>2. ASSUME NEW t \in Thread, ThreadExit(t) PROVE Locking' /\ Windows'
    BY <2>2 DEF ThreadExit
  <2>3. ASSUME NEW t \in Thread, NewThread(t) PROVE Locking' /\ Windows'
    BY <2>3 DEF NewThread
  <2>4. ASSUME NEW t \in Thread, NEW d \in Device, SetDevice(t, d)
        PROVE  Locking' /\ Windows'
    BY <2>4 DEF SetDevice
  <2>5. ASSUME NEW t \in Thread, NEW s \in Stream, GetMudnnHandle(t, s)
        PROVE  Locking' /\ Windows'
    BY <2>5 DEF GetMudnnHandle
  <2>6. CASE ProgramExit
    BY <2>6 DEF ProgramExit, Outlives, Survives
  <2>7. CASE UNCHANGED vars
    BY <2>7 DEF vars
  <2> QED
    BY <2>1, <2>2, <2>3, <2>4, <2>5, <2>6, <2>7, WorkControl DEF Next
<1>3. ExclusiveLease' /\ NoHandleLost' /\ destroyed' = {}
  <2> DEFINE Kept == ExclusiveLease' /\ NoHandleLost' /\ destroyed' = {}
             Quiet == /\ UNCHANGED <<window, available, created, destroyed>>
                      /\ \A u \in Thread : pc[u] = "pop" =>
                           pc'[u] = "pop" /\ device'[u] = device[u]
                      /\ PoolAlive' => PoolAlive
  <2> USE DEF PoolInv, TypeOK, PoolAlive
  <2>1. Quiet => Kept
    BY QuietStep
  <2>2. ASSUME NEW t \in Thread, Work(t) PROVE Kept
    <3>1. CASE LockParent(t)
      BY <2>1, <3>1 DEF LockParent
    <3>2. CASE LockMutex(t)
      BY <2>1, <3>2 DEF LockMutex
    <3>3. CASE TakeAvailable(t)
      BY <1>1, <3>3, TakeStep
    <3>4. CASE PopAvailable(t)
      BY <1>1, <3>4, PopStep
    <3>5. ASSUME NEW h \in Handle, CreateHandle(t, h) PROVE Kept
      BY <1>1, <3>5, CreateStep
    <3>6. CASE CreateFails(t)
      BY <2>1, <3>6 DEF CreateFails
    <3>7. CASE DropParent(t)
      BY <3>7, OutlivesStep DEF DropParent, Locking
    <3>8. CASE SetStream(t)
      BY <2>1, <3>8 DEF SetStream
    <3>9. CASE KernelReturns(t)
      BY <2>1, <3>9 DEF KernelReturns
    <3>10. CASE ReleaseLockParent(t)
      BY <1>1, <3>10, ReleaseLockParentStep
    <3>11. ASSUME NEW d \in Device, Release(t, d) PROVE Kept
      BY <1>1, <3>11, ReleaseStep
    <3>12. CASE ReleaseDone(t)
      BY <2>1, <3>12 DEF ReleaseDone
    <3> QED
      BY <2>2, <3>1, <3>2, <3>3, <3>4, <3>5, <3>6, <3>7, <3>8, <3>9, <3>10, <3>11, <3>12
      DEF Work
  <2>3. ASSUME NEW t \in Thread, NewPoolWindow(t) PROVE Kept
    BY <2>1, <2>3 DEF NewPoolWindow
  <2>4. ASSUME NEW t \in Thread, ThreadExit(t) PROVE Kept
    BY <2>1, <2>4 DEF ThreadExit
  <2>5. ASSUME NEW t \in Thread, NewThread(t) PROVE Kept
    BY <2>1, <2>5 DEF NewThread
  <2>6. ASSUME NEW t \in Thread, NEW d \in Device, SetDevice(t, d) PROVE Kept
    BY <2>1, <2>6 DEF SetDevice
  <2>7. ASSUME NEW t \in Thread, NEW s \in Stream, GetMudnnHandle(t, s) PROVE Kept
    BY <2>1, <2>7 DEF GetMudnnHandle
  <2>8. CASE ProgramExit
    BY <2>8, OutlivesStep DEF ProgramExit, Locking
  <2>9. CASE UNCHANGED vars
    BY <2>1, <2>9 DEF vars
  <2> QED
    BY <2>2, <2>3, <2>4, <2>5, <2>6, <2>7, <2>8, <2>9 DEF Next
<1> QED
  BY <1>1, <1>2, <1>3 DEF PoolInv

\* The inductive invariant holds throughout, for any number of threads.
THEOREM PoolInvariant == Spec => []PoolInv
  BY InitPoolInv, NextPoolInv, PTL DEF Spec

\* Two kernels never work on the same MuDNN handle at the same time, for any
\* number of threads and devices: GetMudnnHandle leases each handle to one
\* thread, through reserve(), release() and the end of the program.
THEOREM LeaseIsExclusive == Spec => []ExclusiveLease
  BY PoolInvariant, PTL DEF PoolInv

\* While the pool lives it loses no handle: what reserve() ever created is
\* cached by a thread or available to the next one.
THEOREM NothingLost == Spec => []NoHandleLost
  BY PoolInvariant, PTL DEF PoolInv
-----------------------------------------------------------------------------
\* The handles of a device that threads cache are no more than the threads.
LEMMA HeldBound ==
  ASSUME NEW w \in [Thread -> [Device -> Handle \cup {NoHandle}]], NEW d \in Device
  PROVE  Cardinality({w[t][d] : t \in Thread} \ {NoHandle}) <= Cardinality(Thread)
<1> DEFINE Cached == {w[t][d] : t \in Thread}
           f == [t \in Thread |-> w[t][d]]
<1>1. f \in Surjection(Thread, Cached)
  BY DEF Surjection
<1>2. IsFiniteSet(Thread)
  BY PoolAssumption
<1>3. IsFiniteSet(Cached) /\ Cardinality(Cached) <= Cardinality(Thread)
  BY <1>1, <1>2, FS_Surjection
<1>4. /\ IsFiniteSet(Cached \ {NoHandle})
      /\ Cardinality(Cached \ {NoHandle}) <= Cardinality(Cached)
  BY <1>3, FS_Subset
<1>5. /\ Cardinality(Cached \ {NoHandle}) \in Nat
      /\ Cardinality(Cached) \in Nat
      /\ Cardinality(Thread) \in Nat
  BY <1>2, <1>3, <1>4, FS_CardinalityType
<1> QED
  BY <1>3, <1>4, <1>5

\* A step adds to created_handles only when the thread found none available,
\* and then every handle of the device is cached by some thread.
LEMMA CreatedBound ==
  ASSUME PoolInv, PoolInv', HandlesBounded, [Next]_vars
  PROVE  HandlesBounded'
<1> USE DEF PoolInv, TypeOK
<1>1. ASSUME NEW t \in Thread, NEW h \in Handle, CreateHandle(t, h) PROVE HandlesBounded'
  <2>1. SUFFICES ASSUME NEW e \in Device
                 PROVE  Cardinality(created'[e]) <= Cardinality(Thread)
    BY DEF HandlesBounded
  <2>2. CASE e = device[t]
    <3>1. Survives(poolRef, strong)' /\ available'[e] = <<>>
      BY <1>1, <2>2 DEF CreateHandle, Locking, Survives
    <3>2. Idle(e)' = {}
      BY <3>1 DEF Idle
    <3>3. created'[e] = Held(e)'
      BY <3>1, <3>2 DEF NoHandleLost
    <3>4. Cardinality(Held(e)') <= Cardinality(Thread)
      BY HeldBound DEF Held
    <3> QED
      BY <3>3, <3>4
  <2>3. CASE e # device[t]
    <3>1. created'[e] = created[e]
      BY <1>1, <2>3 DEF CreateHandle
    <3> QED
      BY <3>1 DEF HandlesBounded
  <2> QED
    BY <2>2, <2>3
<1>2. ASSUME created' = created \/ created' = [d \in Device |-> {}] PROVE HandlesBounded'
  <2>1. Cardinality({}) = 0 /\ Cardinality(Thread) \in Nat
    BY PoolAssumption, FS_EmptySet, FS_CardinalityType
  <2>2. CASE created' = created
    BY <2>2 DEF HandlesBounded
  <2>3. CASE created' = [d \in Device |-> {}]
    BY <2>1, <2>3 DEF HandlesBounded
  <2> QED
    BY <1>2, <2>2, <2>3
<1>3. CASE Next /\ ~\E t \in Thread, h \in Handle : CreateHandle(t, h)
  <2>1. created' = created \/ created' = [d \in Device |-> {}]
    BY <1>3 DEF Next, Work, NewPoolWindow, ThreadExit, NewThread, SetDevice, GetMudnnHandle,
                ProgramExit, LockParent, LockMutex, TakeAvailable, PopAvailable, CreateFails,
                DropParent, SetStream, KernelReturns, ReleaseLockParent, Release,
                ReleaseDone, Outlives
  <2> QED
    BY <1>2, <2>1
<1>4. CASE UNCHANGED vars
  BY <1>2, <1>4 DEF vars
<1> QED
  BY <1>1, <1>3, <1>4

\* However many threads come and go, a device never has more MuDNN handles
\* than threads: ended threads' handles are reused before new ones are made.
THEOREM HandlesAreReused == Spec => []HandlesBounded
<1>1. Init => HandlesBounded
  <2>1. Cardinality({}) = 0 /\ Cardinality(Thread) \in Nat
    BY PoolAssumption, FS_EmptySet, FS_CardinalityType
  <2> QED
    BY <2>1 DEF Init, HandlesBounded
<1>2. PoolInv /\ PoolInv' /\ HandlesBounded /\ [Next]_vars => HandlesBounded'
  BY CreatedBound
<1> QED
  BY <1>1, <1>2, PoolInvariant, PTL DEF Spec
-----------------------------------------------------------------------------
\* Only SetStream lets a kernel run or binds a handle to a stream; every other
\* step leaves the running kernels' windows, devices and streams alone.
LEMMA SteadyStep ==
  ASSUME PoolInv, [Next]_vars, ~\E t \in Thread : SetStream(t)
  PROVE  /\ stream' = stream
         /\ \A u \in Thread : pc'[u] = "running" =>
              /\ pc[u] = "running" /\ wanted'[u] = wanted[u]
              /\ window'[u] = window[u] /\ device'[u] = device[u]
<1> DEFINE Steady == /\ stream' = stream
                     /\ \A u \in Thread : pc'[u] = "running" =>
                          /\ pc[u] = "running" /\ wanted'[u] = wanted[u]
                          /\ window'[u] = window[u] /\ device'[u] = device[u]
<1> USE DEF PoolInv, TypeOK, Goto
<1>1. ASSUME NEW t \in Thread, Work(t) PROVE Steady
    <3>1. CASE LockParent(t)
      BY <3>1 DEF LockParent
    <3>2. CASE LockMutex(t)
      BY <3>2 DEF LockMutex
    <3>3. CASE TakeAvailable(t)
      BY <3>3 DEF TakeAvailable
    <3>4. CASE PopAvailable(t)
      BY <3>4 DEF PopAvailable
    <3>5. CASE CreateFails(t)
      BY <3>5 DEF CreateFails
    <3>6. CASE DropParent(t)
      BY <3>6 DEF DropParent
    <3>7. CASE KernelReturns(t)
      BY <3>7 DEF KernelReturns
    <3>8. CASE ReleaseLockParent(t)
      BY <3>8 DEF ReleaseLockParent
    <3>9. CASE ReleaseDone(t)
      BY <3>9 DEF ReleaseDone
    <3>10. ASSUME NEW h \in Handle, CreateHandle(t, h) PROVE Steady
      BY <3>10 DEF CreateHandle
    <3>11. ASSUME NEW d \in Device, Release(t, d) PROVE Steady
      BY <3>11 DEF Release
    <3> QED
      BY <1>1, <3>1, <3>2, <3>3, <3>4, <3>5, <3>6, <3>7, <3>8, <3>9, <3>10, <3>11
      DEF Work
<1>2. ASSUME NEW t \in Thread, NewPoolWindow(t) \/ ThreadExit(t) \/ NewThread(t) PROVE Steady
  BY <1>2 DEF NewPoolWindow, ThreadExit, NewThread
<1>3. ASSUME NEW t \in Thread, NEW d \in Device, SetDevice(t, d) PROVE Steady
  BY <1>3 DEF SetDevice
<1>4. ASSUME NEW t \in Thread, NEW s \in Stream, GetMudnnHandle(t, s) PROVE Steady
  BY <1>4 DEF GetMudnnHandle
<1>5. CASE ProgramExit
  BY <1>5 DEF ProgramExit
<1>6. CASE UNCHANGED vars
  BY <1>6 DEF vars
<1> QED
  BY <1>1, <1>2, <1>3, <1>4, <1>5, <1>6 DEF Next

\* A kernel that runs keeps its own handle on its own stream whatever other
\* threads do: binding a stream touches the binder's handle only.
THEOREM KernelKeepsHandle == Spec => []KernelOwnsHandle
<1>1. Init => KernelOwnsHandle
  BY DEF Init, KernelOwnsHandle
<1>2. PoolInv /\ PoolInv' /\ KernelOwnsHandle /\ [Next]_vars => KernelOwnsHandle'
  <2> SUFFICES ASSUME PoolInv, PoolInv', KernelOwnsHandle, [Next]_vars,
                      NEW u \in Thread, pc'[u] = "running"
               PROVE  /\ window'[u][device'[u]] # NoHandle
                      /\ stream'[window'[u][device'[u]]] = wanted'[u]
                      /\ window'[u][device'[u]] \notin destroyed'
    BY DEF KernelOwnsHandle, InUse
  <2>1. destroyed' = {} /\ window'[u][device'[u]] # NoHandle
    BY DEF PoolInv, Windows
  <2>2. CASE ~\E t \in Thread : SetStream(t)
    BY <2>1, <2>2, SteadyStep DEF KernelOwnsHandle, InUse
  <2>3. ASSUME NEW t \in Thread, SetStream(t)
        PROVE  stream'[window'[u][device'[u]]] = wanted'[u]
    <3> DEFINE h == window[t][device[t]]
    <3>1. /\ stream' = [stream EXCEPT ![h] = wanted[t]]
          /\ pc' = [pc EXCEPT ![t] = "running"]
          /\ pc[t] = "bind"
          /\ UNCHANGED <<window, device, wanted>>
      BY <2>3 DEF SetStream, Goto
    <3>2. h # NoHandle /\ h \in Handle
      BY <3>1 DEF PoolInv, Windows, TypeOK
    <3>3. CASE u = t
      BY <3>1, <3>2, <3>3 DEF PoolInv, TypeOK
    <3>4. CASE u # t
      <4>1. pc[u] = "running"
        BY <3>1, <3>4 DEF PoolInv, TypeOK
      <4>2. window[u][device[u]] # h
        BY <3>2, <3>4 DEF PoolInv, TypeOK, ExclusiveLease
      <4>3. window[u][device[u]] \in Handle /\ stream[window[u][device[u]]] = wanted[u]
        BY <4>1 DEF PoolInv, TypeOK, KernelOwnsHandle, InUse
      <4> QED
        BY <3>1, <4>2, <4>3 DEF PoolInv, TypeOK
    <3> QED
      BY <3>3, <3>4
  <2> QED
    BY <2>1, <2>2, <2>3
<1> QED
  BY <1>1, <1>2, PoolInvariant, PTL DEF Spec
-----------------------------------------------------------------------------
(***************************************************************************)
(* MudnnHandlePool implements HandleLease, for any number of threads,      *)
(* devices and handles: every step of reserve(), of release() and of the   *)
(* end of the program grants, returns or drops whole leases, or changes    *)
(* none.                                                                   *)
(***************************************************************************)
Leased(h) == \E t \in Thread, d \in Device : LeasedTo(h, t, d)
Listed(h) == \E d \in Device : h \in Idle(d)

\* What the two functions of the refinement mapping say of a handle.
LeaseFacts ==
  /\ LeaseOwner = [h \in Handle |-> LeaseOwner[h]]
  /\ LeaseHome = [h \in Handle |-> LeaseHome[h]]
  /\ \A h \in Handle, t \in Thread, d \in Device :
       LeasedTo(h, t, d) => LeaseOwner[h] = t /\ LeaseHome[h] = d
  /\ \A h \in Handle, d \in Device :
       ~Leased(h) /\ h \in Idle(d) => LeaseOwner[h] = Free /\ LeaseHome[h] = d
  /\ \A h \in Handle :
       ~Leased(h) /\ ~Listed(h) => LeaseOwner[h] = Absent /\ LeaseHome[h] = Absent

\* As leases are exclusive, there is nothing to choose in the mapping.
LEMMA Mapping == TypeOK /\ ExclusiveLease => LeaseFacts
<1> SUFFICES ASSUME TypeOK, ExclusiveLease PROVE LeaseFacts
  OBVIOUS
<1>1. /\ LeaseOwner = [h \in Handle |-> LeaseOwner[h]]
      /\ LeaseHome = [h \in Handle |-> LeaseHome[h]]
  BY DEF LeaseOwner, LeaseHome
<1>2. \A h \in Handle, d \in Device :
        h \in Held(d) <=> \E t \in Thread : LeasedTo(h, t, d)
  BY PoolAssumption DEF Held, LeasedTo
<1>3. \A h \in Handle, t, u \in Thread, d, e \in Device :
        LeasedTo(h, t, d) /\ LeasedTo(h, u, e) => t = u /\ d = e
  BY PoolAssumption DEF ExclusiveLease, LeasedTo
<1>4. \A h \in Handle, t \in Thread, d, e \in Device :
        LeasedTo(h, t, d) /\ h \in Idle(e) => d = e
  BY DEF ExclusiveLease, LeasedTo, Idle
<1>5. \A h \in Handle, d, e \in Device : h \in Idle(d) /\ h \in Idle(e) => d = e
  BY DEF ExclusiveLease, Idle
<1>6. ASSUME NEW h \in Handle, NEW t \in Thread, NEW d \in Device, LeasedTo(h, t, d)
      PROVE  LeaseOwner[h] = t /\ LeaseHome[h] = d
  <2>1. LeaseOwner[h] = CHOOSE u \in Thread : \E e \in Device : LeasedTo(h, u, e)
    BY <1>6 DEF LeaseOwner
  <2>2. LeaseOwner[h] = t
    BY <1>3, <1>6, <2>1
  <2>3. LeaseHome[h] = CHOOSE e \in Device : h \in Held(e) \cup Idle(e)
    BY <1>2, <1>6 DEF LeaseHome
  <2>4. \A e \in Device : h \in Held(e) \cup Idle(e) <=> e = d
    BY <1>2, <1>3, <1>4, <1>6
  <2>5. LeaseHome[h] = d
    BY <2>3, <2>4
  <2> QED
    BY <2>2, <2>5
<1>7. ASSUME NEW h \in Handle, NEW d \in Device, ~Leased(h), h \in Idle(d)
      PROVE  LeaseOwner[h] = Free /\ LeaseHome[h] = d
  <2>1. LeaseOwner[h] = Free
    BY <1>7 DEF LeaseOwner, Leased
  <2>2. LeaseHome[h] = CHOOSE e \in Device : h \in Held(e) \cup Idle(e)
    BY <1>7 DEF LeaseHome
  <2>3. \A e \in Device : h \in Held(e) \cup Idle(e) <=> e = d
    BY <1>2, <1>5, <1>7 DEF Leased
  <2> QED
    BY <2>1, <2>2, <2>3
<1>8. ASSUME NEW h \in Handle, ~Leased(h), ~Listed(h)
      PROVE  LeaseOwner[h] = Absent /\ LeaseHome[h] = Absent
  <2>1. LeaseOwner[h] = Absent
    BY <1>8 DEF LeaseOwner, Leased, Listed
  <2>2. LeaseHome[h] = Absent
    BY <1>2, <1>8 DEF LeaseHome, Leased, Listed
  <2> QED
    BY <2>1, <2>2
<1> QED
  BY <1>1, <1>6, <1>7, <1>8 DEF LeaseFacts

LEMMA MappingNext == TypeOK' /\ ExclusiveLease' => LeaseFacts'
  BY Mapping, PTL

\* A step that changes neither windows nor lists changes no lease.
LEMMA SameLeases ==
  ASSUME UNCHANGED <<window, available>>
  PROVE  UNCHANGED <<LeaseOwner, LeaseHome>>
  BY DEF LeaseOwner, LeaseHome, LeasedTo, Held, Idle
-----------------------------------------------------------------------------
LEMMA TakeGrants ==
  ASSUME PoolInv, PoolInv', NEW t \in Thread, TakeAvailable(t)
  PROVE  \E h \in Handle : Lease!Grant(t, device[t], h)
<1> DEFINE d == device[t]
           n == Len(available[d])
           h == available[d][n]
<1>1. /\ d \in Device /\ available[d] \in Seq(Handle) /\ available[d] # <<>>
      /\ pc[t] = "reserve" /\ mutex = t /\ t \in strong
      /\ window \in [Thread -> [Device -> Handle \cup {NoHandle}]]
      /\ window' = [window EXCEPT ![t][d] = h]
      /\ UNCHANGED <<available, poolRef, strong>>
  BY DEF PoolInv, TypeOK, Locking, TakeAvailable
<1>2. n \in 1..Len(available[d]) /\ h \in Handle /\ h \in Idle(d)
  <2>1. n \in 1..Len(available[d]) /\ h \in Handle
    BY <1>1
  <2> QED
    BY <2>1 DEF Idle
<1>3. LeaseFacts /\ LeaseFacts'
  BY Mapping, MappingNext DEF PoolInv
<1>4. \A u \in Thread : pc[u] # "pop"
  BY <1>1 DEF PoolInv, Locking
<1>5. ~Leased(h)
  <2> SUFFICES ASSUME NEW u \in Thread, NEW e \in Device, window[u][e] = h PROVE FALSE
    BY DEF Leased, LeasedTo
  <2>1. \A f \in Device : \A i \in 1..Len(available[f]) :
          window[u][e] = available[f][i] => pc[u] = "pop"
    BY DEF PoolInv, ExclusiveLease
  <2>2. n \in 1..Len(available[d])
    BY <1>2
  <2> QED
    BY <1>1, <1>4, <2>1, <2>2
<1>6. window[t][d] = NoHandle
  BY <1>1 DEF PoolInv, Windows
<1>7. \A g \in Handle, u \in Thread, e \in Device :
        LeasedTo(g, u, e)' <=> LeasedTo(g, u, e) \/ (g = h /\ u = t /\ e = d)
  BY <1>1, <1>5, <1>6, PoolAssumption DEF LeasedTo, Leased
<1>8. \A e \in Device : Idle(e)' = Idle(e)
  BY <1>1 DEF Idle
<1> HIDE DEF h, n, d
<1>9. LeaseOwner' = [LeaseOwner EXCEPT ![h] = t]
  <2>1. \A g \in Handle : LeaseOwner'[g] = IF g = h THEN t ELSE LeaseOwner[g]
    <3> SUFFICES ASSUME NEW g \in Handle
                 PROVE  LeaseOwner'[g] = IF g = h THEN t ELSE LeaseOwner[g]
      OBVIOUS
    <3>1. CASE g = h
      BY <1>1, <1>3, <1>7, <3>1 DEF LeaseFacts
    <3>2. CASE g # h /\ Leased(g)
      BY <1>3, <1>7, <3>2 DEF LeaseFacts, Leased
    <3>3. CASE g # h /\ ~Leased(g) /\ Listed(g)
      BY <1>3, <1>7, <1>8, <3>3 DEF LeaseFacts, Leased, Listed
    <3>4. CASE g # h /\ ~Leased(g) /\ ~Listed(g)
      BY <1>3, <1>7, <1>8, <3>4 DEF LeaseFacts, Leased, Listed
    <3> QED
      BY <3>1, <3>2, <3>3, <3>4
  <2> QED
    BY <1>3, <2>1 DEF LeaseFacts
<1>10. LeaseHome' = LeaseHome
  <2>1. \A g \in Handle : LeaseHome'[g] = LeaseHome[g]
    <3> SUFFICES ASSUME NEW g \in Handle PROVE LeaseHome'[g] = LeaseHome[g]
      OBVIOUS
    <3>1. CASE g = h
      BY <1>1, <1>2, <1>3, <1>5, <1>7, <3>1 DEF LeaseFacts
    <3>2. CASE g # h /\ Leased(g)
      BY <1>3, <1>7, <3>2 DEF LeaseFacts, Leased
    <3>3. CASE g # h /\ ~Leased(g) /\ Listed(g)
      BY <1>3, <1>7, <1>8, <3>3 DEF LeaseFacts, Leased, Listed
    <3>4. CASE g # h /\ ~Leased(g) /\ ~Listed(g)
      BY <1>3, <1>7, <1>8, <3>4 DEF LeaseFacts, Leased, Listed
    <3> QED
      BY <3>1, <3>2, <3>3, <3>4
  <2> QED
    BY <1>3, <2>1 DEF LeaseFacts
<1>11. ~Lease!HoldsOn(t, d)
  <2> SUFFICES ASSUME NEW g \in Handle, LeaseOwner[g] = t, LeaseHome[g] = d
               PROVE  FALSE
    BY DEF Lease!HoldsOn
  <2>1. PICK u \in Thread, e \in Device : LeasedTo(g, u, e)
    BY <1>3, PoolAssumption DEF LeaseFacts, Leased, Listed
  <2>2. LeasedTo(g, t, d)
    BY <1>3, <2>1 DEF LeaseFacts
  <2> QED
    BY <1>6, <2>2, PoolAssumption DEF LeasedTo
<1>12. LeaseOwner[h] = Free /\ LeaseHome[h] = d
  BY <1>1, <1>2, <1>3, <1>5 DEF LeaseFacts
<1>13. PoolAlive /\ PoolAlive' = PoolAlive
  BY <1>1 DEF PoolAlive
<1>14. Lease!Grant(t, d, h)
  BY <1>9, <1>10, <1>11, <1>12, <1>13 DEF Lease!Grant
<1> QED
  BY <1>2, <1>14 DEF d

LEMMA CreateGrantsNew ==
  ASSUME PoolInv, PoolInv', NEW t \in Thread, NEW h \in Handle, CreateHandle(t, h)
  PROVE  Lease!GrantNew(t, device[t], h)
<1> DEFINE d == device[t]
<1>1. /\ d \in Device /\ available[d] = <<>>
      /\ pc[t] = "reserve" /\ mutex = t /\ t \in strong
      /\ \A e \in Device : h \notin created[e]
      /\ window \in [Thread -> [Device -> Handle \cup {NoHandle}]]
      /\ window' = [window EXCEPT ![t][d] = h]
      /\ UNCHANGED <<available, poolRef, strong>>
  BY DEF PoolInv, TypeOK, Locking, CreateHandle
<1>2. LeaseFacts /\ LeaseFacts'
  BY Mapping, MappingNext DEF PoolInv
<1>3. \A e \in Device : h \notin Held(e) /\ h \notin Idle(e)
  BY <1>1 DEF PoolInv, NoHandleLost, Survives
<1>4. ~Leased(h) /\ ~Listed(h)
  BY <1>3, PoolAssumption DEF Leased, LeasedTo, Listed, Held
<1>5. window[t][d] = NoHandle
  BY <1>1 DEF PoolInv, Windows
<1>6. \A g \in Handle, u \in Thread, e \in Device :
        LeasedTo(g, u, e)' <=> LeasedTo(g, u, e) \/ (g = h /\ u = t /\ e = d)
  BY <1>1, <1>4, <1>5, PoolAssumption DEF LeasedTo, Leased
<1>7. \A e \in Device : Idle(e)' = Idle(e)
  BY <1>1 DEF Idle
<1> HIDE DEF d
<1>8. \A g \in Handle :
        /\ LeaseOwner'[g] = IF g = h THEN t ELSE LeaseOwner[g]
        /\ LeaseHome'[g] = IF g = h THEN d ELSE LeaseHome[g]
  <2> SUFFICES ASSUME NEW g \in Handle
               PROVE  /\ LeaseOwner'[g] = IF g = h THEN t ELSE LeaseOwner[g]
                      /\ LeaseHome'[g] = IF g = h THEN d ELSE LeaseHome[g]
    OBVIOUS
  <2>1. CASE g = h
    BY <1>1, <1>2, <1>6, <2>1 DEF LeaseFacts
  <2>2. CASE g # h /\ Leased(g)
    BY <1>2, <1>6, <2>2 DEF LeaseFacts, Leased
  <2>3. CASE g # h /\ ~Leased(g) /\ Listed(g)
    BY <1>2, <1>6, <1>7, <2>3 DEF LeaseFacts, Leased, Listed
  <2>4. CASE g # h /\ ~Leased(g) /\ ~Listed(g)
    BY <1>2, <1>6, <1>7, <2>4 DEF LeaseFacts, Leased, Listed
  <2> QED
    BY <2>1, <2>2, <2>3, <2>4
<1>9. /\ LeaseOwner' = [LeaseOwner EXCEPT ![h] = t]
      /\ LeaseHome' = [LeaseHome EXCEPT ![h] = d]
  BY <1>2, <1>8 DEF LeaseFacts
<1>10. ~Lease!HoldsOn(t, d)
  <2> SUFFICES ASSUME NEW g \in Handle, LeaseOwner[g] = t, LeaseHome[g] = d
               PROVE  FALSE
    BY DEF Lease!HoldsOn
  <2>1. PICK u \in Thread, e \in Device : LeasedTo(g, u, e)
    BY <1>2, PoolAssumption DEF LeaseFacts, Leased, Listed
  <2>2. LeasedTo(g, t, d)
    BY <1>2, <2>1 DEF LeaseFacts
  <2> QED
    BY <1>5, <2>2, PoolAssumption DEF LeasedTo
<1>11. \A g \in Handle : LeaseHome[g] = d => LeaseOwner[g] # Free
  <2> SUFFICES ASSUME NEW g \in Handle, LeaseHome[g] = d, LeaseOwner[g] = Free
               PROVE  FALSE
    OBVIOUS
  <2>1. ~Leased(g) /\ Listed(g)
    BY <1>2, PoolAssumption DEF LeaseFacts, Leased
  <2>2. g \in Idle(d)
    BY <1>2, <2>1 DEF LeaseFacts, Listed
  <2> QED
    BY <1>1, <2>2 DEF Idle
<1>12. LeaseOwner[h] = Absent
  BY <1>2, <1>4 DEF LeaseFacts
<1>13. PoolAlive /\ PoolAlive' = PoolAlive
  BY <1>1 DEF PoolAlive
<1> QED
  BY <1>9, <1>10, <1>11, <1>12, <1>13 DEF Lease!GrantNew, d

\* Between the two statements of reserve() a handle is both cached and listed;
\* taking it off the list changes no lease.
LEMMA PopKeepsLeases ==
  ASSUME PoolInv, PoolInv', NEW t \in Thread, PopAvailable(t)
  PROVE  UNCHANGED <<LeaseOwner, LeaseHome, PoolAlive>>
<1> DEFINE d == device[t]
           n == Len(available[d])
<1>1. /\ d \in Device /\ available \in [Device -> Seq(Handle)] /\ available[d] # <<>>
      /\ window[t][d] = available[d][n]
      /\ available' = [available EXCEPT ![d] = SubSeq(available[d], 1, n - 1)]
      /\ UNCHANGED <<window, poolRef, strong>>
  BY DEF PoolInv, TypeOK, Windows, PopAvailable
<1>2. LeaseFacts /\ LeaseFacts'
  BY Mapping, MappingNext DEF PoolInv
<1>3. \A g, u, e : LeasedTo(g, u, e)' <=> LeasedTo(g, u, e)
  BY <1>1 DEF LeasedTo
<1>4. \A g \in Handle : Leased(g)' <=> Leased(g)
  BY <1>3 DEF Leased
<1>5. /\ n \in Nat /\ Len(SubSeq(available[d], 1, n - 1)) = n - 1
      /\ \A i \in 1..(n - 1) : SubSeq(available[d], 1, n - 1)[i] = available[d][i]
  BY <1>1
<1>6. \A g \in Handle, e \in Device :
        ~Leased(g) => (g \in Idle(e)' <=> g \in Idle(e))
  <2> SUFFICES ASSUME NEW g \in Handle, NEW e \in Device, ~Leased(g)
               PROVE  g \in Idle(e)' <=> g \in Idle(e)
    OBVIOUS
  <2>1. g # available[d][n]
    BY <1>1 DEF Leased, LeasedTo
  <2>2. CASE e = d
    <3>1. Idle(e)' = {available[d][i] : i \in 1..(n - 1)}
      BY <1>1, <1>5, <2>2 DEF Idle
    <3>2. Idle(e) = {available[d][i] : i \in 1..n}
      BY <2>2 DEF Idle
    <3> QED
      BY <1>5, <2>1, <3>1, <3>2
  <2>3. CASE e # d
    BY <1>1, <2>3 DEF Idle
  <2> QED
    BY <2>2, <2>3
<1>7. \A g \in Handle : LeaseOwner'[g] = LeaseOwner[g] /\ LeaseHome'[g] = LeaseHome[g]
  <2> SUFFICES ASSUME NEW g \in Handle
               PROVE  LeaseOwner'[g] = LeaseOwner[g] /\ LeaseHome'[g] = LeaseHome[g]
    OBVIOUS
  <2>1. CASE Leased(g)
    BY <1>2, <1>3, <2>1 DEF LeaseFacts, Leased
  <2>2. CASE ~Leased(g) /\ Listed(g)
    BY <1>2, <1>4, <1>6, <2>2 DEF LeaseFacts, Listed
  <2>3. CASE ~Leased(g) /\ ~Listed(g)
    BY <1>2, <1>4, <1>6, <2>3 DEF LeaseFacts, Listed
  <2> QED
    BY <2>1, <2>2, <2>3
<1> QED
  BY <1>1, <1>2, <1>7 DEF LeaseFacts, PoolAlive

\* release() pushes a handle back: its lease ends and the device lists it.
LEMMA ReleaseGivesBack ==
  ASSUME PoolInv, PoolInv', NEW t \in Thread, NEW d \in Device, Release(t, d)
  PROVE  \E h \in Handle : Lease!GiveBack(t, h)
<1> DEFINE h == window[t][d]
           s == available[d]
<1>1. /\ h \in Handle /\ s \in Seq(Handle) /\ t \in strong /\ pc[t] = "exitReturn"
      /\ available \in [Device -> Seq(Handle)]
      /\ window \in [Thread -> [Device -> Handle \cup {NoHandle}]]
      /\ available' = [available EXCEPT ![d] = Append(s, h)]
      /\ window' = [window EXCEPT ![t][d] = NoHandle]
      /\ UNCHANGED <<poolRef, strong>>
  BY DEF PoolInv, TypeOK, Locking, Release
<1>2. LeaseFacts /\ LeaseFacts'
  BY Mapping, MappingNext DEF PoolInv
<1>3. /\ Len(Append(s, h)) = Len(s) + 1 /\ Len(s) \in Nat
      /\ \A i \in 1..Len(s) : Append(s, h)[i] = s[i]
      /\ Append(s, h)[Len(s) + 1] = h
  BY <1>1
<1>4. \A g \in Handle, e \in Device :
        g \in Idle(e)' <=> g \in Idle(e) \/ (g = h /\ e = d)
  <2> SUFFICES ASSUME NEW g \in Handle, NEW e \in Device
               PROVE  g \in Idle(e)' <=> g \in Idle(e) \/ (g = h /\ e = d)
    OBVIOUS
  <2>1. CASE e = d
    <3>1. Idle(e)' = {Append(s, h)[i] : i \in 1..(Len(s) + 1)}
      BY <1>1, <1>3, <2>1 DEF Idle
    <3>2. Idle(e) = {s[i] : i \in 1..Len(s)}
      BY <2>1 DEF Idle
    <3> HIDE DEF s, h
    <3> QED
      BY <1>3, <2>1, <3>1, <3>2
  <2>2. CASE e # d
    BY <1>1, <2>2 DEF Idle
  <2> QED
    BY <2>1, <2>2
<1>5. LeasedTo(h, t, d) /\ \A u \in Thread, e \in Device : LeasedTo(h, u, e) => u = t /\ e = d
  BY <1>1, PoolAssumption DEF PoolInv, ExclusiveLease, LeasedTo
<1>6. \A g \in Handle, u \in Thread, e \in Device :
        LeasedTo(g, u, e)' <=> LeasedTo(g, u, e) /\ g # h
  BY <1>1, <1>5, PoolAssumption DEF LeasedTo
<1> HIDE DEF h, s
<1>7. \A g \in Handle :
        /\ LeaseOwner'[g] = IF g = h THEN Free ELSE LeaseOwner[g]
        /\ LeaseHome'[g] = LeaseHome[g]
  <2> SUFFICES ASSUME NEW g \in Handle
               PROVE  /\ LeaseOwner'[g] = IF g = h THEN Free ELSE LeaseOwner[g]
                      /\ LeaseHome'[g] = LeaseHome[g]
    OBVIOUS
  <2>1. CASE g = h
    BY <1>1, <1>2, <1>4, <1>5, <1>6, <2>1 DEF LeaseFacts, Leased
  <2>2. CASE g # h /\ Leased(g)
    BY <1>2, <1>6, <2>2 DEF LeaseFacts, Leased
  <2>3. CASE g # h /\ ~Leased(g) /\ Listed(g)
    BY <1>2, <1>4, <1>6, <2>3 DEF LeaseFacts, Leased, Listed
  <2>4. CASE g # h /\ ~Leased(g) /\ ~Listed(g)
    BY <1>2, <1>4, <1>6, <2>4 DEF LeaseFacts, Leased, Listed
  <2> QED
    BY <2>1, <2>2, <2>3, <2>4
<1>8. LeaseOwner' = [LeaseOwner EXCEPT ![h] = Free] /\ LeaseHome' = LeaseHome
  BY <1>2, <1>7 DEF LeaseFacts
<1>9. LeaseOwner[h] = t
  BY <1>1, <1>2, <1>5 DEF LeaseFacts
<1>10. PoolAlive /\ PoolAlive' = PoolAlive
  BY <1>1 DEF PoolAlive
<1>11. Lease!GiveBack(t, h)
  BY <1>8, <1>9, <1>10 DEF Lease!GiveBack
<1> QED
  BY <1>1, <1>11

\* The pool dies with its last strong reference, and the lists with it; the
\* windows keep what they cache.
LEMMA LastReferenceCloses ==
  ASSUME PoolInv, PoolInv', PoolAlive, Outlives(poolRef', strong'), UNCHANGED window
  PROVE  Lease!Close \/ UNCHANGED <<LeaseOwner, LeaseHome, PoolAlive>>
<1>1. CASE Survives(poolRef', strong')
  <2>1. UNCHANGED <<window, available>> /\ PoolAlive'
    BY <1>1 DEF Outlives, Survives, PoolAlive
  <2> QED
    BY <2>1, SameLeases
<1>2. CASE ~Survives(poolRef', strong')
  <2>1. /\ available' = [d \in Device |-> <<>>]
        /\ PoolAlive' = FALSE
    BY <1>2 DEF Outlives, Survives, PoolAlive
  <2>2. LeaseFacts /\ LeaseFacts'
    BY Mapping, MappingNext DEF PoolInv
  <2>3. \A g, u, e : LeasedTo(g, u, e)' <=> LeasedTo(g, u, e)
    BY DEF LeasedTo
  <2>4. \A g \in Handle : Leased(g)' <=> Leased(g)
    BY <2>3 DEF Leased
  <2>5. \A e \in Device : Idle(e)' = {}
    BY <2>1 DEF Idle
  <2>6. \A g \in Handle : ~Listed(g)'
    BY <2>5 DEF Listed
  <2>7. \A g \in Handle : Leased(g) => LeaseOwner[g] \in Thread
    BY <2>2 DEF LeaseFacts, Leased
  <2>8. \A g \in Handle :
          /\ LeaseOwner'[g] = IF LeaseOwner[g] = Free THEN Absent ELSE LeaseOwner[g]
          /\ LeaseHome'[g] = IF LeaseOwner[g] = Free THEN Absent ELSE LeaseHome[g]
    <3> SUFFICES ASSUME NEW g \in Handle
                 PROVE  /\ LeaseOwner'[g] = IF LeaseOwner[g] = Free THEN Absent ELSE LeaseOwner[g]
                        /\ LeaseHome'[g] = IF LeaseOwner[g] = Free THEN Absent ELSE LeaseHome[g]
      OBVIOUS
    <3>1. CASE Leased(g)
      <4>1. LeaseOwner[g] # Free
        BY <2>7, <3>1, PoolAssumption
      <4>2. PICK u \in Thread, e \in Device : LeasedTo(g, u, e)
        BY <3>1 DEF Leased
      <4>3. LeasedTo(g, u, e)'
        BY <2>3, <4>2
      <4> QED
        BY <2>2, <4>1, <4>2, <4>3 DEF LeaseFacts
    <3>2. CASE ~Leased(g)
      <4>1. LeaseOwner'[g] = Absent /\ LeaseHome'[g] = Absent
        BY <2>2, <2>4, <2>6, <3>2 DEF LeaseFacts
      <4>2. CASE Listed(g)
        BY <2>2, <3>2, <4>1, <4>2 DEF LeaseFacts, Listed
      <4>3. CASE ~Listed(g)
        BY <2>2, <3>2, <4>1, <4>3 DEF LeaseFacts
      <4> QED
        BY <4>2, <4>3
    <3> QED
      BY <3>1, <3>2
  <2>9. LeaseOwner' = [g \in Handle |-> IF LeaseOwner[g] = Free THEN Absent ELSE LeaseOwner[g]]
    <3>1. LeaseOwner' = [g \in Handle |-> LeaseOwner'[g]]
      BY <2>2 DEF LeaseFacts
    <3> QED
      BY <2>8, <3>1
  <2>10. LeaseHome' = [g \in Handle |-> IF LeaseOwner[g] = Free THEN Absent ELSE LeaseHome[g]]
    <3>1. LeaseHome' = [g \in Handle |-> LeaseHome'[g]]
      BY <2>2 DEF LeaseFacts
    <3> QED
      BY <2>8, <3>1
  <2> QED
    BY <2>1, <2>9, <2>10 DEF Lease!Close
<1> QED
  BY <1>1, <1>2

\* A thread that ends after the pool takes its leases with it.
LEMMA LateReleaseAbandons ==
  ASSUME PoolInv, PoolInv', NEW t \in Thread, ReleaseLockParent(t)
  PROVE  Lease!Abandon(t) \/ UNCHANGED <<LeaseOwner, LeaseHome, PoolAlive>>
<1>1. CASE PoolAlive
  <2>1. UNCHANGED <<window, available, poolRef>> /\ strong' = strong \cup {t}
    BY <1>1 DEF ReleaseLockParent
  <2> QED
    BY <1>1, <2>1, SameLeases DEF PoolAlive
<1>2. CASE ~PoolAlive
  <2>1. /\ pc[t] = "exitLookup"
        /\ window \in [Thread -> [Device -> Handle \cup {NoHandle}]]
        /\ window' = [window EXCEPT ![t] = EmptyWindow]
        /\ UNCHANGED <<available, poolRef, strong>>
    BY <1>2 DEF PoolInv, TypeOK, ReleaseLockParent
  <2>2. LeaseFacts /\ LeaseFacts'
    BY Mapping, MappingNext DEF PoolInv
  <2>3. \A g \in Handle, u \in Thread, e \in Device :
          LeasedTo(g, u, e)' <=> LeasedTo(g, u, e) /\ u # t
    BY <2>1, PoolAssumption DEF LeasedTo, EmptyWindow
  <2>4. \A e \in Device : Idle(e)' = Idle(e)
    BY <2>1 DEF Idle
  <2>5. \A g \in Handle, e \in Device : LeasedTo(g, t, e) => ~Listed(g)
    BY <2>1 DEF PoolInv, ExclusiveLease, LeasedTo, Listed, Idle
  <2>6. PoolAlive = FALSE /\ PoolAlive' = PoolAlive
    BY <1>2, <2>1 DEF PoolAlive
  <2>7. \A g \in Handle :
          /\ LeaseOwner'[g] = IF LeaseOwner[g] = t THEN Absent ELSE LeaseOwner[g]
          /\ LeaseHome'[g] = IF LeaseOwner[g] = t THEN Absent ELSE LeaseHome[g]
    <3> SUFFICES ASSUME NEW g \in Handle
                 PROVE  /\ LeaseOwner'[g] = IF LeaseOwner[g] = t THEN Absent ELSE LeaseOwner[g]
                        /\ LeaseHome'[g] = IF LeaseOwner[g] = t THEN Absent ELSE LeaseHome[g]
      OBVIOUS
    <3>1. CASE \E e \in Device : LeasedTo(g, t, e)
      <4>1. LeaseOwner[g] = t
        BY <2>2, <3>1 DEF LeaseFacts
      <4>2. ~Listed(g)'
        BY <2>4, <2>5, <3>1 DEF Listed
      <4>3. ~Leased(g)'
        BY <2>1, <2>2, <2>3, <4>1 DEF LeaseFacts, Leased
      <4> QED
        BY <2>2, <4>1, <4>2, <4>3 DEF LeaseFacts
    <3>2. CASE Leased(g) /\ ~\E e \in Device : LeasedTo(g, t, e)
      <4>1. PICK u \in Thread, e \in Device : LeasedTo(g, u, e)
        BY <3>2 DEF Leased
      <4>2. u # t
        BY <3>2, <4>1
      <4>3. LeasedTo(g, u, e)'
        BY <2>3, <4>1, <4>2
      <4> QED
        BY <2>2, <4>1, <4>2, <4>3 DEF LeaseFacts
    <3>3. CASE ~Leased(g)
      <4>1. ~Leased(g)' /\ (Listed(g)' <=> Listed(g))
        BY <2>3, <2>4, <3>3 DEF Leased, Listed
      <4>2. LeaseOwner[g] # t
        BY <2>2, <3>3, PoolAssumption DEF LeaseFacts, Listed
      <4>3. LeaseOwner'[g] = LeaseOwner[g] /\ LeaseHome'[g] = LeaseHome[g]
        <5>1. CASE Listed(g)
          BY <2>2, <2>4, <3>3, <4>1, <5>1 DEF LeaseFacts, Listed
        <5>2. CASE ~Listed(g)
          BY <2>2, <3>3, <4>1, <5>2 DEF LeaseFacts
        <5> QED
          BY <5>1, <5>2
      <4> QED
        BY <4>2, <4>3
    <3> QED
      BY <3>1, <3>2, <3>3 DEF Leased
  <2>8. LeaseOwner' = [g \in Handle |-> IF LeaseOwner[g] = t THEN Absent ELSE LeaseOwner[g]]
    <3>1. LeaseOwner' = [g \in Handle |-> LeaseOwner'[g]]
      BY <2>2 DEF LeaseFacts
    <3> QED
      BY <2>7, <3>1
  <2>9. LeaseHome' = [g \in Handle |-> IF LeaseOwner[g] = t THEN Absent ELSE LeaseHome[g]]
    <3>1. LeaseHome' = [g \in Handle |-> LeaseHome'[g]]
      BY <2>2 DEF LeaseFacts
    <3> QED
      BY <2>7, <3>1
  <2> QED
    BY <2>6, <2>8, <2>9 DEF Lease!Abandon
<1> QED
  BY <1>1, <1>2
-----------------------------------------------------------------------------
\* Init maps to the initial state of the leases.
LEMMA LeaseInitially == Init => Lease!LeaseInit
<1> SUFFICES ASSUME Init PROVE Lease!LeaseInit
  OBVIOUS
<1>1. \A d \in Device : Held(d) = {} /\ Idle(d) = {}
  BY DEF Init, Held, Idle, EmptyWindow
<1>2. \A h \in Handle, t \in Thread, d \in Device : ~LeasedTo(h, t, d)
  BY PoolAssumption DEF Init, LeasedTo, EmptyWindow
<1>3. \A h \in Handle : LeaseOwner[h] = Absent /\ LeaseHome[h] = Absent
  BY <1>1, <1>2 DEF LeaseOwner, LeaseHome
<1>4. /\ LeaseOwner = [h \in Handle |-> LeaseOwner[h]]
      /\ LeaseHome = [h \in Handle |-> LeaseHome[h]]
  BY DEF LeaseOwner, LeaseHome
<1>5. LeaseOwner = [h \in Handle |-> Absent]
  BY <1>3, <1>4
<1>6. LeaseHome = [h \in Handle |-> Absent]
  BY <1>3, <1>4
<1> QED
  BY <1>5, <1>6 DEF Lease!LeaseInit, PoolAlive, Init

\* A step of a call or of the end of a thread is a step of the leases or none.
LEMMA WorkMaps ==
  ASSUME PoolInv, PoolInv', NEW t \in Thread, Work(t)
  PROVE  Lease!LeaseNext \/ UNCHANGED Lease!leaseVars
<1> USE DEF Lease!LeaseNext, Lease!leaseVars
<1>1. CASE LockParent(t)
  <2>1. UNCHANGED <<window, available>> /\ UNCHANGED PoolAlive
    BY <1>1 DEF LockParent, PoolAlive
  <2> QED
    BY <2>1, SameLeases
<1>2. CASE LockMutex(t) \/ CreateFails(t) \/ SetStream(t) \/ KernelReturns(t) \/ ReleaseDone(t)
  <2>1. UNCHANGED <<window, available, poolRef, strong>>
    BY <1>2 DEF LockMutex, CreateFails, SetStream, KernelReturns, ReleaseDone
  <2> QED
    BY <2>1, SameLeases DEF PoolAlive
<1>3. CASE TakeAvailable(t)
  <2>1. device[t] \in Device
    BY DEF PoolInv, TypeOK
  <2> QED
    BY <1>3, <2>1, TakeGrants
<1>4. CASE PopAvailable(t)
  BY <1>4, PopKeepsLeases
<1>5. ASSUME NEW h \in Handle, CreateHandle(t, h)
      PROVE  Lease!LeaseNext
  <2>1. device[t] \in Device
    BY DEF PoolInv, TypeOK
  <2> QED
    BY <1>5, <2>1, CreateGrantsNew
<1>6. CASE DropParent(t)
  <2>1. PoolAlive /\ Outlives(poolRef', strong') /\ UNCHANGED window
    BY <1>6 DEF DropParent, PoolAlive, PoolInv, Locking
  <2> QED
    BY <2>1, LastReferenceCloses
<1>7. CASE ReleaseLockParent(t)
  BY <1>7, LateReleaseAbandons
<1>8. ASSUME NEW d \in Device, Release(t, d) PROVE Lease!LeaseNext
  BY <1>8, ReleaseGivesBack
<1> QED
  BY <1>1, <1>2, <1>3, <1>4, <1>5, <1>6, <1>7, <1>8 DEF Work

\* Every step of the pool maps to a step of the leases or to a stutter.
LEMMA NextMaps ==
  PoolInv /\ PoolInv' /\ [Next]_vars => [Lease!LeaseNext]_(Lease!leaseVars)
<1> SUFFICES ASSUME PoolInv, PoolInv', [Next]_vars
             PROVE  Lease!LeaseNext \/ UNCHANGED Lease!leaseVars
  OBVIOUS
<1>1. ASSUME NEW t \in Thread,
             \/ NewPoolWindow(t) \/ ThreadExit(t) \/ NewThread(t)
             \/ \E d \in Device : SetDevice(t, d)
             \/ \E s \in Stream : GetMudnnHandle(t, s)
      PROVE  UNCHANGED Lease!leaseVars
  <2>1. UNCHANGED <<window, available, poolRef, strong>>
    BY <1>1 DEF NewPoolWindow, ThreadExit, NewThread, SetDevice, GetMudnnHandle
  <2> QED
    BY <2>1, SameLeases DEF PoolAlive, Lease!leaseVars
<1>2. CASE ProgramExit
  <2>1. PoolAlive /\ Outlives(poolRef', strong') /\ UNCHANGED window
    BY <1>2 DEF ProgramExit, PoolAlive
  <2> QED
    BY <2>1, LastReferenceCloses DEF Lease!LeaseNext, Lease!leaseVars
<1>3. CASE UNCHANGED vars
  BY <1>3, SameLeases DEF vars, PoolAlive, Lease!leaseVars
<1> QED
  BY <1>1, <1>2, <1>3, WorkMaps DEF Next

\* Whatever the threads do and whenever the program ends, a kernel sees no
\* more of reserve() and release() than the granting and returning of leases.
THEOREM LeaseImplemented == Spec => ImplementsLease
<1>1. Init => Lease!LeaseInit
  BY LeaseInitially
<1>2. PoolInv /\ PoolInv' /\ [Next]_vars => [Lease!LeaseNext]_(Lease!leaseVars)
  BY NextMaps
<1> QED
  BY <1>1, <1>2, PoolInvariant, PTL DEF Spec, ImplementsLease, Lease!LeaseSpec
=============================================================================
