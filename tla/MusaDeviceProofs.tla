----------------------------- MODULE MusaDeviceProofs -----------------------------
(***************************************************************************)
(* For any number of threads, devices, streams and events: the device      *)
(* handler keeps its streams on their devices and does the work of every   *)
(* stream in the order it was asked for, although its copies leave the     *)
(* stream for the default one.                                             *)
(***************************************************************************)
EXTENDS MusaDevice, SequenceTheorems, TLAPS

StreamRecord == [device : Device, blocking : BOOLEAN]
WorkRecord == [device : Device, on : Queue, for : Queue, after : Nat]

\* The work that a caller put on a stream is on that stream or on the default
\* stream of its device; every stream is blocking.
WorkPlaced ==
  \A n \in DOMAIN work :
    \/ /\ work[n].for \in Stream
       /\ Made(work[n].for)
       /\ work[n].device = asked[work[n].for]
       /\ work[n].on = work[n].for \/ OnDefault(n)
    \/ work[n].for = Default(work[n].device) /\ OnDefault(n)
AllBlocking == \A s \in Stream : Made(s) => stream[s].blocking

\* TypeOK without the calls' waits.
Typed ==
  /\ current \in [Thread -> Device]
  /\ stream \in [Stream -> StreamRecord \cup {Absent}]
  /\ asked \in [Stream -> Device \cup {Absent}]
  /\ event \in [Event -> 0..Len(work)]
  /\ work \in Seq(WorkRecord)
  /\ pending \subseteq DOMAIN work

IInv == Typed /\ StreamsOK /\ WorkOK /\ WorkPlaced /\ AllBlocking

\* What a step that puts no work anywhere leaves alone.
LEMMA IdleStep ==
  ASSUME IInv, UNCHANGED <<stream, asked, event, work>>,
         current' \in [Thread -> Device], pending' \subseteq pending
  PROVE  IInv'
BY DEF IInv, Typed, StreamsOK, WorkOK, WorkPlaced, AllBlocking, Made, OnDefault, Default

\* One more piece of work, on its stream or on the default stream.
LEMMA EnqueueStep ==
  ASSUME IInv, UNCHANGED <<stream, asked>>, current' \in [Thread -> Device],
         NEW d \in Device, NEW on \in Queue, NEW for \in Queue, NEW after \in 0..Len(work),
         Enqueue(d, on, for, after),
         event' \in [Event -> 0..Len(work')],
         \/ /\ for \in Stream /\ Made(for) /\ asked[for] = d
            /\ on = for \/ on = Default(d)
         \/ for = Default(d) /\ on = Default(d)
  PROVE  IInv'
<1> DEFINE new == [device |-> d, on |-> on, for |-> for, after |-> after]
<1>1. /\ new \in WorkRecord
      /\ work \in Seq(WorkRecord)
      /\ work' = Append(work, new)
      /\ pending' = pending \cup {Len(work) + 1}
  BY DEF IInv, Typed, WorkRecord, Enqueue, Last
<1>2. /\ work' \in Seq(WorkRecord)
      /\ Len(work') = Len(work) + 1
      /\ DOMAIN work' = DOMAIN work \cup {Len(work) + 1}
      /\ \A n \in DOMAIN work : work'[n] = work[n]
      /\ work'[Len(work) + 1] = new
      /\ Len(work) \in Nat
      /\ DOMAIN work = 1..Len(work)
  <2> HIDE DEF new
  <2> QED  BY <1>1
<1>3. /\ new.device = d
      /\ new.on = on
      /\ new.for = for
      /\ new.after = after
  OBVIOUS
<1> HIDE DEF new
<1>4. Typed'
  BY <1>1, <1>2 DEF IInv, Typed
<1>5. StreamsOK' /\ AllBlocking'
  BY DEF IInv, StreamsOK, AllBlocking, Made
<1>6. WorkOK'
  <2> SUFFICES ASSUME NEW n \in DOMAIN work'
               PROVE  /\ work'[n].after < n
                      /\ \/ work'[n].on = Default(work'[n].device)
                         \/ /\ stream[work'[n].on] # Absent
                            /\ stream[work'[n].on].device = work'[n].device
    BY DEF WorkOK, OnDefault, Made
  <2>1. CASE n \in DOMAIN work
    BY <1>2, <2>1 DEF IInv, WorkOK, OnDefault, Made
  <2>2. CASE n = Len(work) + 1
    <3>1. after < Len(work) + 1
      BY <1>2
    <3>2. on = Default(d) \/ (stream[on] # Absent /\ stream[on].device = d)
      BY DEF IInv, StreamsOK, Made
    <3> QED  BY <1>2, <1>3, <2>2, <3>1, <3>2
  <2> QED  BY <1>2, <2>1, <2>2
<1>7. WorkPlaced'
  <2> SUFFICES ASSUME NEW n \in DOMAIN work'
               PROVE  \/ /\ work'[n].for \in Stream
                         /\ stream[work'[n].for] # Absent
                         /\ work'[n].device = asked[work'[n].for]
                         /\ \/ work'[n].on = work'[n].for
                            \/ work'[n].on = Default(work'[n].device)
                      \/ /\ work'[n].for = Default(work'[n].device)
                         /\ work'[n].on = Default(work'[n].device)
    BY DEF WorkPlaced, OnDefault, Made
  <2>1. CASE n \in DOMAIN work
    BY <1>2, <2>1 DEF IInv, WorkPlaced, OnDefault, Made
  <2>2. CASE n = Len(work) + 1
    BY <1>2, <1>3, <2>2 DEF Made
  <2> QED  BY <1>2, <2>1, <2>2
<1> QED  BY <1>4, <1>5, <1>6, <1>7 DEF IInv

\* A stream that is created: no work is on it, and none is asked for on it.
LEMMA CreateStep ==
  ASSUME IInv, UNCHANGED <<event, work, pending>>, current' \in [Thread -> Device],
         NEW d \in Device, NEW s \in Stream, ~Made(s),
         stream' = [stream EXCEPT ![s] = [device |-> d, blocking |-> TRUE]],
         asked' = [asked EXCEPT ![s] = d]
  PROVE  IInv'
<1> DEFINE new == [device |-> d, blocking |-> TRUE]
<1>1. /\ new \in StreamRecord
      /\ new.device = d
      /\ new.blocking = TRUE
      /\ new # Absent
      /\ stream' = [stream EXCEPT ![s] = new]
      /\ stream \in [Stream -> StreamRecord \cup {Absent}]
      /\ asked \in [Stream -> Device \cup {Absent}]
  <2>1. new \in StreamRecord /\ new.device = d /\ new.blocking = TRUE
    BY DEF StreamRecord
  <2>2. Absent \notin StreamRecord
    BY AbsentAssumption, Zenon DEF StreamRecord
  <2> HIDE DEF new
  <2>3. new # Absent
    BY <2>1, <2>2
  <2>4. stream' = [stream EXCEPT ![s] = new]
    BY DEF new
  <2> QED  BY <2>1, <2>3, <2>4 DEF IInv, Typed
<1>2. /\ stream' \in [Stream -> StreamRecord \cup {Absent}]
      /\ asked' \in [Stream -> Device \cup {Absent}]
      /\ stream'[s] = new
      /\ asked'[s] = d
      /\ \A r \in Stream : r # s => stream'[r] = stream[r] /\ asked'[r] = asked[r]
  <2> HIDE DEF new
  <2> QED  BY <1>1
<1> HIDE DEF new
<1>3. Typed'
  BY <1>2 DEF IInv, Typed
<1>4. StreamsOK'
  <2> SUFFICES ASSUME NEW r \in Stream
               PROVE  IF stream'[r] # Absent
                        THEN stream'[r].device = asked'[r]
                        ELSE asked'[r] = Absent
    BY DEF StreamsOK, Made
  <2>1. CASE r = s
    BY <1>1, <1>2, <2>1, Zenon
  <2>2. CASE r # s
    <3>1. stream'[r] = stream[r] /\ asked'[r] = asked[r]
      BY <1>2, <2>2, Zenon
    <3>2. IF stream[r] # Absent THEN stream[r].device = asked[r] ELSE asked[r] = Absent
      BY Zenon DEF IInv, StreamsOK, Made
    <3> QED  BY <3>1, <3>2, Zenon
  <2> QED  BY <2>1, <2>2, Zenon
<1>5. AllBlocking'
  <2> SUFFICES ASSUME NEW r \in Stream, stream'[r] # Absent
               PROVE  stream'[r].blocking
    BY DEF AllBlocking, Made
  <2>1. CASE r = s
    BY <1>1, <1>2, <2>1, Zenon
  <2>2. CASE r # s
    BY <1>2, <2>2, Zenon DEF IInv, AllBlocking, Made
  <2> QED  BY <2>1, <2>2
<1>6. WorkPlaced'
  BY <1>2 DEF IInv, WorkPlaced, OnDefault, Made
<1>7. WorkOK'
  <2> SUFFICES ASSUME NEW n \in DOMAIN work
               PROVE  /\ work[n].after < n
                      /\ \/ OnDefault(n)
                         \/ /\ stream'[work[n].on] # Absent
                            /\ stream'[work[n].on].device = work[n].device
    BY DEF WorkOK, OnDefault, Made
  <2>1. CASE OnDefault(n)
    BY <2>1 DEF IInv, WorkOK
  <2>2. CASE ~OnDefault(n)
    <3>1. work[n].on \in Stream /\ Made(work[n].on)
      BY <2>2 DEF IInv, WorkPlaced
    <3>2. work[n].on # s
      BY <3>1
    <3> QED  BY <1>2, <2>2, <3>1, <3>2 DEF IInv, WorkOK, Made
  <2> QED  BY <2>1, <2>2
<1> QED  BY <1>3, <1>4, <1>5, <1>6, <1>7 DEF IInv

\* The device handed to musaSetDevice is a device.
LEMMA SetDeviceStep ==
  ASSUME IInv, NEW t \in Thread, NEW d \in Device, SetDevice(t, d)
  PROVE  current' \in [Thread -> Device]
BY DEF IInv, Typed, SetDevice

LEMMA MadeOnDevice ==
  ASSUME IInv, NEW s \in Stream, Made(s)
  PROVE  asked[s] \in Device /\ stream[s].device = asked[s]
BY DEF IInv, Typed, StreamsOK, Made, StreamRecord

LEMMA QueueMembers ==
  /\ \A s \in Stream : s \in Queue
  /\ \A d \in Device : Default(d) \in Queue
BY DEF Queue

\* An event that is recorded, or left alone, stays within the work.
LEMMA EventStep ==
  ASSUME IInv, NEW d \in Device, NEW on \in Queue, NEW for \in Queue, NEW after \in 0..Len(work),
         Enqueue(d, on, for, after)
  PROVE  /\ event \in [Event -> 0..Len(work')]
         /\ \A e \in Event : [event EXCEPT ![e] = Last] \in [Event -> 0..Len(work')]
<1>1. /\ event \in [Event -> 0..Len(work)]
      /\ Len(work) \in Nat
  BY DEF IInv, Typed
<1>2. Len(work') = Len(work) + 1
  <2>1. work \in Seq(WorkRecord)
    BY DEF IInv, Typed
  <2> DEFINE new == [device |-> d, on |-> on, for |-> for, after |-> after]
  <2>2. new \in WorkRecord /\ work' = Append(work, new)
    BY <1>1 DEF WorkRecord, Enqueue
  <2> HIDE DEF new
  <2> QED  BY <2>1, <2>2
<1> QED  BY <1>1, <1>2 DEF Last

\* The calls of a thread preserve the invariant.
LEMMA CallsPreserve ==
  ASSUME IInv, NEW t \in Thread, Calls(t)
  PROVE  IInv'
<1>1. CASE \E d \in Device : SetMusaDevice(t, d)
  BY <1>1, IdleStep, SetDeviceStep DEF SetMusaDevice
<1>2. CASE \E d \in Device : MemCpy(t, d)
  <2> PICK d \in Device : MemCpy(t, d)
    BY <1>2
  <2>1. /\ current' \in [Thread -> Device]
        /\ Enqueue(d, Default(d), Default(d), 0)
        /\ UNCHANGED <<stream, asked, event>>
        /\ 0 \in 0..Len(work)
    BY SetDeviceStep DEF MemCpy, IInv, Typed
  <2> QED  BY <2>1, QueueMembers, EventStep, EnqueueStep
<1>3. CASE \E d \in Device : SyncMusaDevice(t, d)
  BY <1>3, IdleStep, SetDeviceStep DEF SyncMusaDevice
<1>4. CASE \E s \in Stream, d \in Device : CreateMusaStream(t, d, s)
  BY <1>4, CreateStep, SetDeviceStep DEF CreateMusaStream
<1>5. CASE \E s \in Stream : Kernel(t, s)
  <2> PICK s \in Stream : Kernel(t, s)
    BY <1>5
  <2>1. /\ current' \in [Thread -> Device]
        /\ current[t] \in Device
        /\ Made(s)
        /\ asked[s] = current[t]
        /\ Enqueue(current[t], s, s, 0)
        /\ UNCHANGED <<stream, asked, event>>
        /\ 0 \in 0..Len(work)
    BY MadeOnDevice DEF Kernel, IInv, Typed
  <2> QED  BY <2>1, QueueMembers, EventStep, EnqueueStep
<1>6. CASE \E s \in Stream : MusaMemCpyP2PAsync(t, s)
  <2> PICK s \in Stream : MusaMemCpyP2PAsync(t, s)
    BY <1>6
  <2>1. /\ current' \in [Thread -> Device]
        /\ asked[s] \in Device
        /\ Made(s)
        /\ Enqueue(asked[s], s, s, 0)
        /\ UNCHANGED <<stream, asked, event>>
        /\ 0 \in 0..Len(work)
    BY MadeOnDevice DEF MusaMemCpyP2PAsync, IInv, Typed
  <2> QED  BY <2>1, QueueMembers, EventStep, EnqueueStep
<1>7. CASE \E s \in Stream : SyncMusaStream(t, s)
  BY <1>7, IdleStep, SetDeviceStep, MadeOnDevice DEF SyncMusaStream
<1>8. CASE \E s \in Stream, pageable \in BOOLEAN : MemCpyAsync(t, s, pageable)
  <2> PICK s \in Stream, pageable \in BOOLEAN : MemCpyAsync(t, s, pageable)
    BY <1>8
  <2>1. /\ Made(s)
        /\ SetDevice(t, asked[s])
        /\ Enqueue(asked[s], Default(asked[s]), s, 0)
        /\ UNCHANGED <<stream, asked, event>>
    BY DEF MemCpyAsync
  <2>2. /\ asked[s] \in Device
        /\ 0 \in 0..Len(work)
    BY <2>1, MadeOnDevice DEF IInv, Typed
  <2>3. current' \in [Thread -> Device]
    BY <2>1, <2>2, SetDeviceStep
  <2> QED  BY <2>1, <2>2, <2>3, QueueMembers, EventStep, EnqueueStep
<1>9. CASE \E s \in Stream, e \in Event : RecordMusaEvent(t, s, e)
  <2> PICK s \in Stream, e \in Event : RecordMusaEvent(t, s, e)
    BY <1>9
  <2>1. /\ Made(s)
        /\ SetDevice(t, asked[s])
        /\ Enqueue(asked[s], s, s, 0)
        /\ event' = [event EXCEPT ![e] = Last]
        /\ UNCHANGED <<stream, asked>>
    BY MadeOnDevice DEF RecordMusaEvent
  <2>2. /\ asked[s] \in Device
        /\ 0 \in 0..Len(work)
    BY <2>1, MadeOnDevice DEF IInv, Typed
  <2>3. current' \in [Thread -> Device]
    BY <2>1, <2>2, SetDeviceStep
  <2> QED  BY <2>1, <2>2, <2>3, QueueMembers, EventStep, EnqueueStep
<1>10. CASE \E s \in Stream, e \in Event : MusaStreamWaitEvent(t, s, e)
  <2> PICK s \in Stream, e \in Event : MusaStreamWaitEvent(t, s, e)
    BY <1>10
  <2>1. /\ Made(s)
        /\ SetDevice(t, asked[s])
        /\ Enqueue(asked[s], s, s, event[e])
        /\ UNCHANGED <<stream, asked, event>>
    BY MadeOnDevice DEF MusaStreamWaitEvent
  <2>2. /\ asked[s] \in Device
        /\ event[e] \in 0..Len(work)
    BY <2>1, MadeOnDevice DEF IInv, Typed
  <2>3. current' \in [Thread -> Device]
    BY <2>1, <2>2, SetDeviceStep
  <2> QED  BY <2>1, <2>2, <2>3, QueueMembers, EventStep, EnqueueStep
<1>11. CASE \E e \in Event : SyncMusaEvent(t, e)
  BY <1>11, IdleStep, SetDeviceStep DEF SyncMusaEvent
<1>12. CASE SyncReturns(t)
  BY <1>12, IdleStep DEF SyncReturns, IInv, Typed
<1> QED
  BY <1>1, <1>2, <1>3, <1>4, <1>5, <1>6, <1>7, <1>8, <1>9, <1>10, <1>11, <1>12, Zenon DEF Calls

\* The invariant of the handler: streams and work are where they were asked for.
THEOREM DeviceInvariant == Spec => []IInv
<1>1. Init => IInv
  BY DEF Init, IInv, Typed, StreamsOK, WorkOK, WorkPlaced, AllBlocking, Made
<1>2. IInv /\ [Next]_vars => IInv'
  <2> SUFFICES ASSUME IInv, [Next]_vars
               PROVE  IInv'
    OBVIOUS
  <2>1. CASE \E t \in Thread : Calls(t)
    BY <2>1, CallsPreserve
  <2>2. CASE \E n \in pending : Execute(n)
    BY <2>2, IdleStep DEF Execute, IInv, Typed
  <2>3. CASE UNCHANGED vars
    BY <2>3, IdleStep DEF vars, IInv, Typed
  <2> QED  BY <2>1, <2>2, <2>3 DEF Next
<1> QED  BY <1>1, <1>2, PTL DEF Spec
-----------------------------------------------------------------------------
AskRecord == [stream : Queue, after : Nat]

\* The work as the abstract specification sees it: a sequence of the same
\* length, to which new work is appended.
LEMMA AsAskedSequence ==
  ASSUME NEW w \in Seq(WorkRecord)
  PROVE  /\ AsAsked(w) \in Seq(AskRecord)
         /\ Len(AsAsked(w)) = Len(w)
         /\ \A n \in 1..Len(w) : AsAsked(w)[n] = [stream |-> w[n].for, after |-> w[n].after]
<1>1. DOMAIN w = 1..Len(w) /\ Len(w) \in Nat
  OBVIOUS
<1>2. \A n \in 1..Len(w) : w[n] \in WorkRecord
  OBVIOUS
<1>3. \A n \in 1..Len(w) : [stream |-> w[n].for, after |-> w[n].after] \in AskRecord
  BY <1>2 DEF WorkRecord, AskRecord
<1>4. AsAsked(w) \in [1..Len(w) -> AskRecord]
  BY <1>1, <1>3 DEF AsAsked
<1>5. AsAsked(w) \in Seq(AskRecord)
  BY <1>1, <1>4, SeqDef
<1>6. DOMAIN AsAsked(w) = 1..Len(w)
  BY <1>1 DEF AsAsked
<1>7. Len(AsAsked(w)) = Len(w)
  BY <1>1, <1>5, <1>6, LenProperties
<1>8. \A n \in 1..Len(w) : AsAsked(w)[n] = [stream |-> w[n].for, after |-> w[n].after]
  BY <1>1 DEF AsAsked
<1> QED  BY <1>5, <1>7, <1>8

LEMMA EnqueueIssues ==
  ASSUME IInv, NEW d \in Device, NEW on \in Queue, NEW for \in Queue, NEW after \in 0..Len(work),
         Enqueue(d, on, for, after)
  PROVE  Streams!Next
<1> DEFINE new == [device |-> d, on |-> on, for |-> for, after |-> after]
<1> DEFINE ask == [stream |-> for, after |-> after]
<1>1. /\ work \in Seq(WorkRecord)
      /\ Len(work) \in Nat
      /\ new \in WorkRecord
      /\ ask \in AskRecord
      /\ work' = Append(work, new)
      /\ pending' = pending \cup {Len(work) + 1}
  BY DEF IInv, Typed, WorkRecord, AskRecord, Enqueue, Last
<1>2. new.for = for /\ new.after = after
  OBVIOUS
<1> HIDE DEF new
<1>3. /\ work' \in Seq(WorkRecord)
      /\ Len(work') = Len(work) + 1
      /\ \A n \in 1..Len(work) : work'[n] = work[n]
      /\ work'[Len(work) + 1] = new
  BY <1>1
<1>4. ask = [stream |-> new.for, after |-> new.after]
  BY <1>2
<1> HIDE DEF ask
<1> DEFINE now == AsAsked(work)
<1> DEFINE then == AsAsked(work')
<1>5. /\ now \in Seq(AskRecord)
      /\ Len(now) = Len(work)
      /\ \A n \in 1..Len(work) : now[n] = [stream |-> work[n].for, after |-> work[n].after]
  BY <1>1, AsAskedSequence
<1>6. /\ then \in Seq(AskRecord)
      /\ Len(then) = Len(work')
      /\ \A n \in 1..Len(work') : then[n] = [stream |-> work'[n].for, after |-> work'[n].after]
  BY <1>3, AsAskedSequence
<1>7. /\ Append(now, ask) \in Seq(AskRecord)
      /\ Len(Append(now, ask)) = Len(work) + 1
      /\ \A n \in 1..Len(work) : Append(now, ask)[n] = now[n]
      /\ Append(now, ask)[Len(work) + 1] = ask
  <2> HIDE DEF now
  <2> QED  BY <1>1, <1>5
<1>8. \A n \in 1..Len(then) : then[n] = Append(now, ask)[n]
  <2> SUFFICES ASSUME NEW n \in 1..Len(work')
               PROVE  then[n] = Append(now, ask)[n]
    BY <1>6
  <2> HIDE DEF now, then
  <2>1. CASE n \in 1..Len(work)
    <3>1. work'[n] = work[n]
      BY <1>3, <2>1
    <3>2. then[n] = [stream |-> work'[n].for, after |-> work'[n].after]
      BY <1>6
    <3>3. now[n] = [stream |-> work[n].for, after |-> work[n].after]
      BY <1>5, <2>1
    <3>4. Append(now, ask)[n] = now[n]
      BY <1>7, <2>1
    <3> QED  BY <3>1, <3>2, <3>3, <3>4
  <2>2. CASE n = Len(work) + 1
    BY <1>3, <1>4, <1>6, <1>7, <2>2
  <2>3. n \in 1..Len(work) \/ n = Len(work) + 1
    BY <1>1, <1>3
  <2> QED  BY <2>1, <2>2, <2>3
<1>9. then = Append(now, ask)
  <2> HIDE DEF now, then
  <2> QED  BY <1>3, <1>6, <1>7, <1>8, SeqEqual
<1>10. Streams!Issue(for, after)
  BY <1>1, <1>5, <1>9 DEF Streams!Issue, ask
<1> QED  BY <1>5, <1>10 DEF Streams!Next

\* Work that a caller put on one stream is done in its order: it is on that
\* stream or on the default stream, which order each other.
LEMMA SameStreamPrecedes ==
  ASSUME IInv, NEW m \in DOMAIN work, NEW n \in DOMAIN work, m < n,
         work[m].for = work[n].for
  PROVE  Precedes(m, n)
<1>1. /\ work[m] \in WorkRecord
      /\ work[n] \in WorkRecord
  BY DEF IInv, Typed
<1>2. work[m].device \in Device /\ work[n].device \in Device
  BY <1>1 DEF WorkRecord
<1>3. work[m].device = work[n].device
  <2>1. CASE work[m].for \in Stream
    BY <1>2, <2>1, DefaultAssumption DEF IInv, WorkPlaced
  <2>2. CASE work[m].for \notin Stream
    BY <2>2 DEF IInv, WorkPlaced, Default
  <2> QED  BY <2>1, <2>2
<1>4. Blocking(m) /\ Blocking(n)
  BY Zenon DEF IInv, WorkPlaced, AllBlocking, Blocking
<1>5. work[m].on = work[n].on \/ OnDefault(m) \/ OnDefault(n)
  BY DEF IInv, WorkPlaced
<1> QED  BY <1>3, <1>4, <1>5 DEF Precedes

LEMMA ExecuteExecutes ==
  ASSUME IInv, NEW n \in pending, Execute(n)
  PROVE  Streams!Execute(n)
<1>1. /\ work \in Seq(WorkRecord)
      /\ DOMAIN work = 1..Len(work)
      /\ pending \subseteq DOMAIN work
  BY DEF IInv, Typed
<1>2. \A m \in pending : m < n => work[m].for # work[n].for
  BY <1>1, SameStreamPrecedes DEF Execute
<1>3. \A m \in DOMAIN work :
        /\ AsAsked(work)[m].stream = work[m].for
        /\ AsAsked(work)[m].after = work[m].after
  <2> SUFFICES ASSUME NEW m \in 1..Len(work)
               PROVE  /\ AsAsked(work)[m].stream = work[m].for
                      /\ AsAsked(work)[m].after = work[m].after
    BY <1>1
  <2>1. AsAsked(work)[m] = [stream |-> work[m].for, after |-> work[m].after]
    BY <1>1, AsAskedSequence
  <2> QED  BY <2>1
<1>4. \A m \in pending : m < n => AsAsked(work)[m].stream # AsAsked(work)[n].stream
  BY <1>1, <1>2, <1>3
<1>5. AsAsked(work)[n].after \notin pending
  BY <1>1, <1>3 DEF Execute
<1> QED  BY <1>4, <1>5 DEF Execute, Streams!Execute

\* A call puts one piece of work on a stream, or none.
LEMMA CallsIssue ==
  ASSUME IInv, NEW t \in Thread, Calls(t)
  PROVE  Streams!Next \/ UNCHANGED <<work, pending>>
<1> DEFINE Issues == \E d \in Device, on \in Queue, for \in Queue, after \in 0..Len(work) :
                       Enqueue(d, on, for, after)
<1>1. Len(work) \in Nat /\ 0 \in 0..Len(work)
  BY DEF IInv, Typed
<1>2. ASSUME NEW d \in Device, MemCpy(t, d)
      PROVE  Issues
  BY <1>1, <1>2, QueueMembers DEF MemCpy
<1>3. ASSUME NEW s \in Stream, Made(s), Enqueue(stream[s].device, s, s, 0)
      PROVE  Issues
  BY <1>1, <1>3, QueueMembers, MadeOnDevice
<1>4. ASSUME NEW s \in Stream, Kernel(t, s)
      PROVE  Issues
  BY <1>3, <1>4 DEF Kernel
<1>5. ASSUME NEW s \in Stream, NEW pageable \in BOOLEAN, MemCpyAsync(t, s, pageable)
      PROVE  Issues
  BY <1>1, <1>5, QueueMembers, MadeOnDevice DEF MemCpyAsync
<1>6. ASSUME NEW s \in Stream, NEW e \in Event, MusaStreamWaitEvent(t, s, e)
      PROVE  Issues
  <2>1. event[e] \in 0..Len(work)
    BY DEF IInv, Typed
  <2> QED  BY <1>6, <2>1, QueueMembers, MadeOnDevice DEF MusaStreamWaitEvent
<1>7. Issues \/ UNCHANGED <<work, pending>>
  BY <1>2, <1>3, <1>4, <1>5, <1>6
  DEF Calls, SetMusaDevice, SyncMusaDevice, CreateMusaStream, MusaMemCpyP2PAsync,
      SyncMusaStream, RecordMusaEvent, SyncMusaEvent, SyncReturns
<1> QED  BY <1>7, EnqueueIssues

\* Although copies ignore the stream they are given, the device handler
\* implements streams that do the work in the order it was put on them.
THEOREM StreamsImplemented == Spec => ImplementsStreams
<1>1. Init => Streams!Init
  BY DEF Init, Streams!Init, AsAsked
<1>2. IInv /\ [Next]_vars => [Streams!Next]_Streams!vars
  <2> SUFFICES ASSUME IInv, [Next]_vars
               PROVE  Streams!Next \/ UNCHANGED <<work, pending>>
    BY DEF Streams!vars, AsAsked
  <2>1. CASE \E t \in Thread : Calls(t)
    BY <2>1, CallsIssue
  <2>2. CASE \E n \in pending : Execute(n)
    BY <2>2, ExecuteExecutes DEF Streams!Next
  <2>3. CASE UNCHANGED vars
    BY <2>3 DEF vars
  <2> QED  BY <2>1, <2>2, <2>3 DEF Next
<1> QED
  BY <1>1, <1>2, DeviceInvariant, PTL DEF Spec, ImplementsStreams, Streams!Spec
-----------------------------------------------------------------------------
\* m is done before n, told from the work alone.
Ordered(m, n) ==
  /\ m < n
  /\ work[m].device = work[n].device
  /\ work[m].on = work[n].on \/ OnDefault(m) \/ OnDefault(n)

WaitsTyped == waits \in [Thread -> [on : SUBSET DOMAIN work, upto : SUBSET DOMAIN work]]

\* Work that was put on one stream is done in its order.
InOrder ==
  \A m, n \in DOMAIN work :
    m < n /\ work[m].for = work[n].for /\ m \in pending => n \in pending

\* What "on" waits for is not before "upto" on the device.
Covered(on, upto) ==
  \A n \in upto \cap pending : \E m \in on \cap pending : n = m \/ Ordered(n, m)
AllCovered == \A t \in Thread : Covered(waits[t].on, waits[t].upto)

SInv == WaitsTyped /\ InOrder /\ AllCovered

\* A step of a call: new work is pending, old work stays as it was.
Grown ==
  /\ DOMAIN work \subseteq DOMAIN work'
  /\ \A n \in DOMAIN work : work'[n] = work[n]
  /\ pending' \cap DOMAIN work = pending
  /\ DOMAIN work' \ DOMAIN work \subseteq pending'
  /\ \A n \in DOMAIN work, k \in DOMAIN work' \ DOMAIN work : ~(k < n)

LEMMA OrderedPrecedes ==
  ASSUME IInv, NEW m \in DOMAIN work, NEW n \in DOMAIN work, Ordered(m, n)
  PROVE  Precedes(m, n)
<1>1. Blocking(m) /\ Blocking(n)
  BY Zenon DEF IInv, WorkPlaced, AllBlocking, Blocking
<1> QED  BY <1>1 DEF Ordered, Precedes

LEMMA SameStreamOrdered ==
  ASSUME IInv, NEW m \in DOMAIN work, NEW n \in DOMAIN work, m < n,
         work[m].for = work[n].for
  PROVE  Ordered(m, n)
BY SameStreamPrecedes DEF Precedes, Ordered

LEMMA UnchangedGrows ==
  ASSUME IInv, UNCHANGED <<work, pending>>
  PROVE  Grown
BY DEF IInv, Typed, Grown

LEMMA EnqueueGrows ==
  ASSUME IInv, NEW d \in Device, NEW on \in Queue, NEW for \in Queue, NEW after \in 0..Len(work),
         Enqueue(d, on, for, after)
  PROVE  /\ Grown
         /\ Last \in DOMAIN work'
         /\ work'[Last].device = d
         /\ work'[Last].on = on
         /\ work'[Last].for = for
         /\ Last \in pending'
         /\ pending' = pending \cup {Last}
         /\ Last \notin DOMAIN work
<1> DEFINE new == [device |-> d, on |-> on, for |-> for, after |-> after]
<1>1. /\ work \in Seq(WorkRecord)
      /\ Len(work) \in Nat
      /\ new \in WorkRecord
      /\ work' = Append(work, new)
      /\ pending' = pending \cup {Len(work) + 1}
      /\ pending \subseteq DOMAIN work
  BY DEF IInv, Typed, WorkRecord, Enqueue, Last
<1>2. new.device = d /\ new.on = on /\ new.for = for
  OBVIOUS
<1> HIDE DEF new
<1>3. /\ DOMAIN work' = 1..(Len(work) + 1)
      /\ DOMAIN work = 1..Len(work)
      /\ \A n \in 1..Len(work) : work'[n] = work[n]
      /\ work'[Len(work) + 1] = new
  BY <1>1
<1>4. Grown
  BY <1>1, <1>3 DEF Grown
<1> QED  BY <1>1, <1>2, <1>3, <1>4 DEF Last

\* A call that waits for the right work, or for nothing.
LEMMA CallStep ==
  ASSUME IInv, SInv, Grown, NEW t \in Thread,
         \/ UNCHANGED waits
         \/ \E on \in SUBSET DOMAIN work', upto \in SUBSET DOMAIN work' :
              Wait(t, on, upto) /\ Covered(on, upto)'
  PROVE  SInv'
<1>1. InOrder'
  BY DEF SInv, InOrder, Grown
<1>2. \A on, upto \in SUBSET DOMAIN work : Covered(on, upto) => Covered(on, upto)'
  BY DEF Grown, Covered, Ordered, OnDefault
<1>3. CASE UNCHANGED waits
  <2>1. WaitsTyped'
    BY <1>3 DEF SInv, WaitsTyped, Grown
  <2>2. AllCovered'
    BY <1>2, <1>3 DEF SInv, WaitsTyped, AllCovered
  <2> QED  BY <1>1, <2>1, <2>2 DEF SInv
<1>4. CASE \E on \in SUBSET DOMAIN work', upto \in SUBSET DOMAIN work' :
             Wait(t, on, upto) /\ Covered(on, upto)'
  <2> PICK on \in SUBSET DOMAIN work', upto \in SUBSET DOMAIN work' :
             Wait(t, on, upto) /\ Covered(on, upto)'
    BY <1>4
  <2>1. /\ waits' = [waits EXCEPT ![t] = [on |-> on, upto |-> upto]]
        /\ waits \in [Thread -> [on : SUBSET DOMAIN work, upto : SUBSET DOMAIN work]]
    BY DEF Wait, SInv, WaitsTyped
  <2>2. /\ waits'[t].on = on
        /\ waits'[t].upto = upto
        /\ \A u \in Thread : u # t => waits'[u] = waits[u]
    BY <2>1
  <2>3. WaitsTyped'
    <3>1. waits \in [Thread -> [on : SUBSET DOMAIN work', upto : SUBSET DOMAIN work']]
      BY <2>1 DEF Grown
    <3> QED  BY <2>1, <3>1 DEF WaitsTyped
  <2>4. AllCovered'
    <3> SUFFICES ASSUME NEW u \in Thread
                 PROVE  Covered(waits[u].on, waits[u].upto)'
      BY DEF AllCovered
    <3>1. CASE u = t
      BY <2>2, <3>1 DEF Covered, Ordered, OnDefault
    <3>2. CASE u # t
      <4>1. Covered(waits[u].on, waits[u].upto)
        BY DEF SInv, AllCovered
      <4>2. waits[u].on \in SUBSET DOMAIN work /\ waits[u].upto \in SUBSET DOMAIN work
        BY <2>1
      <4>3. \A n \in waits[u].upto \cap pending' :
              \E m \in waits[u].on \cap pending' : n = m \/ Ordered(n, m)'
        BY <1>2, <4>1, <4>2 DEF Covered
      <4>4. waits'[u] = waits[u]
        BY <2>2, <3>2
      <4> QED  BY <4>3, <4>4 DEF Covered
    <3> QED  BY <3>1, <3>2
  <2> QED  BY <1>1, <2>3, <2>4 DEF SInv
<1> QED  BY <1>3, <1>4

\* Work is done.
LEMMA ExecuteStep ==
  ASSUME IInv, SInv, NEW n \in pending, Execute(n)
  PROVE  SInv'
<1>1. pending \subseteq DOMAIN work
  BY DEF IInv, Typed
<1>2. \A m \in pending : ~Ordered(m, n)
  BY <1>1, OrderedPrecedes DEF Execute
<1>3. \A m \in pending : m < n => work[m].for # work[n].for
  BY <1>1, <1>2, SameStreamOrdered
<1>4. /\ UNCHANGED <<work, waits>>
      /\ pending' = pending \ {n}
  BY DEF Execute
<1>5. WaitsTyped'
  BY <1>4 DEF SInv, WaitsTyped
<1>6. InOrder'
  BY <1>1, <1>3, <1>4 DEF SInv, InOrder
<1>7. AllCovered'
  BY <1>2, <1>4 DEF SInv, AllCovered, Covered, Ordered, OnDefault
<1> QED  BY <1>5, <1>6, <1>7 DEF SInv

\* Where the work that a caller put on a stream is.
LEMMA DeviceOfWork ==
  ASSUME IInv, NEW n \in DOMAIN work
  PROVE  /\ work[n].for \in Stream => work[n].device = asked[work[n].for]
         /\ \A d \in Device : work[n].for = Default(d) => work[n].device = d
         /\ work[n].on \in Stream => work[n].for = work[n].on
<1>1. work[n].device \in Device
  <2>1. work[n] \in WorkRecord
    BY DEF IInv, Typed
  <2> QED  BY <2>1 DEF WorkRecord
<1>2. work[n].for \in Stream => work[n].device = asked[work[n].for]
  BY <1>1, DefaultAssumption DEF IInv, WorkPlaced
<1>3. \A d \in Device : work[n].for = Default(d) => work[n].device = d
  <2> SUFFICES ASSUME NEW d \in Device, work[n].for = Default(d)
               PROVE  work[n].device = d
    OBVIOUS
  <2>1. work[n].for \notin Stream
    BY DefaultAssumption
  <2>2. Default(work[n].device) = Default(d)
    BY <2>1 DEF IInv, WorkPlaced
  <2> QED  BY <2>2 DEF Default
<1>4. work[n].on \in Stream => work[n].for = work[n].on
  BY <1>1, DefaultAssumption DEF IInv, WorkPlaced, OnDefault
<1> QED  BY <1>2, <1>3, <1>4

\* A call that waits for what is already there.
LEMMA IdleWaitStep ==
  ASSUME IInv, SInv, NEW t \in Thread, UNCHANGED <<work, pending>>,
         NEW on \in SUBSET pending, NEW upto \in SUBSET pending,
         \A n \in upto : \E m \in on : n = m \/ Ordered(n, m),
         Wait(t, on, upto)
  PROVE  SInv'
<1>1. on \in SUBSET DOMAIN work' /\ upto \in SUBSET DOMAIN work'
  BY DEF IInv, Typed
<1>2. Covered(on, upto)'
  BY DEF Covered, Ordered, OnDefault
<1> QED  BY <1>1, <1>2, UnchangedGrows, CallStep

\* A call that puts work on the default stream of a device and waits for it:
\* all older work of the device is done before it.
LEMMA DefaultWaitStep ==
  ASSUME IInv, SInv, NEW t \in Thread, NEW d \in Device, NEW for \in Queue,
         Enqueue(d, Default(d), for, 0),
         NEW older \in SUBSET pending, \A n \in older : work[n].device = d,
         Wait(t, {Last}, older \cup {Last})
  PROVE  SInv'
<1>1. /\ Len(work) \in Nat
      /\ 0 \in 0..Len(work)
      /\ pending \subseteq DOMAIN work
      /\ DOMAIN work = 1..Len(work)
  BY DEF IInv, Typed
<1> PICK k \in Nat : k = Last
  BY <1>1 DEF Last
<1>2. /\ Grown
      /\ k \in DOMAIN work'
      /\ k \in pending'
      /\ work'[k].device = d
      /\ work'[k].on = Default(d)
  BY <1>1, QueueMembers, EnqueueGrows
<1>3. {k} \in SUBSET DOMAIN work' /\ older \cup {k} \in SUBSET DOMAIN work'
  BY <1>1, <1>2 DEF Grown
<1>4. \A n \in older : Ordered(n, k)'
  BY <1>1, <1>2 DEF Grown, Last, Ordered, OnDefault
<1>5. Covered({k}, older \cup {k})'
  BY <1>2, <1>4 DEF Covered
<1> QED  BY <1>2, <1>3, <1>5, CallStep

\* The calls of a thread wait for the right work.
LEMMA CallsCovered ==
  ASSUME IInv, IInv', SInv, NEW t \in Thread, Calls(t)
  PROVE  SInv'
<1>1. /\ Len(work) \in Nat
      /\ 0 \in 0..Len(work)
      /\ pending \subseteq DOMAIN work
      /\ DOMAIN work = 1..Len(work)
  BY DEF IInv, Typed
<1>2. CASE \E d \in Device : SetMusaDevice(t, d)
  BY <1>2, UnchangedGrows, CallStep DEF SetMusaDevice
<1>3. CASE \E s \in Stream, d \in Device : CreateMusaStream(t, d, s)
  BY <1>3, UnchangedGrows, CallStep DEF CreateMusaStream
<1>4. CASE \E s \in Stream : Kernel(t, s)
  <2> PICK s \in Stream : Kernel(t, s)
    BY <1>4
  <2>1. /\ asked[s] \in Device
        /\ Enqueue(asked[s], s, s, 0)
        /\ UNCHANGED waits
    BY MadeOnDevice DEF Kernel
  <2>2. Grown
    BY <1>1, <2>1, QueueMembers, EnqueueGrows
  <2> QED  BY <2>1, <2>2, CallStep
<1>5. CASE \E s \in Stream : MusaMemCpyP2PAsync(t, s)
  <2> PICK s \in Stream : MusaMemCpyP2PAsync(t, s)
    BY <1>5
  <2>1. /\ asked[s] \in Device
        /\ Enqueue(asked[s], s, s, 0)
        /\ UNCHANGED waits
    BY MadeOnDevice DEF MusaMemCpyP2PAsync
  <2>2. Grown
    BY <1>1, <2>1, QueueMembers, EnqueueGrows
  <2> QED  BY <2>1, <2>2, CallStep
<1>6. CASE \E s \in Stream, e \in Event : RecordMusaEvent(t, s, e) \/ MusaStreamWaitEvent(t, s, e)
  <2> PICK s \in Stream, e \in Event : RecordMusaEvent(t, s, e) \/ MusaStreamWaitEvent(t, s, e)
    BY <1>6
  <2>1. event[e] \in 0..Len(work)
    BY DEF IInv, Typed
  <2> PICK after \in 0..Len(work) : Enqueue(asked[s], s, s, after)
    BY <1>1, <2>1, MadeOnDevice DEF RecordMusaEvent, MusaStreamWaitEvent
  <2>2. /\ asked[s] \in Device
        /\ UNCHANGED waits
    BY MadeOnDevice DEF RecordMusaEvent, MusaStreamWaitEvent
  <2>3. Grown
    BY <1>1, <2>2, QueueMembers, EnqueueGrows
  <2> QED  BY <2>2, <2>3, CallStep
<1>7. CASE \E s \in Stream : MemCpyAsync(t, s, FALSE)
  <2> PICK s \in Stream : MemCpyAsync(t, s, FALSE)
    BY <1>7
  <2>1. /\ asked[s] \in Device
        /\ Enqueue(asked[s], Default(asked[s]), s, 0)
        /\ UNCHANGED waits
    BY MadeOnDevice DEF MemCpyAsync
  <2>2. Grown
    BY <1>1, <2>1, QueueMembers, EnqueueGrows
  <2> QED  BY <2>1, <2>2, CallStep
<1>8. CASE \E s \in Stream : MemCpyAsync(t, s, TRUE)
  <2> PICK s \in Stream : MemCpyAsync(t, s, TRUE)
    BY <1>8
  <2> DEFINE older == {n \in pending : work[n].for = s}
  <2>1. /\ asked[s] \in Device
        /\ Made(s)
        /\ Enqueue(asked[s], Default(asked[s]), s, 0)
        /\ Wait(t, {Last}, older \cup {Last})
    BY MadeOnDevice DEF MemCpyAsync
  <2>2. older \subseteq pending /\ \A n \in older : work[n].device = asked[s]
    BY <1>1, <2>1, DefaultAssumption, DeviceOfWork
  <2> HIDE DEF older
  <2> QED  BY <1>1, <2>1, <2>2, QueueMembers, DefaultWaitStep
<1>9. CASE \E d \in Device : MemCpy(t, d)
  <2> PICK d \in Device : MemCpy(t, d)
    BY <1>9
  <2>1. /\ Enqueue(d, Default(d), Default(d), 0)
        /\ Wait(t, {Last}, WorkFor(d) \cup {Last})
    BY DEF MemCpy
  <2>2. WorkFor(d) \subseteq pending /\ \A n \in WorkFor(d) : work[n].device = d
    BY <1>1, DeviceOfWork DEF WorkFor
  <2> QED  BY <1>1, <2>1, <2>2, QueueMembers, DefaultWaitStep
<1>10. CASE \E s \in Stream : SyncMusaStream(t, s)
  <2> PICK s \in Stream : SyncMusaStream(t, s)
    BY <1>10
  <2> DEFINE on == {n \in pending : work[n].on = s}
  <2> DEFINE upto == {n \in pending : work[n].for = s /\ \E m \in on : n <= m}
  <2>1. Wait(t, on, upto) /\ UNCHANGED <<work, pending>>
    BY DEF SyncMusaStream
  <2>2. \A m \in on : m \in DOMAIN work /\ work[m].for = s
    BY <1>1, DeviceOfWork
  <2>3. \A n \in upto : \E m \in on : n = m \/ Ordered(n, m)
    <3> SUFFICES ASSUME NEW n \in pending, work[n].for = s, NEW m \in on, n <= m
                 PROVE  n = m \/ Ordered(n, m)
      OBVIOUS
    <3>1. n \in DOMAIN work /\ m \in DOMAIN work /\ work[m].for = s
      BY <1>1, <2>2
    <3> QED  BY <1>1, <3>1, SameStreamOrdered
  <2>4. on \subseteq pending /\ upto \subseteq pending
    OBVIOUS
  <2> HIDE DEF on, upto
  <2> QED  BY <2>1, <2>3, <2>4, IdleWaitStep
<1>11. CASE \E e \in Event : SyncMusaEvent(t, e)
  <2> PICK e \in Event : SyncMusaEvent(t, e)
    BY <1>11
  <2> DEFINE on == {event[e]} \cap pending
  <2> DEFINE upto == {n \in pending : work[n].for = work[event[e]].for /\ n <= event[e]}
  <2>1. /\ Wait(t, on, upto)
        /\ UNCHANGED <<work, pending>>
        /\ event[e] \in DOMAIN work
    BY <1>1 DEF SyncMusaEvent, IInv, Typed
  <2>2. \A n \in upto : n = event[e] \/ (Ordered(n, event[e]) /\ event[e] \in pending)
    BY <1>1, <2>1, SameStreamOrdered DEF SInv, InOrder
  <2>3. \A n \in upto : \E m \in on : n = m \/ Ordered(n, m)
    BY <2>2
  <2>4. on \subseteq pending /\ upto \subseteq pending
    OBVIOUS
  <2> HIDE DEF on, upto
  <2> QED  BY <2>1, <2>3, <2>4, IdleWaitStep
<1>12. CASE \E d \in Device : SyncMusaDevice(t, d)
  <2> PICK d \in Device : SyncMusaDevice(t, d)
    BY <1>12
  <2> DEFINE on == {n \in pending : work[n].device = d}
  <2>1. Wait(t, on, WorkFor(d)) /\ UNCHANGED <<work, pending>>
    BY DEF SyncMusaDevice
  <2>2. WorkFor(d) \subseteq on /\ on \subseteq pending
    BY <1>1, DeviceOfWork DEF WorkFor
  <2> HIDE DEF on
  <2> QED  BY <2>1, <2>2, IdleWaitStep
<1>13. CASE SyncReturns(t)
  BY <1>13, IdleWaitStep DEF SyncReturns
<1> QED
  BY <1>2, <1>3, <1>4, <1>5, <1>6, <1>7, <1>8, <1>9, <1>10, <1>11, <1>12, <1>13, Zenon
  DEF Calls

LEMMA SyncInvariant == Spec => [](IInv /\ SInv)
<1>1. Init => SInv
  BY DEF Init, Idle, SInv, WaitsTyped, InOrder, AllCovered, Covered
<1>2. IInv /\ IInv' /\ SInv /\ [Next]_vars => SInv'
  <2> SUFFICES ASSUME IInv, IInv', SInv, [Next]_vars
               PROVE  SInv'
    OBVIOUS
  <2>1. CASE \E t \in Thread : Calls(t)
    BY <2>1, CallsCovered
  <2>2. CASE \E n \in pending : Execute(n)
    BY <2>2, ExecuteStep
  <2>3. CASE UNCHANGED vars
    BY <2>3 DEF vars, SInv, WaitsTyped, InOrder, AllCovered, Covered, Ordered, OnDefault
  <2> QED  BY <2>1, <2>2, <2>3 DEF Next
<1> QED  BY <1>1, <1>2, DeviceInvariant, PTL DEF Spec

\* The variables have their types, and every stream is on the device it was
\* asked for.
THEOREM DeviceTypeCorrect == Spec => []TypeOK
<1>1. IInv /\ SInv => TypeOK
  BY DEF IInv, SInv, WaitsTyped, Typed, TypeOK, StreamRecord, WorkRecord
<1> QED  BY <1>1, SyncInvariant, PTL

\* When a synchronising call returns, the work that its caller then takes for
\* done is done, although the copies are not on the stream it synchronised.
THEOREM SynchronisingIsEnough == Spec => []SyncCovers
<1>1. SInv => SyncCovers
  BY DEF SInv, AllCovered, Covered, SyncCovers
<1> QED  BY <1>1, SyncInvariant, PTL
=============================================================================
