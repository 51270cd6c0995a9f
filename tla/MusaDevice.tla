-------------------------------- MODULE MusaDevice --------------------------------
(***************************************************************************)
(* The stream, event and copy callbacks of runtime/musa_device_handler.mu, *)
(* called by several threads.  The asynchronous copies take a stream and   *)
(* do not use it: they go to the device's default stream, which waits for  *)
(* the other streams and they for it, because CreateMusaStream makes       *)
(* ordinary, "blocking" streams.  The MUSA runtime is outside the          *)
(* repository and modelled with CUDA's rules.  A copy of nothing, or with  *)
(* a null pointer, returns at once and is a stutter.                       *)
(***************************************************************************)
EXTENDS Naturals, Sequences, FiniteSets

CONSTANTS
  Thread,
  Device,
  Stream,   \* streams that may be created
  Event,    \* events, created and not recorded at first
  Absent,   \* a stream before its creation
  MaxWork   \* bound: kernels, copies, records and waits

VARIABLES
  current,  \* per thread: the device of musaSetDevice
  stream,   \* per stream: [device, blocking], or Absent
  asked,    \* per stream: the device the framework asked for, or Absent
  event,    \* per event: the work that it was recorded with, 0 for none
  work,     \* all work: sequence of [device, on, for, after]
  pending,  \* numbers of the work that is not done
  waits     \* per thread: [on, upto], what the call it is in waits for

vars == <<current, stream, asked, event, work, pending, waits>>

\* The default stream of a device, also for work that a caller named no stream
\* for.
Default(d) == <<d>>
Queue == Stream \cup {Default(d) : d \in Device}

ASSUME DefaultAssumption == \A d \in Device : Default(d) \notin Stream
ASSUME AbsentAssumption == Absent \notin Device /\ Absent \notin [device : Device, blocking : BOOLEAN]
ASSUME MaxWorkAssumption == MaxWork \in Nat

Idle == [on |-> {}, upto |-> {}]

Init ==
  /\ current \in [Thread -> Device]
  /\ stream = [s \in Stream |-> Absent]
  /\ asked = stream
  /\ event = [e \in Event |-> 0]
  /\ work = <<>>
  /\ pending = {}
  /\ waits = [t \in Thread |-> Idle]

Running(t) == waits[t] = Idle
SetDevice(t, d) == current' = [current EXCEPT ![t] = d]
Made(s) == stream[s] # Absent
Last == Len(work) + 1
WorkFor(d) ==
  {n \in pending : work[n].for = Default(d) \/ (work[n].for \in Stream /\ asked[work[n].for] = d)}

\* New work on stream "on" of device d, which the caller wants behind "for".
Enqueue(d, on, for, after) ==
  /\ Len(work) < MaxWork
  /\ work' = Append(work, [device |-> d, on |-> on, for |-> for, after |-> after])
  /\ pending' = pending \cup {Last}

\* The call returns when the work in "on" is done; the caller then takes the
\* work in "upto" for done.
Wait(t, on, upto) == waits' = [waits EXCEPT ![t] = [on |-> on, upto |-> upto]]
-----------------------------------------------------------------------------
SetMusaDevice(t, d) ==
  /\ Running(t)
  /\ SetDevice(t, d)
  /\ UNCHANGED <<stream, asked, event, work, pending, waits>>

\* Mutants of CreateMusaStream: musaStreamCreateWithFlags(musaStreamNonBlocking);
\* musaSetDevice is left out.
CreateNonBlocking(t, d, s) ==
  /\ Running(t) /\ ~Made(s)
  /\ SetDevice(t, d)
  /\ stream' = [stream EXCEPT ![s] = [device |-> d, blocking |-> FALSE]]
  /\ asked' = [asked EXCEPT ![s] = d]
  /\ UNCHANGED <<event, work, pending, waits>>
CreateOnCurrent(t, d, s) ==
  /\ Running(t) /\ ~Made(s)
  /\ stream' = [stream EXCEPT ![s] = [device |-> current[t], blocking |-> TRUE]]
  /\ asked' = [asked EXCEPT ![s] = d]
  /\ UNCHANGED <<current, event, work, pending, waits>>

CreateMusaStream(t, d, s) ==
  /\ Running(t) /\ ~Made(s)
  /\ SetDevice(t, d)
  /\ stream' = [stream EXCEPT ![s] = [device |-> d, blocking |-> TRUE]]
  /\ asked' = [asked EXCEPT ![s] = d]
  /\ UNCHANGED <<event, work, pending, waits>>

\* A kernel is launched on a stream of the thread's device.
Kernel(t, s) ==
  /\ Running(t) /\ Made(s)
  /\ stream[s].device = current[t]
  /\ Enqueue(current[t], s, s, 0)
  /\ UNCHANGED <<current, stream, asked, event, waits>>

\* MusaMemCpyH2DAsync, MusaMemCpyD2HAsync and MusaMemCpyD2DAsync on stream s; a
\* copy to pageable host memory returns when it is done.
MemCpyAsync(t, s, pageable) ==
  /\ Running(t) /\ Made(s)
  /\ LET d == asked[s]
     IN  /\ SetDevice(t, d)
         /\ Enqueue(d, Default(d), s, 0)
         /\ IF pageable
            THEN Wait(t, {Last}, {n \in pending : work[n].for = s} \cup {Last})
            ELSE UNCHANGED waits
  /\ UNCHANGED <<stream, asked, event>>

\* MusaMemCpyP2PAsync, whose stream is used.
MusaMemCpyP2PAsync(t, s) ==
  /\ Running(t) /\ Made(s)
  /\ Enqueue(stream[s].device, s, s, 0)
  /\ UNCHANGED <<current, stream, asked, event, waits>>

\* MusaMemCpyH2D and MusaMemCpyD2H.
MemCpy(t, d) ==
  /\ Running(t)
  /\ SetDevice(t, d)
  /\ Enqueue(d, Default(d), Default(d), 0)
  /\ Wait(t, {Last}, WorkFor(d) \cup {Last})
  /\ UNCHANGED <<stream, asked, event>>

\* Mutant of RecordMusaEvent: on the default stream of the thread's device.
RecordOnCurrent(t, s, e) ==
  /\ Running(t) /\ Made(s)
  /\ Enqueue(current[t], Default(current[t]), s, 0)
  /\ event' = [event EXCEPT ![e] = Last]
  /\ UNCHANGED <<current, stream, asked, waits>>

RecordMusaEvent(t, s, e) ==
  /\ Running(t) /\ Made(s)
  /\ SetDevice(t, asked[s])
  /\ Enqueue(stream[s].device, s, s, 0)
  /\ event' = [event EXCEPT ![e] = Last]
  /\ UNCHANGED <<stream, asked, waits>>

\* Work behind this on s waits for the work that e was recorded behind.
MusaStreamWaitEvent(t, s, e) ==
  /\ Running(t) /\ Made(s)
  /\ SetDevice(t, asked[s])
  /\ Enqueue(stream[s].device, s, s, event[e])
  /\ UNCHANGED <<stream, asked, event, waits>>

\* Waits for what is on s.  A copy behind it is on the default stream: only
\* what the caller put on s up to its last kernel, record or wait is done then.
SyncMusaStream(t, s) ==
  /\ Running(t) /\ Made(s)
  /\ SetDevice(t, asked[s])
  /\ LET on == {n \in pending : work[n].on = s}
     IN  Wait(t, on, {n \in pending : work[n].for = s /\ \E m \in on : n <= m})
  /\ UNCHANGED <<stream, asked, event, work, pending>>

SyncMusaEvent(t, e) ==
  /\ Running(t)
  /\ event[e] # 0
  /\ \E d \in Device : SetDevice(t, d)
  /\ Wait(t, {event[e]} \cap pending,
          {n \in pending : work[n].for = work[event[e]].for /\ n <= event[e]})
  /\ UNCHANGED <<stream, asked, event, work, pending>>

SyncMusaDevice(t, d) ==
  /\ Running(t)
  /\ SetDevice(t, d)
  /\ Wait(t, {n \in pending : work[n].device = d}, WorkFor(d))
  /\ UNCHANGED <<stream, asked, event, work, pending>>

SyncReturns(t) ==
  /\ ~Running(t)
  /\ waits[t].on \cap pending = {}
  /\ Wait(t, {}, {})
  /\ UNCHANGED <<current, stream, asked, event, work, pending>>
-----------------------------------------------------------------------------
\* The device: m, issued before n, is done first when both are on one stream,
\* or one of them is on the default stream and the other's stream is blocking.
OnDefault(n) == work[n].on = Default(work[n].device)
Blocking(n) == OnDefault(n) \/ stream[work[n].on].blocking
Precedes(m, n) ==
  /\ m < n
  /\ work[m].device = work[n].device
  /\ \/ work[m].on = work[n].on
     \/ (OnDefault(m) \/ OnDefault(n)) /\ Blocking(m) /\ Blocking(n)

Execute(n) ==
  /\ \A m \in pending : ~Precedes(m, n)
  /\ work[n].after \notin pending
  /\ pending' = pending \ {n}
  /\ UNCHANGED <<current, stream, asked, event, work, waits>>

Calls(t) ==
  \/ \E d \in Device : SetMusaDevice(t, d) \/ MemCpy(t, d) \/ SyncMusaDevice(t, d)
  \/ \E s \in Stream :
       \/ \E d \in Device : CreateMusaStream(t, d, s)
       \/ Kernel(t, s) \/ MusaMemCpyP2PAsync(t, s) \/ SyncMusaStream(t, s)
       \/ \E pageable \in BOOLEAN : MemCpyAsync(t, s, pageable)
       \/ \E e \in Event : RecordMusaEvent(t, s, e) \/ MusaStreamWaitEvent(t, s, e)
  \/ \E e \in Event : SyncMusaEvent(t, e)
  \/ SyncReturns(t)

Next ==
  \/ \E t \in Thread : Calls(t)
  \/ \E n \in pending : Execute(n)

Spec == Init /\ [][Next]_vars
-----------------------------------------------------------------------------
\* Every stream is on the device it was asked for, and work is on streams of
\* its device.
StreamsOK ==
  \A s \in Stream : IF Made(s) THEN stream[s].device = asked[s] ELSE asked[s] = Absent
WorkOK ==
  \A n \in DOMAIN work :
    /\ work[n].after < n
    /\ OnDefault(n) \/ (Made(work[n].on) /\ stream[work[n].on].device = work[n].device)
TypeOK ==
  /\ current \in [Thread -> Device]
  /\ stream \in [Stream -> [device : Device, blocking : BOOLEAN] \cup {Absent}]
  /\ asked \in [Stream -> Device \cup {Absent}]
  /\ event \in [Event -> 0..Len(work)]
  /\ work \in Seq([device : Device, on : Queue, for : Queue, after : Nat])
  /\ pending \subseteq DOMAIN work
  /\ \A t \in Thread : waits[t].on \cup waits[t].upto \subseteq DOMAIN work
  /\ StreamsOK
  /\ WorkOK

AsAsked(w) == [n \in DOMAIN w |-> [stream |-> w[n].for, after |-> w[n].after]]

\* Although copies ignore the stream they are given, work is done in the order
\* the caller put it on its streams, and behind the events it waits for.
Streams == INSTANCE StreamOrder WITH
  Streams <- Queue,
  work <- AsAsked(work)
ImplementsStreams == Streams!Spec

\* When a synchronising call returns, the work its caller then takes for done
\* is: all of the stream up to the event, or to the last kernel, record or wait
\* on the stream, all of the device, all before a copy to pageable memory.
SyncCovers ==
  \A t \in Thread : waits[t].on \cap pending = {} => waits[t].upto \cap pending = {}
=============================================================================
