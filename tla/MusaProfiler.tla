----------------------------- MODULE MusaProfiler -----------------------------
(***************************************************************************)
(* The profiler of the plugin: runtime/profiler_handler.cc drives MUPTI,   *)
(* and the Tracer singleton of runtime/process_mupti_data.cc keeps the     *)
(* activity buffers that MUPTI's worker threads have completed.  A buffer  *)
(* is allocated when MUPTI requests one, filled by MUPTI while the program *)
(* runs, queued under a lock when MUPTI completes it, and read and freed   *)
(* by the thread that controls the profiler.  MUPTI completes buffers on   *)
(* its own whenever it likes, also empty ones, and keeps unfinished ones   *)
(* from one profiling session to the next.                                 *)
(***************************************************************************)
EXTENDS Naturals, Sequences, SequencesExt

CONSTANTS Buffer,   \* addresses of activity buffers
          Capacity, \* records that fit into a buffer
          MaxTime,  \* bound: the last timestamp
          Skew      \* host clock minus MUPTI clock

ASSUME ProfilerAssumption == Capacity \in Nat /\ MaxTime \in Nat \ {0} /\ Skew \in Nat

VARIABLES
  now,        \* MUPTI's clock; a record is named by the moment it was made
  enabled,    \* the activity kinds are enabled
  heap,       \* buffers allocated and not freed
  filling,    \* buffers MUPTI holds
  content,    \* records in each buffer
  activityBuffers, \* Tracer::activity_buffers_
  local,      \* buffers consumed and not dealt with yet
  processed,  \* records that the loop has taken from the first of them
  ctx,        \* ProfilerContext: mupti_start_ns and host_start_ns
  state,      \* where the controlling thread is
  events      \* what the collector received in this session

vars == <<now, enabled, heap, filling, content, activityBuffers, local, processed, ctx,
          state, events>>

Time == 0..MaxTime

\* none: no ProfilerContext       inited, ready, started, stopped: between two calls
\* startRelease, startStamp: in ProfilerStart    finalizeRelease: in ProfilerFinalize
\* flush, process: in ProfilerCollectData
State == {"none", "inited", "ready", "startRelease", "startStamp", "started", "stopped",
          "flush", "process", "collected", "finalizeRelease"}

TypeOK ==
  /\ now \in Time
  /\ enabled \in BOOLEAN
  /\ heap \subseteq Buffer
  /\ filling \subseteq heap
  /\ content \in [Buffer -> Seq(Time)]
  /\ activityBuffers \in Seq(heap)
  /\ local \in Seq(heap)
  /\ processed \in Nat
  /\ ctx \in [mupti : Time, host : Nat]
  /\ state \in State
  /\ events \in Seq([start : Time, at : Nat])

NoContext == [mupti |-> 0, host |-> 0]

Init ==
  /\ now = 1
  /\ enabled = FALSE
  /\ heap = {} /\ filling = {}
  /\ content = [b \in Buffer |-> <<>>]
  /\ activityBuffers = <<>> /\ local = <<>>
  /\ processed = 0
  /\ ctx = NoContext
  /\ state = "none"
  /\ events = <<>>
-----------------------------------------------------------------------------
\* BufferRequestedCallback: AllocateBuffer gives MUPTI memory to write to.
BufferRequested(b) ==
  /\ enabled
  /\ b \notin heap
  /\ heap' = heap \cup {b}
  /\ filling' = filling \cup {b}
  /\ content' = [content EXCEPT ![b] = <<>>]
  /\ UNCHANGED <<now, enabled, activityBuffers, local, processed, ctx, state, events>>

\* A kernel, a copy or an API call of the program is recorded.
Activity(b) ==
  /\ enabled
  /\ now < MaxTime
  /\ b \in filling
  /\ Len(content[b]) < Capacity
  /\ now' = now + 1
  /\ content' = [content EXCEPT ![b] = Append(@, now')]
  /\ UNCHANGED <<enabled, heap, filling, activityBuffers, local, processed, ctx, state, events>>

\* Mutant of BufferCompleted: the buffer is queued while MUPTI still uses it.
BufferCompletedEarly(b) ==
  /\ b \in filling
  /\ ~Contains(activityBuffers, b)
  /\ activityBuffers' = Append(activityBuffers, b)
  /\ UNCHANGED <<now, enabled, heap, filling, content, local, processed, ctx, state, events>>

\* BufferCompletedCallback, on a MUPTI thread: ProduceBuffer queues the buffer
\* under the lock.
BufferCompleted(b) ==
  /\ b \in filling
  /\ filling' = filling \ {b}
  /\ activityBuffers' = Append(activityBuffers, b)
  /\ UNCHANGED <<now, enabled, heap, content, local, processed, ctx, state, events>>

\* Mutant of ConsumeBuffers: the buffers are copied, not swapped out.
CopyBuffers == local' = activityBuffers /\ UNCHANGED activityBuffers

\* ConsumeBuffers swaps the queue with an empty vector under the lock.
ConsumeBuffers == local' = activityBuffers /\ activityBuffers' = <<>>

\* Mutant of ReleaseBuffer: the memory is not given back.
ReleaseBufferForgotten == UNCHANGED heap

\* ReleaseBuffer frees the first of the consumed buffers.
ReleaseBuffer == heap' = heap \ {Head(local)}
-----------------------------------------------------------------------------
ProfilerInitialize ==
  /\ state = "none"
  /\ ctx' = NoContext
  /\ state' = "inited"
  /\ UNCHANGED <<now, enabled, heap, filling, content, activityBuffers, local, processed, events>>

\* ProfilerPrepare registers the callbacks and enables the activity kinds; the
\* framework begins a new collection.
ProfilerPrepare ==
  /\ state \in {"inited", "stopped", "collected"}
  /\ enabled' = TRUE
  /\ events' = <<>>
  /\ state' = "ready"
  /\ UNCHANGED <<now, heap, filling, content, activityBuffers, local, processed, ctx>>

\* ProfilerStart: what is queued belongs to no session and is released ...
ProfilerStart ==
  /\ state = "ready"
  /\ ConsumeBuffers
  /\ state' = "startRelease"
  /\ UNCHANGED <<now, enabled, heap, filling, content, processed, ctx, events>>

\* ... buffer by buffer, as in ProfilerFinalize.
ReleaseStale ==
  /\ state \in {"startRelease", "finalizeRelease"}
  /\ local # <<>>
  /\ ReleaseBuffer
  /\ local' = Tail(local)
  /\ UNCHANGED <<now, enabled, filling, content, activityBuffers, processed, ctx, state, events>>

\* ProfilerStart: muptiGetTimestamp ...
StartMupti ==
  /\ state = "startRelease"
  /\ local = <<>>
  /\ ctx' = [ctx EXCEPT !.mupti = now]
  /\ state' = "startStamp"
  /\ UNCHANGED <<now, enabled, heap, filling, content, activityBuffers, local, processed, events>>

\* ... and then PosixInNsec.
StartHost ==
  /\ state = "startStamp"
  /\ ctx' = [ctx EXCEPT !.host = now + Skew]
  /\ state' = "started"
  /\ UNCHANGED <<now, enabled, heap, filling, content, activityBuffers, local, processed, events>>

\* ProfilerStop disables the kinds; MUPTI keeps its buffers.
ProfilerStop ==
  /\ state = "started"
  /\ enabled' = FALSE
  /\ state' = "stopped"
  /\ UNCHANGED <<now, heap, filling, content, activityBuffers, local, processed, ctx, events>>

ProfilerCollectData ==
  /\ state \in {"stopped", "collected"}
  /\ state' = "flush"
  /\ UNCHANGED <<now, enabled, heap, filling, content, activityBuffers, local, processed, ctx,
                 events>>

\* Mutant of Flushed: the buffers are consumed without flushing MUPTI's.
NotFlushed ==
  /\ state = "flush"
  /\ ConsumeBuffers
  /\ state' = "process"
  /\ UNCHANGED <<now, enabled, heap, filling, content, processed, ctx, events>>

\* muptiActivityFlushAll returns when MUPTI has completed every buffer, and
\* ProcessMuptiActivity consumes the queue.
Flushed ==
  /\ state = "flush"
  /\ filling = {}
  /\ ConsumeBuffers
  /\ state' = "process"
  /\ UNCHANGED <<now, enabled, heap, filling, content, processed, ctx, events>>

\* ToHostTime of a timestamp.
ToHostTime(timestamp) ==
  IF timestamp < ctx.mupti \/ ctx.mupti = 0 \/ ctx.host = 0 THEN timestamp
  ELSE ctx.host + (timestamp - ctx.mupti)

\* Mutant of Wanted: records are not compared with the start of the session.
WantedAlways(record) == TRUE

\* Add*Record return at once for a record from before the session.
Wanted(record) == ~(record < ctx.mupti)

\* The record that muptiActivityGetNextRecord gives next.
NextRecord == content[Head(local)][processed + 1]

EventOf(r) == [start |-> r, at |-> ToHostTime(r)]

\* Mutant of SkipBuffer: the loop passes over an empty buffer without moving
\* on to the next one.
SkipBufferStuck ==
  /\ state = "process"
  /\ local # <<>>
  /\ content[Head(local)] = <<>>
  /\ UNCHANGED vars

\* ProcessMuptiActivity: an empty buffer is passed over, and not released.
SkipBuffer ==
  /\ state = "process"
  /\ local # <<>>
  /\ content[Head(local)] = <<>>
  /\ local' = Tail(local)
  /\ UNCHANGED <<now, enabled, heap, filling, content, activityBuffers, processed, ctx, state,
                 events>>

\* The records of another one go to the collector, one after the other ...
ProcessRecord ==
  /\ state = "process"
  /\ local # <<>>
  /\ processed < Len(content[Head(local)])
  /\ processed' = processed + 1
  /\ events' = IF Wanted(NextRecord) THEN Append(events, EventOf(NextRecord)) ELSE events
  /\ UNCHANGED <<now, enabled, heap, filling, content, activityBuffers, local, ctx, state>>

\* ... until MUPTI_ERROR_MAX_LIMIT_REACHED, and the buffer is freed.
ReleaseProcessed ==
  /\ state = "process"
  /\ local # <<>>
  /\ content[Head(local)] # <<>>
  /\ processed = Len(content[Head(local)])
  /\ ReleaseBuffer
  /\ local' = Tail(local)
  /\ processed' = 0
  /\ UNCHANGED <<now, enabled, filling, content, activityBuffers, ctx, state, events>>

Processed ==
  /\ state = "process"
  /\ local = <<>>
  /\ state' = "collected"
  /\ UNCHANGED <<now, enabled, heap, filling, content, activityBuffers, local, processed, ctx,
                 events>>

\* ProfilerFinalize, in whatever state the profiler is dropped, releases what
\* is queued and then deletes the context.
ProfilerFinalize ==
  /\ state \in {"inited", "ready", "started", "stopped", "collected"}
  /\ ConsumeBuffers
  /\ state' = "finalizeRelease"
  /\ UNCHANGED <<now, enabled, heap, filling, content, processed, ctx, events>>

Finalized ==
  /\ state = "finalizeRelease"
  /\ local = <<>>
  /\ ctx' = NoContext
  /\ state' = "none"
  /\ events' = <<>>
  /\ UNCHANGED <<now, enabled, heap, filling, content, activityBuffers, local, processed>>
-----------------------------------------------------------------------------
Next ==
  \/ \E b \in Buffer : BufferRequested(b) \/ Activity(b) \/ BufferCompleted(b)
  \/ ProfilerInitialize \/ ProfilerPrepare
  \/ ProfilerStart \/ ReleaseStale \/ StartMupti \/ StartHost
  \/ ProfilerStop
  \/ ProfilerCollectData \/ Flushed
  \/ SkipBuffer \/ ProcessRecord \/ ReleaseProcessed \/ Processed
  \/ ProfilerFinalize \/ Finalized

Spec == Init /\ [][Next]_vars

\* MUPTI completes its buffers, and the controlling thread goes on inside a call.
FairSpec ==
  /\ Spec
  /\ \A b \in Buffer : WF_vars(BufferCompleted(b))
  /\ WF_vars(ReleaseStale \/ StartMupti \/ StartHost \/ Flushed \/ SkipBuffer
             \/ ProcessRecord \/ ReleaseProcessed \/ Processed \/ Finalized)
-----------------------------------------------------------------------------
Reported(r) == \E i \in DOMAIN events : events[i].start = r
Queued(b) == Contains(activityBuffers, b)
Consumed(b) == Contains(local, b)

\* A buffer belongs to MUPTI, to the queue or to the controlling thread, to
\* one of them at a time and once: none is read while MUPTI writes to it or
\* released twice.
OwnedOnce ==
  /\ IsInjective(activityBuffers) /\ IsInjective(local)
  /\ \A b \in Buffer : /\ b \in filling => ~Queued(b) /\ ~Consumed(b)
                       /\ Queued(b) => ~Consumed(b)

\* The memory of every buffer is given back, but for buffers without a record:
\* ProcessMuptiActivity passes over them and nobody refers to them any more.
OnlyEmptyLeaked ==
  \A b \in heap : b \in filling \/ Queued(b) \/ Consumed(b) \/ content[b] = <<>>

\* No record of an earlier session, or from before ProfilerStart, is reported,
\* although its buffer may arrive late; and none is reported as earlier than
\* it happened.
EventsOfThisSession ==
  \A i \in DOMAIN events : /\ events[i].start >= ctx.mupti
                           /\ events[i].at >= events[i].start + Skew

\* A record reaches the collector at most once, however often data is
\* collected.
ReportedOnce ==
  \A i, j \in DOMAIN events : events[i].start = events[j].start => i = j

\* Once collected, no record that was made after ProfilerStart is missing:
\* each one that is in no event was made before.
SessionComplete ==
  state = "collected" =>
    \A r \in (ctx.mupti + 1)..now : Reported(r)

\* Collecting data reports every record of the session sooner or later,
\* however MUPTI schedules its callbacks and however many buffers are empty.
ReportedEventually ==
  \A r \in Time : state = "flush" /\ r \in (ctx.mupti + 1)..now ~> Reported(r)
=============================================================================
