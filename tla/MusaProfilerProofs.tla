-------------------------- MODULE MusaProfilerProofs --------------------------
(***************************************************************************)
(* Proofs about MusaProfiler, for any number of buffers of any capacity,   *)
(* any number of records and any offset of the clocks: typing, one owner   *)
(* per buffer, and that a session's events are its own, all of them, once. *)
(***************************************************************************)
EXTENDS MusaProfiler, SequenceTheorems, TLAPS

\* Only MUPTI writes to a buffer, and only while the kinds are enabled; the
\* controlling thread holds buffers only inside a call.
Phases ==
  /\ state \in {"stopped", "flush", "process", "collected"} => enabled = FALSE
  /\ state \in {"process", "collected"} => filling = {} /\ activityBuffers = <<>>
  /\ state \notin {"startRelease", "finalizeRelease", "process"} => local = <<>>
  /\ state # "process" => processed = 0
  /\ local = <<>> => processed = 0
  /\ local # <<>> => processed <= Len(content[Head(local)])
  /\ state \in {"none", "inited", "ready", "startRelease", "startStamp", "started", "stopped"} =>
       events = <<>>

\* The session began in the past, and on the host's clock not before.
Clocks ==
  /\ 1 <= now
  /\ ctx.mupti <= now
  /\ state \in {"startStamp", "started", "stopped", "flush", "process", "collected"} => 1 <= ctx.mupti
  /\ state \in {"started", "stopped", "flush", "process", "collected"} =>
       ctx.mupti + Skew <= ctx.host

\* A record that a buffer holds and the loop has not come to.
Unread(b, i) ==
  /\ b \in heap
  /\ i \in 1..Len(content[b])
  /\ ~(local # <<>> /\ b = Head(local) /\ i <= processed)

\* Each record is in one place, and not reported before it is read.
RecordsOnce ==
  /\ \A b \in heap : \A i \in 1..Len(content[b]) : 1 <= content[b][i] /\ content[b][i] <= now
  /\ \A b, c \in heap : \A i \in 1..Len(content[b]), j \in 1..Len(content[c]) :
       content[b][i] = content[c][j] => b = c /\ i = j
  /\ \A i \in 1..Len(events) : events[i].start <= now
  /\ \A b \in heap : \A i \in 1..Len(content[b]) :
       Unread(b, i) => \A j \in 1..Len(events) : events[j].start # content[b][i]

\* A record of the session is reported, or in a buffer that will be read.
RecordsKept ==
  state \in {"startStamp", "started", "stopped", "flush", "process", "collected"} =>
    \A r \in (ctx.mupti + 1)..now :
      Reported(r) \/ \E b \in heap : \E i \in 1..Len(content[b]) : Unread(b, i) /\ content[b][i] = r

\* The inductive invariant.
ProfilerInv ==
  /\ TypeOK
  /\ Phases
  /\ Clocks
  /\ OwnedOnce
  /\ OnlyEmptyLeaked
  /\ RecordsOnce
  /\ RecordsKept
  /\ EventsOfThisSession
  /\ ReportedOnce
-----------------------------------------------------------------------------
\* A sequence whose elements are all in T is one of T.
LEMMA SeqOfMembers ==
  ASSUME NEW S, NEW T, NEW s \in Seq(S), \A i \in 1..Len(s) : s[i] \in T
  PROVE  s \in Seq(T)
<1>1. Len(s) \in Nat /\ s \in [1..Len(s) -> S]
  BY LenProperties
<1>2. s \in [1..Len(s) -> T]
  BY <1>1
<1> QED
  BY <1>1, <1>2, SeqDef

\* Taking the first of a sequence without repetition leaves the others, once.
LEMMA TailFacts ==
  ASSUME NEW S, NEW s \in Seq(S), s # <<>>, IsInjective(s)
  PROVE  /\ Head(s) \in S
         /\ Contains(s, Head(s))
         /\ Tail(s) \in Seq(S \ {Head(s)})
         /\ IsInjective(Tail(s))
         /\ \A e : Contains(Tail(s), e) <=> Contains(s, e) /\ e # Head(s)
<1>1. /\ Len(s) \in Nat /\ Len(s) >= 1 /\ DOMAIN s = 1..Len(s)
      /\ Head(s) = s[1] /\ s[1] \in S
      /\ Tail(s) \in Seq(S) /\ Len(Tail(s)) = Len(s) - 1
      /\ DOMAIN Tail(s) = 1..(Len(s) - 1)
      /\ \A i \in 1..(Len(s) - 1) : Tail(s)[i] = s[i + 1]
  OBVIOUS
<1>2. \A i \in 2..Len(s) : s[i] # s[1]
  BY <1>1 DEF IsInjective
<1>3. IsInjective(Tail(s))
  BY <1>1 DEF IsInjective
<1>4. ASSUME NEW e
      PROVE  Contains(Tail(s), e) <=> Contains(s, e) /\ e # Head(s)
  <2>1. ASSUME Contains(Tail(s), e) PROVE Contains(s, e) /\ e # Head(s)
    BY <1>1, <1>2, <2>1 DEF Contains
  <2>2. ASSUME Contains(s, e), e # Head(s) PROVE Contains(Tail(s), e)
    <3>1. PICK i \in 1..Len(s) : s[i] = e
      BY <2>2 DEF Contains
    <3>2. i - 1 \in 1..(Len(s) - 1) /\ Tail(s)[i - 1] = e
      BY <1>1, <2>2, <3>1
    <3> QED
      BY <1>1, <3>2 DEF Contains
  <2> QED
    BY <2>1, <2>2
<1>5. Tail(s) \in Seq(S \ {Head(s)})
  <2>1. \A i \in 1..Len(Tail(s)) : Tail(s)[i] \in S \ {Head(s)}
    BY <1>1, <1>2
  <2> QED
    BY <1>1, <2>1, SeqOfMembers
<1> QED
  BY <1>1, <1>3, <1>4, <1>5 DEF Contains

\* Appending what a sequence does not contain keeps it without repetition.
LEMMA AppendFacts ==
  ASSUME NEW S, NEW s \in Seq(S), NEW x \in S, IsInjective(s), ~Contains(s, x)
  PROVE  /\ Append(s, x) \in Seq(S)
         /\ IsInjective(Append(s, x))
         /\ \A e : Contains(Append(s, x), e) <=> Contains(s, e) \/ e = x
<1>1. /\ Len(s) \in Nat /\ DOMAIN s = 1..Len(s)
      /\ Append(s, x) \in Seq(S) /\ Len(Append(s, x)) = Len(s) + 1
      /\ DOMAIN Append(s, x) = 1..(Len(s) + 1)
      /\ \A i \in 1..Len(s) : Append(s, x)[i] = s[i]
      /\ Append(s, x)[Len(s) + 1] = x
  OBVIOUS
<1>2. IsInjective(Append(s, x))
  BY <1>1 DEF IsInjective, Contains
<1>3. ASSUME NEW e
      PROVE  Contains(Append(s, x), e) <=> Contains(s, e) \/ e = x
  BY <1>1 DEF Contains
<1> QED
  BY <1>1, <1>2, <1>3
-----------------------------------------------------------------------------
\* Steps that leave every buffer where it is.
Calls ==
  \/ ProfilerInitialize \/ ProfilerPrepare \/ StartMupti \/ StartHost \/ ProfilerStop
  \/ ProfilerCollectData \/ Processed \/ Finalized

\* Steps that take the whole queue, with nothing taken before.
Consumes == ProfilerStart \/ Flushed \/ ProfilerFinalize

LEMMA CallsKeepBuffers ==
  ASSUME Calls
  PROVE  UNCHANGED <<now, heap, filling, content, activityBuffers, local, processed>>
  BY DEF Calls, ProfilerInitialize, ProfilerPrepare, StartMupti, StartHost, ProfilerStop,
         ProfilerCollectData, Processed, Finalized

LEMMA ConsumesTakeAll ==
  ASSUME Phases, Consumes
  PROVE  /\ local = <<>> /\ processed = 0
         /\ local' = activityBuffers /\ activityBuffers' = <<>>
         /\ UNCHANGED <<now, enabled, heap, filling, content, processed, ctx, events>>
  BY DEF Phases, Consumes, ProfilerStart, Flushed, ProfilerFinalize, ConsumeBuffers

\* A step in which nothing is appended or taken from a sequence of buffers
\* that may differ in kind.
LEMMA StepCases ==
  ASSUME Next
  PROVE  \/ \E b \in Buffer : BufferRequested(b) \/ Activity(b) \/ BufferCompleted(b)
         \/ Calls \/ Consumes
         \/ ReleaseStale \/ SkipBuffer \/ ProcessRecord \/ ReleaseProcessed
  BY DEF Next, Calls, Consumes

\* The first of the consumed buffers, and what is left without it.
LEMMA FirstConsumed ==
  ASSUME TypeOK, OwnedOnce, local # <<>>
  PROVE  /\ Head(local) \in heap /\ Head(local) \in Buffer
         /\ Head(local) \notin filling /\ ~Queued(Head(local)) /\ Consumed(Head(local))
         /\ Tail(local) \in Seq(heap \ {Head(local)})
         /\ IsInjective(Tail(local))
         /\ \A b : Contains(Tail(local), b) <=> Consumed(b) /\ b # Head(local)
<1>1. local \in Seq(heap) /\ heap \subseteq Buffer /\ IsInjective(local)
  BY DEF TypeOK, OwnedOnce
<1>2. /\ Head(local) \in heap /\ Contains(local, Head(local))
      /\ Tail(local) \in Seq(heap \ {Head(local)}) /\ IsInjective(Tail(local))
      /\ \A b : Contains(Tail(local), b) <=> Contains(local, b) /\ b # Head(local)
  BY <1>1, TailFacts
<1> QED
  BY <1>1, <1>2 DEF OwnedOnce, Queued, Consumed

LEMMA InitInv == Init => ProfilerInv
<1> SUFFICES ASSUME Init PROVE ProfilerInv
  OBVIOUS
<1> USE ProfilerAssumption
<1>1. TypeOK
  <2>1. content \in [Buffer -> Seq(Time)] /\ now \in Time
    BY DEF Init, Time
  <2>2. ctx \in [mupti : Time, host : Nat]
    BY DEF Init, Time, NoContext
  <2>3. <<>> \in Seq({}) /\ <<>> \in Seq([start : Time, at : Nat])
    BY EmptySeq
  <2> QED
    BY <2>1, <2>2, <2>3 DEF Init, TypeOK, State
<1>2. Phases /\ Clocks
  BY DEF Init, Phases, Clocks, NoContext
<1>3. OwnedOnce /\ OnlyEmptyLeaked
  BY DEF Init, OwnedOnce, OnlyEmptyLeaked, IsInjective, Queued, Consumed, Contains
<1>4. RecordsOnce /\ RecordsKept /\ EventsOfThisSession /\ ReportedOnce
  BY DEF Init, RecordsOnce, RecordsKept, EventsOfThisSession, ReportedOnce
<1> QED
  BY <1>1, <1>2, <1>3, <1>4 DEF ProfilerInv
-----------------------------------------------------------------------------
\* Every step preserves the type invariant.
LEMMA StepTypeOK == ASSUME ProfilerInv, Next PROVE TypeOK'
<1> USE ProfilerAssumption DEF ProfilerInv, Time
<1>1. CASE Calls
  <2>1. UNCHANGED <<now, heap, filling, content, activityBuffers, local, processed>>
    BY <1>1, CallsKeepBuffers
  <2>2. enabled' \in BOOLEAN /\ state' \in State
    BY <1>1
    DEF TypeOK, State, Calls, ProfilerInitialize, ProfilerPrepare, StartMupti, StartHost,
        ProfilerStop, ProfilerCollectData, Processed, Finalized
  <2>3. ctx' \in [mupti : Time, host : Nat]
    BY <1>1
    DEF TypeOK, NoContext, Calls, ProfilerInitialize, ProfilerPrepare, StartMupti, StartHost,
        ProfilerStop, ProfilerCollectData, Processed, Finalized
  <2>4. events' = events \/ events' = <<>>
    BY <1>1
    DEF Calls, ProfilerInitialize, ProfilerPrepare, StartMupti, StartHost,
        ProfilerStop, ProfilerCollectData, Processed, Finalized
  <2>5. events' \in Seq([start : Time, at : Nat])
    BY <2>4, EmptySeq DEF TypeOK
  <2> QED
    BY <2>1, <2>2, <2>3, <2>5 DEF TypeOK
<1>2. CASE Consumes
  <2>1. state' \in State
    BY <1>2 DEF Consumes, ProfilerStart, Flushed, ProfilerFinalize, State
  <2> QED
    BY <1>2, <2>1, ConsumesTakeAll DEF TypeOK
<1>3. ASSUME NEW b \in Buffer, BufferRequested(b) PROVE TypeOK'
  <2>1. content' \in [Buffer -> Seq(Time)]
    BY <1>3 DEF BufferRequested, TypeOK
  <2>2. activityBuffers' \in Seq(heap') /\ local' \in Seq(heap')
    BY <1>3, SeqMonotonic DEF BufferRequested, TypeOK
  <2> QED
    BY <1>3, <2>1, <2>2 DEF BufferRequested, TypeOK
<1>4. ASSUME NEW b \in Buffer, Activity(b) PROVE TypeOK'
  <2>1. now' \in Time
    BY <1>4 DEF Activity, TypeOK
  <2>2. content' \in [Buffer -> Seq(Time)]
    BY <1>4, <2>1 DEF Activity, TypeOK
  <2> QED
    BY <1>4, <2>1, <2>2 DEF Activity, TypeOK
<1>5. ASSUME NEW b \in Buffer, BufferCompleted(b) PROVE TypeOK'
  <2>1. activityBuffers' \in Seq(heap)
    BY <1>5 DEF BufferCompleted, TypeOK
  <2> QED
    BY <1>5, <2>1 DEF BufferCompleted, TypeOK
<1>6. CASE ReleaseStale \/ ReleaseProcessed
  <2>1. local # <<>>
    BY <1>6 DEF ReleaseStale, ReleaseProcessed
  <2>2. heap' = heap \ {Head(local)} /\ local' = Tail(local)
    BY <1>6 DEF ReleaseStale, ReleaseProcessed, ReleaseBuffer
  <2>3. UNCHANGED <<now, enabled, filling, content, activityBuffers, ctx, state, events>>
        /\ processed' \in Nat
    BY <1>6 DEF ReleaseStale, ReleaseProcessed, TypeOK
  <2>4. local' \in Seq(heap')
    BY <2>1, <2>2, FirstConsumed
  <2>5. activityBuffers' \in Seq(heap')
    <3>1. \A i \in 1..Len(activityBuffers) : activityBuffers[i] \in heap \ {Head(local)}
      BY <2>1, FirstConsumed DEF TypeOK, Queued, Contains
    <3>2. activityBuffers \in Seq(heap \ {Head(local)})
      BY <3>1, SeqOfMembers DEF TypeOK
    <3> QED
      BY <2>2, <2>3, <3>2
  <2>6. filling' \subseteq heap'
    BY <2>1, <2>2, <2>3, FirstConsumed DEF TypeOK
  <2> QED
    BY <2>2, <2>3, <2>4, <2>5, <2>6 DEF TypeOK
<1>7. CASE SkipBuffer
  <2>1. local # <<>> /\ local \in Seq(heap) /\ local' = Tail(local)
    BY <1>7 DEF SkipBuffer, TypeOK
  <2>2. local' \in Seq(heap)
    BY <2>1, HeadTailProperties
  <2> QED
    BY <1>7, <2>2 DEF SkipBuffer, TypeOK
<1>8. CASE ProcessRecord
  <2>1. NextRecord \in Time
    <3>1. content[Head(local)] \in Seq(Time)
      BY <1>8, FirstConsumed DEF ProcessRecord, TypeOK
    <3>2. processed + 1 \in 1..Len(content[Head(local)])
      BY <1>8, <3>1 DEF ProcessRecord, TypeOK
    <3> QED
      BY <3>1, <3>2, ElementOfSeq DEF NextRecord
  <2>2. ToHostTime(NextRecord) \in Nat
    BY <2>1 DEF ToHostTime, TypeOK
  <2>3. EventOf(NextRecord) \in [start : Time, at : Nat]
    BY <2>1, <2>2 DEF EventOf
  <2>4. events' \in Seq([start : Time, at : Nat])
    BY <1>8, <2>3, AppendProperties DEF ProcessRecord, TypeOK
  <2> QED
    BY <1>8, <2>4 DEF ProcessRecord, TypeOK
<1> QED
  BY <1>1, <1>2, <1>3, <1>4, <1>5, <1>6, <1>7, <1>8, StepCases
-----------------------------------------------------------------------------
\* The phases of the controlling thread bound what MUPTI's threads can do.
LEMMA StepPhases == ASSUME ProfilerInv, Next PROVE Phases'
<1> USE DEF ProfilerInv, Phases
<1>1. CASE Calls
  BY <1>1
  DEF TypeOK, State, Calls, ProfilerInitialize, ProfilerPrepare, StartMupti, StartHost,
      ProfilerStop, ProfilerCollectData, Processed, Finalized
<1>2. CASE Consumes
  <2>1. /\ local = <<>> /\ processed = 0
        /\ local' = activityBuffers /\ activityBuffers' = <<>>
        /\ UNCHANGED <<now, enabled, heap, filling, content, processed, ctx, events>>
    BY <1>2, ConsumesTakeAll
  <2>2. local' # <<>> => processed' <= Len(content'[Head(local')])
    <3> SUFFICES ASSUME local' # <<>> PROVE 0 <= Len(content[Head(activityBuffers)])
      BY <2>1
    <3>1. Head(activityBuffers) \in Buffer
      BY <2>1, HeadTailProperties DEF TypeOK
    <3>2. content[Head(activityBuffers)] \in Seq(Time)
      BY <3>1 DEF TypeOK
    <3> QED
      BY <3>2, LenProperties
  <2> QED
    BY <1>2, <2>1, <2>2 DEF Consumes, ProfilerStart, Flushed, ProfilerFinalize
<1>3. ASSUME NEW b \in Buffer, BufferRequested(b) PROVE Phases'
  <2>1. local # <<>> => Head(local) # b
    BY <1>3, FirstConsumed DEF BufferRequested
  <2>2. local # <<>> => content'[Head(local)] = content[Head(local)]
    BY <1>3, <2>1, FirstConsumed DEF BufferRequested, TypeOK
  <2> QED
    BY <1>3, <2>2 DEF BufferRequested, TypeOK, State
<1>4. ASSUME NEW b \in Buffer, Activity(b) PROVE Phases'
  <2>1. local # <<>> => Head(local) # b
    BY <1>4, FirstConsumed DEF Activity
  <2>2. local # <<>> => content'[Head(local)] = content[Head(local)]
    BY <1>4, <2>1, FirstConsumed DEF Activity, TypeOK
  <2> QED
    BY <1>4, <2>2 DEF Activity, TypeOK, State
<1>5. ASSUME NEW b \in Buffer, BufferCompleted(b) PROVE Phases'
  BY <1>5 DEF BufferCompleted
<1>6. ASSUME ReleaseStale \/ SkipBuffer \/ ReleaseProcessed PROVE Phases'
  <2>1. local # <<>> /\ local' = Tail(local)
    BY <1>6 DEF ReleaseStale, SkipBuffer, ReleaseProcessed
  <2>2. processed' = 0
    <3>1. CASE ReleaseStale
      BY <3>1 DEF ReleaseStale
    <3>2. CASE SkipBuffer
      BY <3>2 DEF SkipBuffer, TypeOK
    <3>3. CASE ReleaseProcessed
      BY <3>3 DEF ReleaseProcessed
    <3> QED
      BY <1>6, <3>1, <3>2, <3>3
  <2>3. local' # <<>> => processed' <= Len(content'[Head(local')])
    <3> SUFFICES ASSUME local' # <<>> PROVE 0 <= Len(content[Head(Tail(local))])
      BY <1>6, <2>1, <2>2 DEF ReleaseStale, SkipBuffer, ReleaseProcessed
    <3>1. Head(Tail(local)) \in Buffer
      BY <2>1, FirstConsumed, HeadTailProperties DEF TypeOK
    <3>2. content[Head(Tail(local))] \in Seq(Time)
      BY <3>1 DEF TypeOK
    <3> QED
      BY <3>2, LenProperties
  <2> QED
    BY <1>6, <2>1, <2>2, <2>3 DEF ReleaseStale, SkipBuffer, ReleaseProcessed
<1>7. CASE ProcessRecord
  BY <1>7 DEF ProcessRecord, TypeOK
<1> QED
  BY <1>1, <1>2, <1>3, <1>4, <1>5, <1>6, <1>7, StepCases

\* A session's start is in the past of MUPTI's clock.
LEMMA StepClocks == ASSUME ProfilerInv, Next PROVE Clocks'
<1> USE ProfilerAssumption DEF ProfilerInv, Clocks, TypeOK, Time
<1>1. CASE Calls
  <2>1. CASE ProfilerInitialize \/ Finalized
    BY <2>1 DEF NoContext, ProfilerInitialize, Finalized
  <2>2. CASE StartMupti
    BY <2>2 DEF StartMupti
  <2>3. CASE StartHost
    BY <2>3 DEF StartHost
  <2>4. CASE ProfilerPrepare \/ ProfilerStop \/ ProfilerCollectData \/ Processed
    BY <2>4 DEF ProfilerPrepare, ProfilerStop, ProfilerCollectData, Processed
  <2> QED
    BY <1>1, <2>1, <2>2, <2>3, <2>4 DEF Calls
<1>2. CASE Consumes
  BY <1>2, ConsumesTakeAll DEF Consumes, ProfilerStart, Flushed, ProfilerFinalize
<1>3. ASSUME NEW b \in Buffer, BufferRequested(b) \/ Activity(b) \/ BufferCompleted(b)
      PROVE  Clocks'
  BY <1>3 DEF BufferRequested, Activity, BufferCompleted
<1>4. CASE ReleaseStale \/ SkipBuffer \/ ProcessRecord \/ ReleaseProcessed
  BY <1>4 DEF ReleaseStale, SkipBuffer, ProcessRecord, ReleaseProcessed
<1> QED
  BY <1>1, <1>2, <1>3, <1>4, StepCases
-----------------------------------------------------------------------------
\* A buffer changes hands, and never has two owners.
LEMMA StepOwnedOnce == ASSUME ProfilerInv, Next PROVE OwnedOnce'
<1> USE DEF ProfilerInv, OwnedOnce, Queued, Consumed
<1>1. CASE Calls
  BY <1>1, CallsKeepBuffers
<1>2. CASE Consumes
  <2>1. \A b : ~Contains(<<>>, b)
    BY DEF Contains
  <2>2. IsInjective(<<>>)
    BY DEF IsInjective
  <2> QED
    BY <1>2, <2>1, <2>2, ConsumesTakeAll
<1>3. ASSUME NEW b \in Buffer, BufferRequested(b) PROVE OwnedOnce'
  <2>1. ~Queued(b) /\ ~Consumed(b)
    BY <1>3, ElementOfSeq DEF BufferRequested, TypeOK, Contains
  <2> QED
    BY <1>3, <2>1 DEF BufferRequested
<1>4. ASSUME NEW b \in Buffer, Activity(b) PROVE OwnedOnce'
  BY <1>4 DEF Activity
<1>5. ASSUME NEW b \in Buffer, BufferCompleted(b) PROVE OwnedOnce'
  <2>1. b \in filling /\ b \in heap /\ activityBuffers \in Seq(heap) /\ ~Contains(activityBuffers, b)
    BY <1>5 DEF BufferCompleted, TypeOK
  <2>2. /\ IsInjective(activityBuffers')
        /\ \A c : Contains(activityBuffers', c) <=> Contains(activityBuffers, c) \/ c = b
    BY <1>5, <2>1, AppendFacts DEF BufferCompleted
  <2> QED
    BY <1>5, <2>1, <2>2 DEF BufferCompleted
<1>6. CASE ReleaseStale \/ SkipBuffer \/ ReleaseProcessed
  <2>1. local # <<>> /\ local' = Tail(local) /\ UNCHANGED <<filling, activityBuffers>>
    BY <1>6 DEF ReleaseStale, SkipBuffer, ReleaseProcessed
  <2> QED
    BY <2>1, FirstConsumed
<1>7. CASE ProcessRecord
  BY <1>7 DEF ProcessRecord
<1> QED
  BY <1>1, <1>2, <1>3, <1>4, <1>5, <1>6, <1>7, StepCases

\* Nobody loses a buffer with records.
LEMMA StepOnlyEmptyLeaked == ASSUME ProfilerInv, Next PROVE OnlyEmptyLeaked'
<1> USE DEF ProfilerInv, OnlyEmptyLeaked, Queued, Consumed
<1>1. CASE Calls
  BY <1>1, CallsKeepBuffers
<1>2. CASE Consumes
  <2>1. \A b : ~Contains(local, b)
    BY <1>2, ConsumesTakeAll DEF Contains
  <2> QED
    BY <1>2, <2>1, ConsumesTakeAll
<1>3. ASSUME NEW b \in Buffer, BufferRequested(b) PROVE OnlyEmptyLeaked'
  BY <1>3 DEF BufferRequested, TypeOK
<1>4. ASSUME NEW b \in Buffer, Activity(b) PROVE OnlyEmptyLeaked'
  BY <1>4 DEF Activity, TypeOK
<1>5. ASSUME NEW b \in Buffer, BufferCompleted(b) PROVE OnlyEmptyLeaked'
  <2>1. b \in filling /\ b \in heap /\ activityBuffers \in Seq(heap) /\ ~Contains(activityBuffers, b)
    BY <1>5 DEF BufferCompleted, TypeOK, OwnedOnce
  <2>2. \A c : Contains(activityBuffers', c) <=> Contains(activityBuffers, c) \/ c = b
    BY <1>5, <2>1, AppendFacts DEF BufferCompleted, OwnedOnce
  <2> QED
    BY <1>5, <2>2 DEF BufferCompleted
<1>6. CASE ReleaseStale \/ ReleaseProcessed
  BY <1>6, FirstConsumed DEF ReleaseStale, ReleaseProcessed, ReleaseBuffer
<1>7. CASE SkipBuffer
  BY <1>7, FirstConsumed DEF SkipBuffer
<1>8. CASE ProcessRecord
  BY <1>8 DEF ProcessRecord
<1> QED
  BY <1>1, <1>2, <1>3, <1>4, <1>5, <1>6, <1>7, <1>8, StepCases
-----------------------------------------------------------------------------
\* Records the loop has not come to stay as they are when a step leaves the
\* content of the buffers and what has been read alone.
LEMMA UnreadKept ==
  ASSUME TypeOK, OwnedOnce, Phases,
         UNCHANGED content,
         \/ UNCHANGED <<heap, local, processed>>
         \/ Consumes
         \/ ReleaseStale \/ SkipBuffer \/ ReleaseProcessed
  PROVE  /\ heap' \subseteq heap
         /\ \A b, i : Unread(b, i)' => Unread(b, i)
         /\ \A b, i : Unread(b, i) /\ ~Unread(b, i)' => ReleaseStale
<1>1. CASE UNCHANGED <<heap, local, processed>>
  BY <1>1 DEF Unread
<1>2. CASE Consumes
  BY <1>2, ConsumesTakeAll DEF Unread
<1>3. CASE ReleaseStale
  BY <1>3 DEF ReleaseStale, ReleaseBuffer, Unread, Phases
<1>4. CASE SkipBuffer
  <2>1. processed = 0
    BY <1>4 DEF SkipBuffer, Phases, TypeOK
  <2> QED
    BY <1>4, <2>1 DEF SkipBuffer, Unread
<1>5. CASE ReleaseProcessed
  BY <1>5 DEF ReleaseProcessed, ReleaseBuffer, Unread
<1> QED
  BY <1>1, <1>2, <1>3, <1>4, <1>5

\* Records are made once, and a record that was reported is never read again.
LEMMA StepRecordsOnce == ASSUME ProfilerInv, Next PROVE RecordsOnce'
<1> USE DEF ProfilerInv
<1>1. ASSUME Calls \/ Consumes \/ ReleaseStale \/ SkipBuffer \/ ReleaseProcessed
               \/ \E b \in Buffer : BufferCompleted(b)
      PROVE  RecordsOnce'
  <2>1. UNCHANGED <<content, now>>
    BY <1>1, CallsKeepBuffers, ConsumesTakeAll
    DEF ReleaseStale, SkipBuffer, ReleaseProcessed, BufferCompleted
  <2>2. heap' \subseteq heap /\ \A b, i : Unread(b, i)' => Unread(b, i)
    <3>1. \/ UNCHANGED <<heap, local, processed>>
          \/ Consumes
          \/ ReleaseStale \/ SkipBuffer \/ ReleaseProcessed
      BY <1>1, CallsKeepBuffers DEF BufferCompleted
    <3> QED
      BY <2>1, <3>1, UnreadKept
  <2>3. events' = events \/ events' = <<>>
    BY <1>1, ConsumesTakeAll
    DEF Calls, ProfilerInitialize, ProfilerPrepare, StartMupti, StartHost, ProfilerStop,
        ProfilerCollectData, Processed, Finalized, ReleaseStale, SkipBuffer, ReleaseProcessed,
        BufferCompleted
  <2> QED
    BY <2>1, <2>2, <2>3 DEF RecordsOnce
<1>2. ASSUME NEW b \in Buffer, BufferRequested(b) PROVE RecordsOnce'
  <2>1. /\ heap' = heap \cup {b} /\ content'[b] = <<>>
        /\ \A c \in heap : content'[c] = content[c]
        /\ UNCHANGED <<now, events>>
    BY <1>2 DEF BufferRequested, TypeOK
  <2>2. \A c \in heap' : \A i : Unread(c, i)' => c \in heap /\ Unread(c, i)
    BY <1>2, <2>1 DEF BufferRequested, Unread
  <2> QED
    BY <2>1, <2>2 DEF RecordsOnce
<1>3. ASSUME NEW b \in Buffer, Activity(b) PROVE RecordsOnce'
  <2> DEFINE n == Len(content[b])
  <2>1. /\ content[b] \in Seq(Time) /\ n \in Nat /\ now \in Nat /\ now' = now + 1
        /\ b \in heap /\ b \in filling
    BY <1>3, LenProperties DEF Activity, TypeOK, Time
  <2>2. /\ content'[b] = Append(content[b], now + 1)
        /\ \A c \in heap : c # b => content'[c] = content[c]
        /\ UNCHANGED <<heap, events, local, processed>>
    BY <1>3, <2>1 DEF Activity, TypeOK
  <2>3. /\ Len(content'[b]) = n + 1 /\ content'[b][n + 1] = now + 1
        /\ \A i \in 1..n : content'[b][i] = content[b][i]
    BY <2>1, <2>2
  <2>4. \A c \in heap : \A i \in 1..Len(content'[c]) :
          \/ i \in 1..Len(content[c]) /\ content'[c][i] = content[c][i]
          \/ c = b /\ i = n + 1 /\ content'[c][i] = now + 1
    BY <2>1, <2>2, <2>3
  <2>5. \A c \in heap : \A i \in 1..Len(content[c]) : 1 <= content[c][i] /\ content[c][i] <= now
    BY DEF RecordsOnce
  <2>6. \A c \in heap : \A i \in 1..Len(content[c]) : content[c][i] \in Nat
    <3> SUFFICES ASSUME NEW c \in heap, NEW i \in 1..Len(content[c])
                 PROVE  content[c][i] \in Time
      BY DEF Time
    <3>1. content[c] \in Seq(Time)
      BY DEF TypeOK
    <3> QED
      BY <3>1, ElementOfSeq
  <2>7. \A i \in 1..Len(events) : events[i].start <= now /\ events[i].start \in Nat
    <3> SUFFICES ASSUME NEW i \in 1..Len(events) PROVE events[i].start \in Time
      BY DEF RecordsOnce, Time
    <3>1. events[i] \in [start : Time, at : Nat]
      BY ElementOfSeq DEF TypeOK
    <3> QED
      BY <3>1
  <2>8. \A c \in heap : \A i \in 1..Len(content'[c]) : 1 <= content'[c][i] /\ content'[c][i] <= now'
    BY <2>1, <2>4, <2>5, <2>6
  <2>9. \A c, d \in heap : \A i \in 1..Len(content'[c]), j \in 1..Len(content'[d]) :
          content'[c][i] = content'[d][j] => c = d /\ i = j
    <3> SUFFICES ASSUME NEW c \in heap, NEW d \in heap, NEW i \in 1..Len(content'[c]),
                        NEW j \in 1..Len(content'[d]), content'[c][i] = content'[d][j]
                 PROVE  c = d /\ i = j
      OBVIOUS
    <3>1. CASE i \in 1..Len(content[c]) /\ content'[c][i] = content[c][i]
      <4>1. content'[d][j] # now + 1
        <5>1. content[c][i] \in Nat /\ content[c][i] <= now
          BY <3>1, <2>5, <2>6
        <5> QED
          BY <3>1, <5>1, <2>1
      <4>2. j \in 1..Len(content[d]) /\ content'[d][j] = content[d][j]
        BY <2>4, <4>1
      <4>3. content[c][i] = content[d][j]
        BY <3>1, <4>2
      <4> QED
        BY <3>1, <4>2, <4>3 DEF RecordsOnce
    <3>2. CASE c = b /\ i = n + 1 /\ content'[c][i] = now + 1
      <4>1. ~(j \in 1..Len(content[d]) /\ content'[d][j] = content[d][j])
        BY <3>2, <2>1, <2>5, <2>6
      <4> QED
        BY <3>2, <2>4, <4>1
    <3> QED
      BY <2>4, <3>1, <3>2
  <2>10. \A c \in heap : \A i \in 1..Len(content'[c]) :
           Unread(c, i)' => \A j \in 1..Len(events) : events[j].start # content'[c][i]
    <3> SUFFICES ASSUME NEW c \in heap, NEW i \in 1..Len(content'[c]), Unread(c, i)',
                        NEW j \in 1..Len(events)
                 PROVE  events[j].start # content'[c][i]
      OBVIOUS
    <3>1. CASE i \in 1..Len(content[c]) /\ content'[c][i] = content[c][i]
      BY <3>1, <2>2 DEF Unread, RecordsOnce
    <3>2. CASE content'[c][i] = now + 1
      BY <3>2, <2>1, <2>7
    <3> QED
      BY <2>4, <3>1, <3>2
  <2>11. \A i \in 1..Len(events) : events[i].start <= now'
    BY <2>1, <2>7
  <2> QED
    BY <2>2, <2>8, <2>9, <2>10, <2>11 DEF RecordsOnce
<1>4. CASE ProcessRecord
  <2> DEFINE b == Head(local)
  <2>1. /\ b \in heap /\ b \in Buffer /\ content[b] \in Seq(Time)
        /\ processed + 1 \in 1..Len(content[b]) /\ processed' = processed + 1
        /\ UNCHANGED <<now, heap, content, local>>
    BY <1>4, FirstConsumed, LenProperties DEF ProcessRecord, TypeOK
  <2>2. NextRecord = content[b][processed + 1] /\ NextRecord <= now
    BY <2>1 DEF NextRecord, RecordsOnce
  <2>3. \A c, i : Unread(c, i)' => Unread(c, i) /\ ~(c = b /\ i = processed + 1)
    BY <1>4, <2>1 DEF Unread, ProcessRecord, TypeOK
  <2>4. CASE events' = events
    BY <2>1, <2>3, <2>4 DEF RecordsOnce
  <2>5. CASE events' = Append(events, EventOf(NextRecord))
    <3>1. events \in Seq([start : Time, at : Nat]) /\ Len(events) \in Nat
      BY LenProperties DEF TypeOK
    <3>2. /\ Len(events') = Len(events) + 1
          /\ \A j \in 1..Len(events) : events'[j] = events[j]
          /\ events'[Len(events) + 1].start = NextRecord
      BY <2>5, <3>1 DEF EventOf
    <3>3. \A j \in 1..Len(events') : \/ j \in 1..Len(events) /\ events'[j] = events[j]
                                     \/ events'[j].start = NextRecord
      BY <3>1, <3>2
    <3>4. \A j \in 1..Len(events') : events'[j].start <= now'
      BY <2>1, <2>2, <3>3 DEF RecordsOnce
    <3>5. ASSUME NEW c \in heap', NEW i \in 1..Len(content'[c]), Unread(c, i)',
                 NEW j \in 1..Len(events')
          PROVE  events'[j].start # content'[c][i]
      <4>1. Unread(c, i) /\ content[c][i] # NextRecord
        BY <2>1, <2>2, <2>3, <3>5 DEF RecordsOnce
      <4> QED
        BY <2>1, <3>3, <3>5, <4>1 DEF RecordsOnce
    <3> QED
      BY <2>1, <3>4, <3>5 DEF RecordsOnce
  <2> QED
    BY <1>4, <2>4, <2>5 DEF ProcessRecord
<1> QED
  BY <1>1, <1>2, <1>3, <1>4, StepCases

\* The record the loop takes next: it is unread until it is taken.
LEMMA NextIsUnread ==
  ASSUME ProfilerInv, ProcessRecord
  PROVE  /\ Head(local) \in heap
         /\ processed + 1 \in 1..Len(content[Head(local)])
         /\ Unread(Head(local), processed + 1)
         /\ NextRecord = content[Head(local)][processed + 1]
         /\ NextRecord \in Time
         /\ \A b, i : Unread(b, i) => Unread(b, i)' \/ (b = Head(local) /\ i = processed + 1)
<1> USE DEF ProfilerInv
<1>1. /\ Head(local) \in heap /\ content[Head(local)] \in Seq(Time)
      /\ local # <<>> /\ processed \in Nat
      /\ processed < Len(content[Head(local)]) /\ processed' = processed + 1
      /\ UNCHANGED <<heap, content, local>>
  BY FirstConsumed DEF ProcessRecord, TypeOK
<1>2. processed + 1 \in 1..Len(content[Head(local)])
  BY <1>1, LenProperties
<1>3. NextRecord \in Time
  BY <1>1, <1>2, ElementOfSeq DEF NextRecord
<1>4. \A b, i : Unread(b, i) => Unread(b, i)' \/ (b = Head(local) /\ i = processed + 1)
  <2> SUFFICES ASSUME NEW b, NEW i, Unread(b, i), ~(b = Head(local) /\ i = processed + 1)
               PROVE  Unread(b, i)'
    OBVIOUS
  <2>1. b \in heap /\ i \in 1..Len(content[b])
    BY DEF Unread
  <2> QED
    BY <1>1, <2>1 DEF Unread
<1> QED
  BY <1>1, <1>2, <1>3, <1>4 DEF Unread, NextRecord

\* What the loop does with the record: an event of the session's, or nothing.
LEMMA ProcessedEvents ==
  ASSUME ProfilerInv, ProcessRecord
  PROVE  \/ /\ events' = events /\ ~Wanted(NextRecord)
         \/ /\ Wanted(NextRecord)
            /\ Len(events') = Len(events) + 1
            /\ \A j \in 1..Len(events) : events'[j] = events[j]
            /\ events'[Len(events) + 1] = EventOf(NextRecord)
<1>1. events \in Seq([start : Time, at : Nat])
  BY DEF ProfilerInv, TypeOK
<1> QED
  BY <1>1, AppendProperties DEF ProcessRecord

\* No step loses a record of the session.
LEMMA StepRecordsKept == ASSUME ProfilerInv, Next PROVE RecordsKept'
<1> USE DEF ProfilerInv
<1> DEFINE InSession ==
      state \in {"startStamp", "started", "stopped", "flush", "process", "collected"}
           Kept(r) ==
      Reported(r) \/ \E b \in heap : \E i \in 1..Len(content[b]) : Unread(b, i) /\ content[b][i] = r
<1>0. ctx.mupti \in Nat /\ now \in Nat
  BY DEF TypeOK, Time
<1>1. ASSUME UNCHANGED <<content, now>>,
             ~ReleaseStale,
             \/ UNCHANGED <<heap, local, processed>>
             \/ Consumes \/ SkipBuffer \/ ReleaseProcessed,
             InSession' => InSession /\ UNCHANGED <<ctx, events>>
      PROVE  RecordsKept'
  <2>1. \A b, i : Unread(b, i) => Unread(b, i)'
    BY <1>1, UnreadKept
  <2>2. \A b, i : Unread(b, i)' => b \in heap'
    BY DEF Unread
  <2> QED
    BY <1>1, <2>1, <2>2 DEF RecordsKept, Reported
<1>2. CASE StartMupti
  BY <1>0, <1>2 DEF StartMupti, RecordsKept, TypeOK
<1>3. CASE StartHost
  <2>1. ctx'.mupti = ctx.mupti /\ InSession /\ UNCHANGED events
    BY <1>3 DEF StartHost, TypeOK
  <2>2. UNCHANGED <<heap, local, processed, content, now>>
    BY <1>3 DEF StartHost
  <2>3. \A b, i : Unread(b, i) <=> Unread(b, i)'
    BY <2>2 DEF Unread
  <2> QED
    BY <2>1, <2>2, <2>3 DEF RecordsKept, Reported
<1>4. CASE Calls /\ ~StartMupti /\ ~StartHost
  <2>1. InSession' => InSession /\ UNCHANGED <<ctx, events>>
    BY <1>4 DEF Calls, ProfilerInitialize, ProfilerPrepare, ProfilerStop, ProfilerCollectData,
                Processed, Finalized
  <2>2. ~ReleaseStale
    BY <1>4 DEF Calls, ProfilerInitialize, ProfilerPrepare, ProfilerStop, ProfilerCollectData,
                Processed, Finalized, ReleaseStale
  <2> QED
    BY <1>1, <1>4, <2>1, <2>2, CallsKeepBuffers
<1>5. CASE Consumes
  BY <1>1, <1>5, ConsumesTakeAll
  DEF Consumes, ProfilerStart, Flushed, ProfilerFinalize, ReleaseStale
<1>6. CASE SkipBuffer \/ ReleaseProcessed
  BY <1>1, <1>6 DEF SkipBuffer, ReleaseProcessed, ReleaseStale
<1>7. CASE ReleaseStale
  BY <1>7 DEF ReleaseStale, RecordsKept
<1>8. ASSUME NEW b \in Buffer, BufferRequested(b) PROVE RecordsKept'
  <2>1. /\ heap' = heap \cup {b} /\ b \notin heap
        /\ \A c \in heap : content'[c] = content[c]
        /\ UNCHANGED <<now, events, ctx, state, local, processed>>
    BY <1>8 DEF BufferRequested, TypeOK
  <2>2. \A c, i : Unread(c, i) => Unread(c, i)'
    BY <2>1 DEF Unread
  <2> QED
    BY <2>1, <2>2 DEF RecordsKept, Reported
<1>9. ASSUME NEW b \in Buffer, Activity(b) PROVE RecordsKept'
  <2> DEFINE n == Len(content[b])
  <2>1. /\ content[b] \in Seq(Time) /\ n \in Nat /\ now' = now + 1
        /\ b \in heap /\ b \in filling
    BY <1>9, LenProperties DEF Activity, TypeOK
  <2>2. /\ content'[b] = Append(content[b], now + 1)
        /\ \A c \in heap : c # b => content'[c] = content[c]
        /\ UNCHANGED <<heap, events, ctx, state, local, processed>>
    BY <1>9, <2>1 DEF Activity, TypeOK
  <2>3. /\ Len(content'[b]) = n + 1 /\ content'[b][n + 1] = now + 1
        /\ \A i \in 1..n : content'[b][i] = content[b][i]
    BY <2>1, <2>2
  <2>4. \A c, i : Unread(c, i) => Unread(c, i)' /\ content'[c][i] = content[c][i]
    BY <2>1, <2>2, <2>3 DEF Unread
  <2>5. ASSUME NEW k, k = n + 1 PROVE Unread(b, k)'
    <3>1. local # <<>> => b # Head(local)
      BY <2>1, FirstConsumed
    <3>2. k \in 1..Len(content'[b])
      BY <2>1, <2>3, <2>5
    <3>3. b \in heap' /\ local' = local
      BY <2>1, <2>2
    <3> QED
      BY <3>1, <3>2, <3>3 DEF Unread
  <2>6. \A c, i : Unread(c, i)' => c \in heap' /\ i \in 1..Len(content'[c])
    BY DEF Unread
  <2> SUFFICES ASSUME InSession', NEW r \in (ctx.mupti + 1)..now' PROVE Kept(r)'
    BY <2>2 DEF RecordsKept
  <2>7. CASE r = now + 1
    BY <2>1, <2>2, <2>3, <2>5, <2>7
  <2>8. CASE r \in (ctx.mupti + 1)..now
    <3>1. Kept(r)
      BY <2>2, <2>8 DEF RecordsKept
    <3> QED
      BY <2>2, <2>4, <2>6, <3>1 DEF Reported
  <2> QED
    BY <1>0, <2>1, <2>7, <2>8
<1>10. ASSUME NEW b \in Buffer, BufferCompleted(b) PROVE RecordsKept'
  <2>1. UNCHANGED <<heap, local, processed, content, now, ctx, events, state>>
    BY <1>10 DEF BufferCompleted
  <2>2. \A c, i : Unread(c, i) <=> Unread(c, i)'
    BY <2>1 DEF Unread
  <2> QED
    BY <2>1, <2>2 DEF RecordsKept, Reported
<1>11. CASE ProcessRecord
  <2>1. UNCHANGED <<heap, content, now, ctx, state>>
    BY <1>11 DEF ProcessRecord
  <2>2. \A r : Reported(r) => Reported(r)'
    <3>1. events \in Seq([start : Time, at : Nat]) /\ DOMAIN events = 1..Len(events)
          /\ Len(events) \in Nat
      BY LenProperties DEF TypeOK
    <3>2. \A j \in 1..Len(events) : j \in DOMAIN events' /\ events'[j] = events[j]
      BY <1>11, <3>1 DEF ProcessRecord
    <3> QED
      BY <3>1, <3>2 DEF Reported
  <2>3. ASSUME NEW r \in (ctx.mupti + 1)..now, r = NextRecord
        PROVE  Reported(r)'
    <3>0. NextRecord \in Nat
      BY <1>11, NextIsUnread DEF Time
    <3>1. Wanted(NextRecord)
      BY <1>0, <2>3, <3>0 DEF Wanted
    <3>2. events' = Append(events, EventOf(NextRecord))
      BY <1>11, <3>1 DEF ProcessRecord
    <3>3. events \in Seq([start : Time, at : Nat])
      BY DEF TypeOK
    <3>4. Len(events) + 1 \in DOMAIN events' /\ events'[Len(events) + 1].start = NextRecord
      BY <3>2, <3>3 DEF EventOf
    <3> QED
      BY <2>3, <3>4 DEF Reported
  <2> SUFFICES ASSUME InSession', NEW r \in (ctx.mupti + 1)..now PROVE Kept(r)'
    BY <2>1 DEF RecordsKept
  <2>4. Kept(r)
    BY <2>1 DEF RecordsKept
  <2>5. CASE Reported(r)
    BY <2>2, <2>5
  <2>6. ASSUME NEW b \in heap, NEW i \in 1..Len(content[b]), Unread(b, i), content[b][i] = r
        PROVE  Kept(r)'
    <3>1. CASE Unread(b, i)'
      BY <2>1, <2>6, <3>1
    <3>2. CASE b = Head(local) /\ i = processed + 1
      <4>1. r = NextRecord
        BY <1>11, <2>6, <3>2, NextIsUnread
      <4> QED
        BY <2>3, <4>1
    <3> QED
      BY <1>11, <2>6, <3>1, <3>2, NextIsUnread
  <2> QED
    BY <2>4, <2>5, <2>6
<1> QED
  BY <1>2, <1>3, <1>4, <1>5, <1>6, <1>7, <1>8, <1>9, <1>10, <1>11, StepCases

\* What is reported is of the session that is being collected.
LEMMA StepEventsOfThisSession == ASSUME ProfilerInv, Next PROVE EventsOfThisSession'
<1> USE ProfilerAssumption DEF ProfilerInv
<1>1. ASSUME UNCHANGED <<ctx, events>> PROVE EventsOfThisSession'
  BY <1>1 DEF EventsOfThisSession
<1>2. ASSUME events' = <<>> PROVE EventsOfThisSession'
  BY <1>2 DEF EventsOfThisSession
<1>3. CASE ProcessRecord
  <2>1. NextRecord \in Nat /\ ctx.mupti \in Nat /\ ctx.host \in Nat
    BY <1>3, NextIsUnread DEF TypeOK, Time
  <2>2. 1 <= ctx.mupti /\ ctx.mupti + Skew <= ctx.host
    BY <1>3 DEF Clocks, ProcessRecord
  <2>3. CASE events' = events
    BY <1>1, <1>3, <2>3 DEF ProcessRecord
  <2>4. ASSUME Wanted(NextRecord), Len(events') = Len(events) + 1,
               \A j \in 1..Len(events) : events'[j] = events[j],
               events'[Len(events) + 1] = EventOf(NextRecord)
        PROVE  EventsOfThisSession'
    <3>1. NextRecord >= ctx.mupti
      BY <2>1, <2>4 DEF Wanted
    <3>2. ToHostTime(NextRecord) >= NextRecord + Skew
      BY <2>1, <2>2, <3>1 DEF ToHostTime
    <3>3. /\ events'[Len(events) + 1].start >= ctx.mupti
          /\ events'[Len(events) + 1].at >= events'[Len(events) + 1].start + Skew
      BY <2>4, <3>1, <3>2 DEF EventOf
    <3>4. Len(events) \in Nat /\ DOMAIN events = 1..Len(events) /\ DOMAIN events' = 1..(Len(events) + 1)
      <4>1. events \in Seq([start : Time, at : Nat]) /\ events' \in Seq([start : Time, at : Nat])
        BY StepTypeOK DEF TypeOK
      <4> QED
        BY <2>4, <4>1, LenProperties
    <3>5. ctx' = ctx
      BY <1>3 DEF ProcessRecord
    <3> SUFFICES ASSUME NEW i \in 1..(Len(events) + 1)
                 PROVE  events'[i].start >= ctx.mupti /\ events'[i].at >= events'[i].start + Skew
      BY <3>4, <3>5 DEF EventsOfThisSession
    <3>6. i \in 1..Len(events) \/ i = Len(events) + 1
      BY <3>4
    <3> QED
      BY <2>4, <3>3, <3>4, <3>6 DEF EventsOfThisSession
  <2> QED
    BY <1>3, <2>3, <2>4, ProcessedEvents
<1>4. CASE ProfilerInitialize \/ StartMupti \/ StartHost
  BY <1>2, <1>4 DEF ProfilerInitialize, StartMupti, StartHost, Phases
<1>5. CASE ProfilerPrepare \/ Finalized
  BY <1>2, <1>5 DEF ProfilerPrepare, Finalized
<1>6. CASE ProfilerStop \/ ProfilerCollectData \/ Processed
  BY <1>1, <1>6 DEF ProfilerStop, ProfilerCollectData, Processed
<1>7. CASE Consumes
  BY <1>1, <1>7, ConsumesTakeAll
<1>8. ASSUME NEW b \in Buffer, BufferRequested(b) \/ Activity(b) \/ BufferCompleted(b)
      PROVE  EventsOfThisSession'
  BY <1>1, <1>8 DEF BufferRequested, Activity, BufferCompleted
<1>9. CASE ReleaseStale \/ SkipBuffer \/ ReleaseProcessed
  BY <1>1, <1>9 DEF ReleaseStale, SkipBuffer, ReleaseProcessed
<1> QED
  BY <1>3, <1>4, <1>5, <1>6, <1>7, <1>8, <1>9, StepCases DEF Calls

\* Only a record that has not been reported is.
LEMMA StepReportedOnce == ASSUME ProfilerInv, Next PROVE ReportedOnce'
<1> USE DEF ProfilerInv
<1>1. ASSUME events' = events \/ events' = <<>> PROVE ReportedOnce'
  BY <1>1 DEF ReportedOnce
<1>2. CASE ProcessRecord
  <2>1. Len(events) \in Nat /\ DOMAIN events = 1..Len(events) /\ DOMAIN events' = 1..Len(events')
    <3>1. events \in Seq([start : Time, at : Nat]) /\ events' \in Seq([start : Time, at : Nat])
      BY StepTypeOK DEF TypeOK
    <3> QED
      BY <3>1, LenProperties
  <2>2. \A j \in 1..Len(events) : events[j].start # NextRecord
    BY <1>2, NextIsUnread DEF RecordsOnce
  <2>3. ASSUME Len(events') = Len(events) + 1,
               \A j \in 1..Len(events) : events'[j] = events[j],
               events'[Len(events) + 1] = EventOf(NextRecord)
        PROVE  ReportedOnce'
    <3>1. events'[Len(events) + 1].start = NextRecord
      BY <2>3 DEF EventOf
    <3>2. \A j \in 1..Len(events') : j \in 1..Len(events) \/ j = Len(events) + 1
      BY <2>1, <2>3
    <3> QED
      BY <2>1, <2>2, <2>3, <3>1, <3>2 DEF ReportedOnce
  <2> QED
    BY <1>1, <1>2, <2>3, ProcessedEvents
<1>3. CASE Calls \/ Consumes
  BY <1>1, <1>3, ConsumesTakeAll
  DEF Calls, ProfilerInitialize, ProfilerPrepare, StartMupti, StartHost, ProfilerStop,
      ProfilerCollectData, Processed, Finalized
<1>4. ASSUME NEW b \in Buffer, BufferRequested(b) \/ Activity(b) \/ BufferCompleted(b)
      PROVE  ReportedOnce'
  BY <1>1, <1>4 DEF BufferRequested, Activity, BufferCompleted
<1>5. CASE ReleaseStale \/ SkipBuffer \/ ReleaseProcessed
  BY <1>1, <1>5 DEF ReleaseStale, SkipBuffer, ReleaseProcessed
<1> QED
  BY <1>2, <1>3, <1>4, <1>5, StepCases
-----------------------------------------------------------------------------
LEMMA StepInv == ProfilerInv /\ [Next]_vars => ProfilerInv'
<1> SUFFICES ASSUME ProfilerInv, [Next]_vars PROVE ProfilerInv'
  OBVIOUS
<1>1. CASE Next
  BY <1>1, StepTypeOK, StepPhases, StepClocks, StepOwnedOnce, StepOnlyEmptyLeaked,
     StepRecordsOnce, StepRecordsKept, StepEventsOfThisSession, StepReportedOnce
  DEF ProfilerInv
<1>2. CASE UNCHANGED vars
  <2> USE <1>2 DEF vars, ProfilerInv
  <2>1. TypeOK' /\ Phases' /\ Clocks'
    BY DEF TypeOK, Phases, Clocks
  <2>2. OwnedOnce' /\ OnlyEmptyLeaked'
    BY DEF OwnedOnce, OnlyEmptyLeaked, Queued, Consumed
  <2>3. RecordsOnce' /\ RecordsKept'
    BY DEF RecordsOnce, RecordsKept, Unread, Reported
  <2>4. EventsOfThisSession' /\ ReportedOnce'
    BY DEF EventsOfThisSession, ReportedOnce
  <2> QED
    BY <2>1, <2>2, <2>3, <2>4
<1> QED
  BY <1>1, <1>2

\* In every state the profiler can be in, with any number of sessions behind it.
THEOREM ProfilerInvariant == Spec => []ProfilerInv
  BY InitInv, StepInv, PTL DEF Spec

THEOREM ProfilerTypeCorrect == Spec => []TypeOK
<1>1. ProfilerInv => TypeOK
  BY DEF ProfilerInv
<1> QED
  BY <1>1, ProfilerInvariant, PTL

\* No buffer is read while MUPTI writes to it, and none is freed twice.
THEOREM BuffersHaveOneOwner == Spec => []OwnedOnce
<1>1. ProfilerInv => OwnedOnce
  BY DEF ProfilerInv
<1> QED
  BY <1>1, ProfilerInvariant, PTL

\* Every buffer that had a record is freed or will be.
THEOREM MemoryIsGivenBack == Spec => []OnlyEmptyLeaked
<1>1. ProfilerInv => OnlyEmptyLeaked
  BY DEF ProfilerInv
<1> QED
  BY <1>1, ProfilerInvariant, PTL

\* Late buffers of an earlier session are never reported in this one.
THEOREM SessionsAreSeparate == Spec => []EventsOfThisSession
<1>1. ProfilerInv => EventsOfThisSession
  BY DEF ProfilerInv
<1> QED
  BY <1>1, ProfilerInvariant, PTL

\* However often data is collected, no record is reported twice.
THEOREM NoDuplicates == Spec => []ReportedOnce
<1>1. ProfilerInv => ReportedOnce
  BY DEF ProfilerInv
<1> QED
  BY <1>1, ProfilerInvariant, PTL

\* Once collected no record of the session is missing: it would have to be in
\* a buffer that someone still holds, and nobody does.
THEOREM NothingMissing == Spec => []SessionComplete
<1>1. ProfilerInv => SessionComplete
  <2> SUFFICES ASSUME ProfilerInv, state = "collected", NEW r \in (ctx.mupti + 1)..now
               PROVE  Reported(r)
    BY DEF SessionComplete
  <2>1. local = <<>> /\ filling = {} /\ activityBuffers = <<>>
    BY DEF ProfilerInv, Phases
  <2>2. \A b \in heap : content[b] = <<>>
    BY <2>1 DEF ProfilerInv, OnlyEmptyLeaked, Queued, Consumed, Contains
  <2> QED
    BY <2>2 DEF ProfilerInv, RecordsKept
<1> QED
  BY <1>1, ProfilerInvariant, PTL
=============================================================================
