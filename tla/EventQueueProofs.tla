------------------------- MODULE EventQueueProofs -------------------------
(***************************************************************************)
(* The safety properties of EventQueue, proved for any number of events,   *)
(* any sizes and any number of restarts.                                   *)
(***************************************************************************)
EXTENDS EventQueue, SequenceLemmas
-----------------------------------------------------------------------------
(* The operators the model is built from.                                  *)

(* DeadLetterQueue.Add stays within the capacity, grows by one entry at     *)
(* most, and accounts for every entry: kept or discarded.                  *)
LEMMA DLQAddProperties ==
    ASSUME NEW q \in Seq(Events), Len(q) <= DeadLetterQueueSize, NEW e \in Events
    PROVE  /\ DLQAdd(q, e) \in Seq(Events)
           /\ Len(DLQAdd(q, e)) <= DeadLetterQueueSize
           /\ Len(q) <= Len(DLQAdd(q, e)) /\ Len(DLQAdd(q, e)) <= Len(q) + 1
           /\ DLQDiscarded(q, e) \subseteq Events
           /\ Range(q) \cup {e} = Range(DLQAdd(q, e)) \cup DLQDiscarded(q, e)
           /\ DLQDiscarded(q, e) = {} => DLQAdd(q, e) = Append(q, e)
<1> DEFINE t == Append(q, e)
<1>1. /\ t \in Seq(Events) /\ t # <<>>
      /\ Len(t) = Len(q) + 1 /\ Len(q) \in Nat
      /\ DeadLetterQueueSize \in Nat
  BY AppendProperties, LenProperties, ConfigAssumption
<1>2. Range(t) = Range(q) \cup {e}
  BY RangeAppend
<1>3. CASE Len(t) > DeadLetterQueueSize
  <2>1. DLQAdd(q, e) = Tail(t) /\ DLQDiscarded(q, e) = {Head(t)}
    BY <1>3 DEF DLQAdd, DLQDiscarded
  <2>2. /\ Head(t) \in Events
        /\ Tail(t) \in Seq(Events)
        /\ Len(Tail(t)) = Len(t) - 1
    BY <1>1, HeadTailProperties
  <2>3. Range(t) = {Head(t)} \cup Range(Tail(t))
    BY <1>1, RangeHeadTail
  <2> HIDE DEF t
  <2> QED  BY <1>1, <1>2, <1>3, <2>1, <2>2, <2>3
<1>4. CASE Len(t) <= DeadLetterQueueSize
  <2>1. DLQAdd(q, e) = t /\ DLQDiscarded(q, e) = {}
    BY <1>1, <1>4 DEF DLQAdd, DLQDiscarded
  <2> QED  BY <1>1, <1>2, <1>4, <2>1
<1> QED  BY <1>1, <1>3, <1>4

(* What Start sends into eventCh is a sequence of logged events that fits.  *)
LEMMA RecoveredPrefixesType ==
    ASSUME bolt \subseteq Events, NEW s \in RecoveredPrefixes
    PROVE  s \in Seq(Events) /\ Len(s) \in 0..MaxSize
<1>1. PICK n \in 0..MaxSize : s \in [1..n -> bolt]
  BY DEF RecoveredPrefixes, Injection
<1>2. n \in Nat /\ s \in [1..n -> Events]
  BY <1>1, ConfigAssumption
<1>3. s \in Seq(Events) /\ Len(s) = n
  BY <1>2
<1> QED  BY <1>1, <1>3
-----------------------------------------------------------------------------
(* Types.  That totalFlushed never decreases below zero needs more than the *)
(* types: a flush cannot dead-letter more entries than its batch has.      *)

RetryInv ==
    /\ process = "down" => flusher = "off"
    /\ IsFiniteSet(pending)
    /\ flusher # "items" => pending = {}
    /\ flusher = "insert" => dlqSizeBefore = Len(dlq)
    /\ flusher \in {"items", "finish"} =>
           /\ dlqSizeBefore <= Len(dlq)
           /\ Len(dlq) - dlqSizeBefore + Cardinality(pending) <= Len(batch)

TypeInv == TypeOK /\ RetryInv

(* A process that has never been started satisfies the types and RetryInv. *)
LEMMA TypeInvInit == Init => TypeInv
<1> SUFFICES ASSUME Init PROVE TypeInv
  OBVIOUS
<1>1. IsFiniteSet({})
  BY FS_EmptySet
<1>2. req \in [Events -> ReqState]
  BY DEF Init, ReqState
<1>3. <<>> \in Seq(Events) /\ Len(<<>>) = 0
  BY EmptySeq
<1>4. TypeOK
  <2>1. shutdown \in Phases /\ draining \in BOOLEAN /\ httpDrained \in BOOLEAN
    BY DEF Init, Phases
  <2>2. /\ eventCh \in Seq(Events) /\ Len(eventCh) <= MaxSize
        /\ dlq \in Seq(Events) /\ Len(dlq) <= DeadLetterQueueSize
        /\ writeCh \in Seq(Events) /\ Len(writeCh) <= WriteBufferSize
        /\ batch \in Seq(Events)
    BY <1>3, ConfigAssumption DEF Init
  <2>3. {totalEnqueued, totalFlushed, totalFailed} \subseteq Nat
    BY DEF Init
  <2>4. lives \in 0..MaxLives /\ recovered \in 0..MaxSize /\ dlqSizeBefore \in 0..DeadLetterQueueSize
    BY ConfigAssumption, ModelAssumption DEF Init
  <2> QED BY <1>2, <2>1, <2>2, <2>3,<2>4 DEF Init, TypeOK
<1>5. RetryInv
  BY <1>1 DEF Init, RetryInv
<1> QED  BY <1>4, <1>5 DEF TypeInv

(* No step of a handler, of flushLoop, of writeLoop, of Shutdown or of the *)
(* process lifecycle breaks the types or the bookkeeping of BatchRetry.    *)
LEMMA TypeInvNext == TypeInv /\ [Next]_vars => TypeInv'
<1> SUFFICES ASSUME TypeInv, [Next]_vars PROVE TypeInv'
  OBVIOUS
<1> USE DEF storageVars, lifeVars, enqueueVars, flushVars, writerVars,
            flushUnchanged
<1>0. /\ TypeOK /\ RetryInv
      /\ MaxSize \in Nat /\ BatchSize \in Nat
      /\ WriteBufferSize \in Nat /\ DeadLetterQueueSize \in Nat
      /\ MaxLives \in Nat /\ NoEvent \notin Events
      /\ Len(eventCh) \in Nat /\ Len(batch) \in Nat
      /\ Len(dlq) \in Nat /\ Len(writeCh) \in Nat
      /\ <<>> \in Seq(Events) /\ Len(<<>>) = 0
  BY ConfigAssumption, ModelAssumption, LenProperties, EmptySeq
     DEF TypeInv, TypeOK
<1>1. CASE UNCHANGED vars
  BY <1>0, <1>1 DEF vars, TypeInv, TypeOK, RetryInv
<1>2. CASE Start
  <2>1. eventCh' \in Seq(Events) /\ Len(eventCh') \in 0..MaxSize
    BY <1>0, <1>2, RecoveredPrefixesType DEF Start, TypeOK
  <2>2. TypeOK'
    BY <1>0, <1>2, <2>1 DEF Start, TypeOK
  <2>3. RetryInv'
    BY <1>0, <1>2 DEF Start, RetryInv
  <2> QED  BY <2>2, <2>3 DEF TypeInv
<1>3. CASE ProcessDown
  <2>1. IsFiniteSet({})
    BY FS_EmptySet
  <2>2. req' \in [Events -> ReqState]
    BY <1>0, <1>3 DEF ProcessDown, TypeOK, ReqState, Unanswered, Answered
  <2>3. TypeOK'
    <3>1. shutdown' \in Phases /\ draining' \in BOOLEAN /\ httpDrained' \in BOOLEAN
      BY <1>3 DEF ProcessDown, Phases
    <3>2. /\ recovered' \in 0..MaxSize
          /\ dlqSizeBefore' \in 0..DeadLetterQueueSize
      BY <1>0, <1>3 DEF ProcessDown
    <3>3. {totalEnqueued, totalFlushed, totalFailed}' \subseteq Nat
      BY <1>3 DEF ProcessDown
    <3> QED  BY <1>0, <1>3, <2>2, <3>1, <3>2, <3>3 DEF ProcessDown, TypeOK
  <2>4. RetryInv'
    BY <1>3, <2>1 DEF ProcessDown, RetryInv
  <2> QED  BY <2>3, <2>4 DEF TypeInv
<1>4. ASSUME NEW e \in Events, HandlerStep(e) PROVE TypeInv'
  <2>1. RetryInv'
    BY <1>0, <1>4 DEF HandlerStep, EnqueueCheckStopped, EnqueueCheckDepth,
       EnqueuePersist, EnqueueSend, EnqueueCount, InsertSync, RetryInv
  <2>2. CASE EnqueueCheckStopped(e)
    BY <1>0, <2>1, <2>2 DEF EnqueueCheckStopped, TypeInv, TypeOK, ReqState,
       Unanswered, Answered
  <2>3. CASE EnqueueCheckDepth(e)
    BY <1>0, <2>1, <2>3 DEF EnqueueCheckDepth, TypeInv, TypeOK, ReqState,
       Unanswered
  <2>4. CASE EnqueuePersist(e)
    BY <1>0, <2>1, <2>4 DEF EnqueuePersist, EnqueueAsync, TypeInv, TypeOK,
       ReqState, Unanswered
  <2>5. CASE EnqueueSend(e)
    <3>1. /\ Append(eventCh, e) \in Seq(Events)
          /\ Len(Append(eventCh, e)) = Len(eventCh) + 1
      BY <1>0, AppendProperties DEF TypeOK
    <3>2. req' \in [Events -> ReqState]
      BY <1>0, <2>5 DEF EnqueueSend, TypeOK, ReqState, Unanswered
    <3>3. eventCh' \in Seq(Events) /\ Len(eventCh') <= MaxSize
      <4>1. CASE Len(eventCh) < MaxSize /\ eventCh' = Append(eventCh, e)
        BY <1>0, <3>1, <4>1
      <4>2. CASE UNCHANGED eventCh
        BY <1>0, <4>2 DEF TypeOK
      <4> QED  BY <2>5, <4>1, <4>2 DEF EnqueueSend
    <3> QED  BY <1>0, <2>1, <2>5, <3>2, <3>3 DEF EnqueueSend, TypeInv, TypeOK
  <2>6. CASE EnqueueCount(e)
    BY <1>0, <2>1, <2>6 DEF EnqueueCount, TypeInv, TypeOK, ReqState, Answered
  <2>7. CASE InsertSync(e)
    BY <1>0, <2>1, <2>7 DEF InsertSync, InsertSucceeds, InsertFails,
       Insertable, TypeInv, TypeOK, ReqState, Answered
  <2> QED  BY <1>4, <2>2, <2>3, <2>4, <2>5, <2>6, <2>7 DEF HandlerStep
<1>5. CASE FlusherStep
  <2>1. CASE FlushReceive
    BY <1>0, <2>1 DEF FlushReceive, TypeInv, TypeOK, RetryInv
  <2>2. CASE FlushCount
    BY <1>0, <2>2 DEF FlushCount, BeginFlush, TypeInv, TypeOK, RetryInv
  <2>3. CASE FlushTick
    BY <1>0, <2>3 DEF FlushTick, BeginFlush, TypeInv, TypeOK, RetryInv
  <2>4. CASE FlushSignal
    BY <1>0, <2>4 DEF FlushSignal, TypeInv, TypeOK, RetryInv
  <2>5. CASE FlushDrained
    BY <1>0, <2>5 DEF FlushDrained, BeginFlush, TypeInv, TypeOK, RetryInv
  <2>6. CASE BatchInsert
    <3>1. /\ Range(batch) \subseteq Events
          /\ IsFiniteSet(Range(batch))
          /\ Cardinality(Range(batch)) <= Len(batch)
          /\ Cardinality({}) = 0 /\ Len(batch) \in Nat
          /\ Cardinality(Range(batch)) \in Nat
      BY <1>0, RangeOfSeq, RangeCardinality, FS_EmptySet, FS_CardinalityType,
         LenProperties DEF TypeOK
    <3>2. TypeOK'
      BY <1>0, <2>6, <3>1 DEF BatchInsert, InsertSucceeds, InsertFails,
         Insertable, TypeOK
    <3>3. RetryInv'
      <4>1. CASE flusher' = "finish" /\ UNCHANGED pending
        <5>1. /\ pending' = {} /\ pending' = pending
              /\ dlqSizeBefore = Len(dlq)
          BY <1>0, <2>6, <4>1 DEF BatchInsert, RetryInv
        <5>2. Cardinality(pending') = 0
          BY <3>1, <5>1
        <5> QED  BY <1>0, <2>6, <4>1, <5>1, <5>2 DEF BatchInsert, RetryInv
      <4>2. CASE flusher' = "items" /\ pending' = Range(batch)
        BY <1>0, <2>6, <3>1, <4>2 DEF BatchInsert, RetryInv
      <4> QED  BY <2>6, <4>1, <4>2 DEF BatchInsert
    <3> QED  BY <3>2, <3>3 DEF TypeInv
  <2>7. ASSUME NEW e \in Events, ItemInsert(e) PROVE TypeInv'
    <3>1. /\ DLQAdd(dlq, e) \in Seq(Events)
          /\ Len(DLQAdd(dlq, e)) <= DeadLetterQueueSize
          /\ Len(dlq) <= Len(DLQAdd(dlq, e))
          /\ Len(DLQAdd(dlq, e)) <= Len(dlq) + 1
          /\ DLQDiscarded(dlq, e) \subseteq Events
      BY <1>0, DLQAddProperties DEF TypeOK
    <3>2. /\ IsFiniteSet(pending \ {e})
          /\ Cardinality(pending \ {e}) = Cardinality(pending) - 1
          /\ Cardinality(pending) \in Nat
      BY <1>0, <2>7, FS_RemoveElement, FS_CardinalityType
         DEF ItemInsert, RetryInv
    <3>3. TypeOK'
      BY <1>0, <2>7, <3>1 DEF ItemInsert, InsertSucceeds, InsertFails,
         Insertable, TypeOK
    <3>4. RetryInv'
      <4>1. Len(dlq') - Len(dlq) \in 0..1 /\ Len(dlq') \in Nat
        BY <1>0, <2>7, <3>1, LenProperties DEF ItemInsert
      <4>2. dlqSizeBefore <= Len(dlq')
        BY <1>0, <2>7, <4>1 DEF ItemInsert, TypeOK, RetryInv
      <4>3. Len(dlq') - dlqSizeBefore + Cardinality(pending') <= Len(batch)
        <5>1. /\ dlqSizeBefore \in Nat
              /\ Len(dlq) - dlqSizeBefore + Cardinality(pending) <= Len(batch)
          BY <1>0, <2>7 DEF ItemInsert, TypeOK, RetryInv
        <5>2. pending' = pending \ {e}
          BY <2>7 DEF ItemInsert
        <5> QED  BY <1>0, <3>2, <4>1, <5>1, <5>2
      <4> QED  BY <1>0, <2>7, <3>2, <4>2, <4>3 DEF ItemInsert, RetryInv
    <3> QED  BY <3>3, <3>4 DEF TypeInv
  <2>8. CASE FlushFinish
    <3>1. Cardinality({}) = 0
      BY FS_EmptySet
    <3>2. FlushedCount \in Nat
      <4>1. pending = {} /\ dlqSizeBefore \in Nat
        BY <1>0, <2>8 DEF FlushFinish, PersistenceRemove, TypeOK, RetryInv
      <4>2. Cardinality(pending) = 0
        BY <3>1, <4>1
      <4>3. Len(dlq) - dlqSizeBefore <= Len(batch)
        BY <1>0, <2>8, <4>1, <4>2 DEF FlushFinish, PersistenceRemove, RetryInv
      <4> QED  BY <1>0, <4>1, <4>3 DEF FlushedCount, FailedInThisBatch
    <3> QED  BY <1>0, <2>8, <3>2 DEF FlushFinish, PersistenceRemove, TypeInv, TypeOK, RetryInv
  <2> QED  BY <1>5, <2>1, <2>2, <2>3, <2>4, <2>5, <2>6, <2>7, <2>8 DEF FlusherStep
<1>6. CASE WriterStep
  <2>1. RetryInv'
    BY <1>0, <1>6 DEF WriterStep, WriterTake, WriterPut, RetryInv
  <2>2. CASE WriterTake
    <3>1. /\ Head(writeCh) \in Events
          /\ Tail(writeCh) \in Seq(Events)
          /\ Len(Tail(writeCh)) = Len(writeCh) - 1
      BY <1>0, <2>2, HeadTailProperties DEF WriterTake, TypeOK
    <3> QED  BY <1>0, <2>1, <2>2, <3>1 DEF WriterTake, TypeInv, TypeOK
  <2>3. CASE WriterPut
    BY <1>0, <2>1, <2>3 DEF WriterPut, TypeInv, TypeOK
  <2> QED  BY <1>6, <2>2, <2>3 DEF WriterStep
<1>7. CASE HttpShutdown \/ ShutdownStop \/ ShutdownProgress
  BY <1>0, <1>7 DEF HttpShutdown, ShutdownStop, ShutdownProgress, ShutdownSignal,
     ShutdownDone, ShutdownTimeout, ShutdownClose, ShutdownReturn,
     ShutdownStep, TypeInv, TypeOK, RetryInv, Phases
<1> QED  BY <1>1, <1>2, <1>3, <1>4, <1>5, <1>6, <1>7 DEF Next, Crash, Exit

(* In every reachable state the types hold, and a flush has no more items  *)
(* pending or newly dead-lettered than its batch has events.               *)
THEOREM TypeInvariant == Spec => []TypeInv
BY TypeInvInit, TypeInvNext, PTL DEF Spec

(* TypeOK holds in every reachable state: the three bounded queues never    *)
(* exceed their capacities and the statistics are never negative.          *)
THEOREM TypeCorrect == Spec => []TypeOK
<1>1. TypeInv => TypeOK
  BY DEF TypeInv
<1> QED  BY <1>1, TypeInvariant, PTL
-----------------------------------------------------------------------------
(* Counters.  The statistics are only related to the queues if a process    *)
(* starts from nothing, if one handler at a time is between its send and    *)
(* its count, and if totalFailed is the size the dead letter queue had when *)
(* the last flush ended, which is the one the current flush started with.   *)

DownInv ==
    process = "down" =>
        /\ eventCh = <<>> /\ batch = <<>> /\ dlq = <<>>
        /\ enqueueMu = NoEvent
        /\ currentDepth = 0 /\ recovered = 0
        /\ totalEnqueued = 0 /\ totalFlushed = 0 /\ totalFailed = 0
        /\ \A e \in Events : req[e] \notin Unanswered \cup {"accepted"}

MutexInv == \A e \in Events : req[e] = "sending" => enqueueMu = e

FailedInv ==
    totalFailed = IF flusher \in {"insert", "items", "finish"}
                  THEN dlqSizeBefore ELSE Len(dlq)

CountInv == DownInv /\ MutexInv /\ FailedInv /\ Accounting /\ DepthMatchesChannel

(* All counters start at zero, with empty channels.                        *)
LEMMA CountInvInit == Init => CountInv
<1> SUFFICES ASSUME Init PROVE CountInv
  OBVIOUS
<1>1. DownInv /\ MutexInv
  BY DEF Init, DownInv, MutexInv, Unanswered
<1>2. FailedInv /\ Accounting /\ DepthMatchesChannel
  BY ConfigAssumption DEF Init, FailedInv, Accounting, DepthMatchesChannel, OneIf
<1> QED  BY <1>1, <1>2 DEF CountInv

(* Every step keeps the counters of Stats in step with eventCh, the batch  *)
(* and the dead letter queue.                                              *)
LEMMA CountInvNext == TypeInv /\ CountInv /\ [Next]_vars => CountInv'
<1> SUFFICES ASSUME TypeInv, CountInv, [Next]_vars PROVE CountInv'
  OBVIOUS
<1> USE DEF storageVars, lifeVars, enqueueVars, flushVars, writerVars,
            flushUnchanged
<1>0. /\ TypeOK /\ RetryInv
      /\ DownInv /\ MutexInv /\ FailedInv /\ Accounting /\ DepthMatchesChannel
      /\ MaxSize \in Nat /\ NoEvent \notin Events
      /\ Len(eventCh) \in Nat /\ Len(batch) \in Nat /\ Len(dlq) \in Nat
      /\ Len(<<>>) = 0
      /\ currentDepth \in Int /\ recovered \in Nat
      /\ totalEnqueued \in Nat /\ totalFlushed \in Nat /\ totalFailed \in Nat
      /\ dlqSizeBefore \in Nat
  BY ConfigAssumption, ModelAssumption, LenProperties, EmptySeq
     DEF TypeInv, TypeOK, CountInv
<1>1. CASE UNCHANGED vars
  BY <1>0, <1>1 DEF vars, CountInv, DownInv, MutexInv, FailedInv, Accounting,
     DepthMatchesChannel
<1>2. CASE Start
  <2>1. Len(eventCh') \in Nat
    BY <1>0, <1>2, RecoveredPrefixesType DEF Start, TypeOK
  <2>2. DownInv' /\ MutexInv' /\ FailedInv'
    BY <1>0, <1>2 DEF Start, RetryInv, DownInv, MutexInv, FailedInv
  <2>3. Accounting' /\ DepthMatchesChannel'
    BY <1>0, <1>2, <2>1
       DEF Start, DownInv, Accounting, DepthMatchesChannel, OneIf
  <2> QED  BY <2>2, <2>3 DEF CountInv
<1>3. CASE ProcessDown
  <2>1. \A e \in Events : req'[e] \notin Unanswered \cup {"accepted"}
    BY <1>3 DEF ProcessDown, Unanswered
  <2>2. DownInv' /\ MutexInv' /\ FailedInv'
    BY <1>0, <1>3, <2>1 DEF ProcessDown, DownInv, MutexInv, FailedInv, Unanswered
  <2>3. Accounting' /\ DepthMatchesChannel'
    BY <1>0, <1>3 DEF ProcessDown, Accounting, DepthMatchesChannel, OneIf
  <2> QED  BY <2>2, <2>3 DEF CountInv
<1>4. ASSUME NEW e \in Events, HandlerStep(e) PROVE CountInv'
  <2>0. process = "up" /\ process' = "up"
    BY <1>0, <1>4 DEF HandlerStep, EnqueueCheckStopped, EnqueueCheckDepth,
       EnqueuePersist, EnqueueSend, EnqueueCount, InsertSync, DownInv,
       Unanswered, TypeOK
  <2>1. DownInv' /\ FailedInv'
    BY <1>0, <1>4, <2>0 DEF HandlerStep, EnqueueCheckStopped,
       EnqueueCheckDepth, EnqueuePersist, EnqueueSend, EnqueueCount,
       InsertSync, DownInv, FailedInv
  <2>2. CASE EnqueueSend(e)
    <3>1. Len(Append(eventCh, e)) = Len(eventCh) + 1
      BY <1>0, AppendProperties DEF TypeOK
    <3>2. MutexInv'
      BY <1>0, <2>2 DEF EnqueueSend, MutexInv, TypeOK
    <3>3. Accounting'
      BY <1>0, <2>2, <3>1 DEF EnqueueSend, Accounting, OneIf
    <3>4. DepthMatchesChannel'
      <4>1. CASE eventCh' = Append(eventCh, e) /\ enqueueMu' = e
        <5>1. /\ OneIf(enqueueMu # NoEvent) = 0
              /\ OneIf(enqueueMu' # NoEvent) = 1
              /\ OneIf(flusher = "received") \in Nat
          BY <1>0, <2>2, <4>1 DEF EnqueueSend, OneIf
        <5>2. Len(eventCh') = Len(eventCh) + 1
          BY <3>1, <4>1
        <5> QED  BY <1>0, <2>2, <5>1, <5>2 DEF EnqueueSend, DepthMatchesChannel
      <4>2. CASE UNCHANGED <<eventCh, enqueueMu>>
        BY <1>0, <2>2, <4>2 DEF EnqueueSend, DepthMatchesChannel
      <4> QED  BY <2>2, <4>1, <4>2 DEF EnqueueSend
    <3> QED  BY <2>1, <3>2, <3>3, <3>4 DEF CountInv
  <2>3. CASE EnqueueCount(e)
    <3>1. enqueueMu = e /\ enqueueMu' = NoEvent
      BY <1>0, <2>3 DEF EnqueueCount, MutexInv
    <3>2. MutexInv'
      BY <1>0, <2>3, <3>1 DEF EnqueueCount, MutexInv, TypeOK
    <3>3. Accounting'
      BY <1>0, <2>3, <3>1 DEF EnqueueCount, Accounting, OneIf
    <3>4. DepthMatchesChannel'
      <4>1. /\ currentDepth' = currentDepth + 1
            /\ UNCHANGED <<eventCh, flusher, recovered>>
        BY <1>0, <2>3 DEF EnqueueCount
      <4>2. currentDepth + 1 = Len(eventCh) + OneIf(flusher = "received") - recovered
        <5>1. /\ OneIf(enqueueMu # NoEvent) = 1
              /\ OneIf(flusher = "received") \in Nat
          BY <1>0, <3>1 DEF OneIf
        <5> QED  BY <1>0, <5>1 DEF DepthMatchesChannel
      <4>3. currentDepth + 1 <= MaxSize + 1
        BY <1>0, <4>2 DEF TypeOK, OneIf
      <4>4. OneIf(flusher = "received") \in 0..1
        BY DEF OneIf
      <4>5. OneIf(enqueueMu' # NoEvent) = 0
        BY <3>1 DEF OneIf
      <4> QED  BY <1>0, <4>1, <4>2, <4>3, <4>4, <4>5 DEF DepthMatchesChannel
    <3> QED  BY <2>1, <3>2, <3>3, <3>4 DEF CountInv
  <2>4. CASE ~EnqueueSend(e) /\ ~EnqueueCount(e)
    <3>1. MutexInv'
      BY <1>0, <1>4, <2>4 DEF HandlerStep, EnqueueCheckStopped,
         EnqueueCheckDepth, EnqueuePersist, InsertSync, MutexInv, TypeOK
    <3>2. Accounting' /\ DepthMatchesChannel'
      BY <1>0, <1>4, <2>4 DEF HandlerStep, EnqueueCheckStopped,
         EnqueueCheckDepth, EnqueuePersist, InsertSync, Accounting,
         DepthMatchesChannel
    <3> QED  BY <2>1, <3>1, <3>2 DEF CountInv
  <2> QED  BY <2>2, <2>3, <2>4
<1>5. CASE FlusherStep
  <2>0. process = "up" /\ process' = "up"
    BY <1>0, <1>5 DEF FlusherStep, FlushReceive, FlushCount, FlushTick,
       FlushSignal, FlushDrained, BatchInsert, ItemInsert, FlushFinish, PersistenceRemove,
       RetryInv, TypeOK
  <2>1. DownInv' /\ MutexInv'
    BY <1>0, <1>5, <2>0 DEF FlusherStep, FlushReceive, FlushCount, FlushTick,
       FlushSignal, FlushDrained, BatchInsert, ItemInsert, FlushFinish, PersistenceRemove,
       DownInv, MutexInv
  <2>2. CASE FlushReceive
    <3>1. /\ Len(Tail(eventCh)) = Len(eventCh) - 1
          /\ Len(Append(batch, Head(eventCh))) = Len(batch) + 1
      BY <1>0, <2>2, HeadTailProperties, AppendProperties
         DEF FlushReceive, TypeOK
    <3>2. FailedInv'
      BY <1>0, <2>2 DEF FlushReceive, FailedInv
    <3>3. Accounting'
      BY <1>0, <2>2, <3>1 DEF FlushReceive, Accounting, OneIf
    <3>4. DepthMatchesChannel'
      BY <1>0, <2>2, <3>1 DEF FlushReceive, DepthMatchesChannel, OneIf
    <3> QED  BY <2>1, <3>2, <3>3, <3>4 DEF CountInv
  <2>3. CASE FlushCount
    BY <1>0, <2>1, <2>3 DEF FlushCount, BeginFlush, CountInv, FailedInv,
       Accounting, DepthMatchesChannel, OneIf
  <2>4. CASE FlushTick
    BY <1>0, <2>1, <2>4 DEF FlushTick, BeginFlush, CountInv, FailedInv,
       Accounting, DepthMatchesChannel, OneIf
  <2>5. CASE FlushSignal
    BY <1>0, <2>1, <2>5 DEF FlushSignal, CountInv, FailedInv,
       Accounting, DepthMatchesChannel, OneIf
  <2>6. CASE FlushDrained
    BY <1>0, <2>1, <2>6 DEF FlushDrained, BeginFlush, CountInv, FailedInv,
       Accounting, DepthMatchesChannel, OneIf
  <2>7. CASE BatchInsert
    BY <1>0, <2>1, <2>7 DEF BatchInsert, CountInv, FailedInv,
       Accounting, DepthMatchesChannel, OneIf
  <2>8. CASE \E e \in Events : ItemInsert(e)
    BY <1>0, <2>1, <2>8 DEF ItemInsert, CountInv, FailedInv,
       Accounting, DepthMatchesChannel, OneIf
  <2>9. CASE FlushFinish
    <3>1. FlushedCount = Len(batch) - (Len(dlq) - totalFailed)
      BY <1>0, <2>9 DEF FlushFinish, PersistenceRemove, FlushedCount, FailedInThisBatch, FailedInv
    <3> QED  BY <1>0, <2>1, <2>9, <3>1 DEF FlushFinish, PersistenceRemove, CountInv, FailedInv,
             Accounting, DepthMatchesChannel, OneIf
  <2> QED  BY <1>5, <2>2, <2>3, <2>4, <2>5, <2>6, <2>7, <2>8, <2>9 DEF FlusherStep
<1>6. CASE WriterStep \/ HttpShutdown \/ ShutdownStop \/ ShutdownProgress
  BY <1>0, <1>6 DEF WriterStep, WriterTake, WriterPut, HttpShutdown, ShutdownStop,
     ShutdownProgress, ShutdownSignal, ShutdownDone, ShutdownTimeout,
     ShutdownClose, ShutdownReturn, ShutdownStep, CountInv, DownInv, MutexInv,
     FailedInv, Accounting, DepthMatchesChannel
<1> QED  BY <1>1, <1>2, <1>3, <1>4, <1>5, <1>6 DEF Next, Crash, Exit

(* The counters and what makes them inductive hold in every reachable state: *)
(* who holds enqueueMu, what a dead process has forgotten, and that        *)
(* totalFailed lags behind the dead letter queue only during a flush.      *)
THEOREM CountInvariant == Spec => []CountInv
BY CountInvInit, CountInvNext, TypeInvariant, PTL DEF Spec

(* The statistics add up at every moment of every process: enqueued events  *)
(* are queued, in the batch, flushed or failed.                            *)
THEOREM AccountingCorrect == Spec => []Accounting
<1>1. CountInv => Accounting
  BY DEF CountInv
<1> QED  BY <1>1, CountInvariant, PTL

(* The depth counter that admits requests differs from the length of        *)
(* eventCh by the steps in progress and the recovered events only.         *)
THEOREM DepthCorrect == Spec => []DepthMatchesChannel
<1>1. CountInv => DepthMatchesChannel
  BY DEF CountInv
<1> QED  BY <1>1, CountInvariant, PTL
-----------------------------------------------------------------------------
(* No accepted event is lost track of, and the log forgets stored events    *)
(* only.  Both rest on what holds while a failed batch is retried item by   *)
(* item: an item is waiting, stored, or among the entries the dead letter   *)
(* queue got since the flush began (as long as it has discarded none).      *)

Settled == db \cup Range(dlq) \cup evicted
NewFailed == {dlq[i] : i \in (dlqSizeBefore + 1)..Len(dlq)}

TrackInv ==
    /\ \A e \in Events : req[e] \in {"sending", "accepted"} =>
           e \in Range(eventCh) \cup Range(batch) \cup Settled
    /\ flusher \in {"items", "finish"} => Range(batch) \subseteq pending \cup Settled
    /\ flusher \in {"items", "finish"} /\ evicted = {} =>
           Range(batch) \subseteq pending \cup db \cup NewFailed

(* No event has been answered yet.                                         *)
LEMMA TrackInvInit == Init => TrackInv
BY DEF Init, TrackInv

(* Receiving, inserting, dead-lettering and finishing a batch never drop the *)
(* last trace of an event that was answered with 202.                      *)
LEMMA TrackInvNext == TypeInv /\ CountInv /\ TrackInv /\ [Next]_vars => TrackInv'
<1> SUFFICES ASSUME TypeInv, CountInv, TrackInv, [Next]_vars PROVE TrackInv'
  OBVIOUS
<1> USE DEF storageVars, lifeVars, enqueueVars, flushVars, writerVars,
            flushUnchanged
<1>0. /\ TypeOK /\ RetryInv /\ DownInv
      /\ Len(eventCh) \in Nat /\ Len(batch) \in Nat /\ Len(dlq) \in Nat
      /\ dlqSizeBefore \in Nat
      /\ Range(<<>>) = {}
  BY LenProperties DEF TypeInv, TypeOK, CountInv, Range
<1>1. CASE UNCHANGED vars
  BY <1>1 DEF vars, TrackInv, Settled, NewFailed
<1>2. CASE Start
  BY <1>0, <1>2 DEF Start, TrackInv, DownInv, Unanswered
<1>3. CASE ProcessDown
  <2>1. \A e \in Events : req'[e] \notin {"sending", "accepted"}
    BY <1>3 DEF ProcessDown, Unanswered
  <2> QED  BY <1>3, <2>1 DEF ProcessDown, TrackInv
<1>4. ASSUME NEW e \in Events, HandlerStep(e) PROVE TrackInv'
  <2>1. CASE EnqueueSend(e)
    <3>1. Range(Append(eventCh, e)) = Range(eventCh) \cup {e}
      BY <1>0, RangeAppend DEF TypeOK
    <3>2. CASE eventCh' = Append(eventCh, e) /\ req' = [req EXCEPT ![e] = "sending"]
      BY <1>0, <2>1, <3>1, <3>2
         DEF EnqueueSend, TrackInv, Settled, NewFailed, TypeOK
    <3>3. CASE UNCHANGED eventCh /\ req' = [req EXCEPT ![e] = "overflow"]
      BY <1>0, <2>1, <3>3
         DEF EnqueueSend, TrackInv, Settled, NewFailed, TypeOK
    <3> QED  BY <2>1, <3>2, <3>3 DEF EnqueueSend
  <2>2. CASE EnqueueCount(e)
    BY <1>0, <2>2 DEF EnqueueCount, TrackInv, Settled, NewFailed, TypeOK
  <2>3. CASE InsertSync(e)
    <3>1. db \subseteq db'
      BY <2>3 DEF InsertSync, InsertSucceeds, InsertFails
    <3>2. req' \in {[req EXCEPT ![e] = "created"], [req EXCEPT ![e] = "failed"]}
      BY <2>3 DEF InsertSync
    <3>3. UNCHANGED <<eventCh, batch, dlq, evicted, pending, flusher, dlqSizeBefore>>
      BY <2>3 DEF InsertSync
    <3> QED  BY <1>0, <3>1, <3>2, <3>3 DEF TrackInv, Settled, NewFailed, TypeOK
  <2>4. CASE EnqueueCheckStopped(e) \/ EnqueueCheckDepth(e) \/ EnqueuePersist(e)
    <3>1. \A f \in Events : req'[f] \in {"sending", "accepted"} => req'[f] = req[f]
      BY <1>0, <2>4 DEF EnqueueCheckStopped, EnqueueCheckDepth, EnqueuePersist,
         TypeOK
    <3> QED  BY <2>4, <3>1 DEF EnqueueCheckStopped, EnqueueCheckDepth,
             EnqueuePersist, TrackInv, Settled, NewFailed
  <2> QED  BY <1>4, <2>1, <2>2, <2>3, <2>4 DEF HandlerStep
<1>5. CASE FlusherStep
  <2>1. CASE FlushReceive
    <3>1. /\ Head(eventCh) \in Events
          /\ Range(eventCh) = {Head(eventCh)} \cup Range(Tail(eventCh))
      BY <1>0, <2>1, HeadTailProperties, RangeHeadTail DEF FlushReceive, TypeOK
    <3>2. Range(Append(batch, Head(eventCh))) = Range(batch) \cup {Head(eventCh)}
      BY <1>0, <3>1, RangeAppend DEF TypeOK
    <3> QED  BY <2>1, <3>1, <3>2 DEF FlushReceive, TrackInv, Settled
  <2>2. CASE FlushCount \/ FlushTick \/ FlushSignal \/ FlushDrained
    BY <2>2 DEF FlushCount, FlushTick, FlushSignal, FlushDrained, BeginFlush,
       TrackInv, Settled, NewFailed
  <2>3. CASE BatchInsert
    <3>1. /\ db \subseteq db'
          /\ Range(batch) \subseteq pending' \cup db'
      BY <2>3 DEF BatchInsert, InsertSucceeds, InsertFails
    <3> QED  BY <2>3, <3>1 DEF BatchInsert, TrackInv, Settled
  <2>4. ASSUME NEW e \in Events, ItemInsert(e) PROVE TrackInv'
    <3>0. /\ db \subseteq db'
          /\ pending' = pending \ {e}
          /\ flusher \in {"items", "finish"}
          /\ UNCHANGED <<req, eventCh, batch, dlqSizeBefore>>
      BY <2>4 DEF ItemInsert, InsertSucceeds, InsertFails
    <3>1. CASE e \in db' /\ UNCHANGED <<dlq, evicted>>
      BY <3>0, <3>1 DEF TrackInv, Settled, NewFailed
    <3>2. CASE dlq' = DLQAdd(dlq, e) /\ evicted' = evicted \cup DLQDiscarded(dlq, e)
      <4>1. /\ Range(dlq) \cup {e} = Range(dlq') \cup DLQDiscarded(dlq, e)
            /\ DLQDiscarded(dlq, e) = {} => dlq' = Append(dlq, e)
        BY <1>0, <3>2, DLQAddProperties DEF TypeOK
      <4>2. Settled \cup {e} \subseteq Settled'
        BY <3>0, <3>2, <4>1 DEF Settled
      <4>3. evicted' = {} => NewFailed \cup {e} \subseteq NewFailed'
        <5> SUFFICES ASSUME evicted' = {} PROVE NewFailed \cup {e} \subseteq NewFailed'
          OBVIOUS
        <5>1. dlq' = Append(dlq, e)
          BY <3>2, <4>1
        <5>2. /\ Len(dlq') = Len(dlq) + 1
              /\ \A i \in 1..Len(dlq) : dlq'[i] = dlq[i]
              /\ dlq'[Len(dlq) + 1] = e
          BY <1>0, <5>1, AppendProperties DEF TypeOK
        <5>3. dlqSizeBefore <= Len(dlq)
          BY <1>0, <3>0 DEF RetryInv
        <5>4. e \in NewFailed'
          BY <1>0, <3>0, <5>2, <5>3 DEF NewFailed
        <5>5. NewFailed \subseteq NewFailed'
          BY <1>0, <3>0, <5>2 DEF NewFailed
        <5> QED  BY <5>4, <5>5
      <4>4. evicted' = {} => evicted = {}
        BY <3>2
      <4> QED  BY <3>0, <4>2, <4>3, <4>4 DEF TrackInv
    <3> QED  BY <2>4, <3>1, <3>2 DEF ItemInsert, InsertSucceeds
  <2>5. CASE FlushFinish
    <3>1. pending = {}
      BY <1>0, <2>5 DEF FlushFinish, PersistenceRemove, RetryInv
    <3> QED  BY <2>5, <3>1 DEF FlushFinish, PersistenceRemove, TrackInv, Settled
  <2> QED  BY <1>5, <2>1, <2>2, <2>3, <2>4, <2>5 DEF FlusherStep
<1>6. CASE WriterStep \/ HttpShutdown \/ ShutdownStop \/ ShutdownProgress
  BY <1>6 DEF WriterStep, WriterTake, WriterPut, HttpShutdown, ShutdownStop,
     ShutdownProgress, ShutdownSignal, ShutdownDone, ShutdownTimeout,
     ShutdownClose, ShutdownReturn, ShutdownStep, TrackInv, Settled, NewFailed
<1> QED  BY <1>1, <1>2, <1>3, <1>4, <1>5, <1>6 DEF Next, Crash, Exit

(* In every reachable state an accepted event has a trace, and the items of *)
(* a failed batch are pending, stored or among the new dead letters.       *)
THEOREM TrackInvariant == Spec => []TrackInv
BY TrackInvInit, TrackInvNext, CountInvariant, TypeInvariant, PTL DEF Spec

(* A 202 is never forgotten by the process that gave it, whatever fails     *)
(* while the event is flushed.                                             *)
THEOREM AcceptedAreTracked == Spec => []AcceptedTracked
<1>1. TrackInv => AcceptedTracked
  BY DEF TrackInv, AcceptedTracked, Settled
<1> QED  BY <1>1, TrackInvariant, PTL

(* The write-ahead bucket drops an event only when PostgreSQL has it, as    *)
(* long as the dead letter queue has discarded nothing.                    *)
THEOREM LogIsSafe == Spec => LogDropsOnlyStored
<1> DEFINE Drop == \A e \in bolt \ bolt' : e \in db \/ evicted # {}
<1>1. TypeInv /\ TrackInv /\ [Next]_vars => [Drop]_vars
  <2> SUFFICES ASSUME TypeInv, TrackInv, Next, NEW e \in bolt \ bolt', evicted = {}
               PROVE  e \in db
    BY DEF vars, storageVars
  <2>1. FlushFinish /\ bolt' = bolt \ IdsToRemove
    BY DEF Next, Start, Crash, Exit, ProcessDown, HandlerStep,
       EnqueueCheckStopped, EnqueueCheckDepth, EnqueuePersist, EnqueueSend,
       EnqueueCount, InsertSync, FlusherStep, FlushReceive, FlushCount,
       FlushTick, FlushSignal, FlushDrained, BatchInsert, ItemInsert,
       FlushFinish, PersistenceRemove, WriterStep, WriterTake, WriterPut, HttpShutdown, ShutdownStop,
       ShutdownProgress, ShutdownSignal, ShutdownDone, ShutdownTimeout,
       ShutdownClose, ShutdownReturn, ShutdownStep, storageVars
  <2>2. /\ Range(batch) \subseteq db \cup NewFailed
        /\ e \in Range(batch)
    BY <2>1 DEF FlushFinish, PersistenceRemove, IdsToRemove, TypeInv, RetryInv, TrackInv
  <2>3. Len(dlq) \in Nat /\ dlqSizeBefore \in Nat
    BY LenProperties DEF TypeInv, TypeOK
  <2>4. NewFailed = FailedIDs
    <3>1. (Len(dlq) - FailedInThisBatch + 1) = dlqSizeBefore + 1
      BY <2>3 DEF FailedInThisBatch
    <3> QED  BY <3>1 DEF NewFailed, FailedIDs
  <2>5. CASE FailedInThisBatch = 0
    BY <2>2, <2>3, <2>5 DEF FailedInThisBatch, NewFailed
  <2>6. CASE FailedInThisBatch # 0
    BY <2>1, <2>2, <2>4, <2>6 DEF IdsToRemove
  <2> QED  BY <2>5, <2>6
<1> QED  BY <1>1, TypeInvariant, TrackInvariant, PTL DEF Spec, LogDropsOnlyStored
-----------------------------------------------------------------------------
(* Shutdown.  If main waited for the handlers, nobody sends once stopped is *)
(* set, so an empty channel stays empty behind the drain loop.             *)

DrainInv ==
    /\ draining => Signalled
    /\ flusher = "exited" => draining
    /\ httpDrained =>
        /\ \A e \in Events : req[e] \notin Unanswered
        /\ draining /\ flusher \in {"insert", "items", "finish"} => eventCh = <<>>
        /\ flusher = "exited" => eventCh = <<>> /\ batch = <<>>

(* With the HTTP server drained, nothing is sent to eventCh after the drain *)
(* loop of flushLoop has found it empty.                                   *)
LEMMA DrainInvNext == DrainInv /\ [Next]_vars => DrainInv'
<1> SUFFICES ASSUME DrainInv, [Next]_vars PROVE DrainInv'
  OBVIOUS
<1> USE DEF storageVars, lifeVars, enqueueVars, flushVars, writerVars,
            flushUnchanged, Stopped, Signalled
<1>1. CASE UNCHANGED vars
  BY <1>1 DEF vars, DrainInv
<1>2. CASE Start
  BY <1>2 DEF Start, DrainInv
<1>3. CASE ProcessDown
  BY <1>3 DEF ProcessDown, DrainInv
<1>4. ASSUME NEW e \in Events, HandlerStep(e) PROVE DrainInv'
  <2>1. ~httpDrained /\ UNCHANGED httpDrained
    BY <1>4 DEF HandlerStep, EnqueueCheckStopped, EnqueueCheckDepth,
       EnqueuePersist, EnqueueSend, EnqueueCount, InsertSync, DrainInv,
       Unanswered
  <2>2. UNCHANGED <<shutdown, draining, flusher>>
    BY <1>4 DEF HandlerStep, EnqueueCheckStopped, EnqueueCheckDepth,
       EnqueuePersist, EnqueueSend, EnqueueCount, InsertSync
  <2> QED  BY <2>1, <2>2 DEF DrainInv
<1>5. CASE FlusherStep
  <2>1. UNCHANGED <<shutdown, req, httpDrained>>
    BY <1>5 DEF FlusherStep, FlushReceive, FlushCount, FlushTick, FlushSignal,
       FlushDrained, BatchInsert, ItemInsert, FlushFinish, PersistenceRemove
  <2>2. CASE FlushReceive \/ FlushCount \/ FlushTick \/ FlushSignal
    BY <2>1, <2>2 DEF FlushReceive, FlushCount, FlushTick, FlushSignal,
       BeginFlush, DrainInv
  <2>3. CASE FlushDrained
    BY <2>1, <2>3 DEF FlushDrained, DrainDone, BeginFlush, DrainInv
  <2>4. CASE BatchInsert \/ FlushFinish \/ \E e \in Events : ItemInsert(e)
    <3>1. /\ flusher \in {"insert", "items", "finish"}
          /\ UNCHANGED <<eventCh, draining>>
          /\ flusher' = "exited" => draining /\ batch' = <<>>
          /\ flusher' \in {"items", "finish", "select", "exited"}
      BY <2>4 DEF BatchInsert, FlushFinish, ItemInsert
    <3> QED  BY <2>1, <3>1 DEF DrainInv
  <2> QED  BY <1>5, <2>2, <2>3, <2>4 DEF FlusherStep
<1>6. CASE WriterStep
  BY <1>6 DEF WriterStep, WriterTake, WriterPut, DrainInv
<1>7. CASE HttpShutdown \/ ShutdownStop \/ ShutdownProgress
  BY <1>7 DEF HttpShutdown, ShutdownStop, ShutdownProgress, ShutdownSignal, ShutdownDone,
     ShutdownTimeout, ShutdownClose, ShutdownReturn, ShutdownStep, DrainInv
<1> QED  BY <1>1, <1>2, <1>3, <1>4, <1>5, <1>6, <1>7 DEF Next, Crash, Exit

(* If the HTTP server has been drained first, a shutdown whose flushLoop    *)
(* ended leaves no event queued.                                           *)
THEOREM ShutdownIsClean == Spec => []ShutdownDrains
<1>1. Init => DrainInv
  BY DEF Init, DrainInv, Unanswered, Stopped
<1>2. DrainInv => ShutdownDrains
  BY DEF DrainInv, ShutdownDrains
<1> QED  BY <1>1, <1>2, DrainInvNext, PTL DEF Spec
-----------------------------------------------------------------------------
(* What Enqueue refuses.  A request leaves a trace only when EnqueuePersist  *)
(* hands it to writeLoop, and is queued only when its send succeeds; an     *)
(* event that comes back from the log was handed over by a process that has *)
(* ended, and so did its handler.                                          *)

Untraced == {"new", "checked", "admitted", "stopped"}
NotQueued == Untraced \cup {"persisted", "overflow", "created", "failed"}

RefuseInv ==
    /\ process = "down" => \A e \in Events : req[e] \in {"new", "acked", "ended"}
    /\ \A e \in Events : req[e] \in NotQueued =>
           e \notin Range(eventCh) \cup Range(batch) \cup pending
    /\ \A e \in Events : req[e] \in Untraced =>
           e \notin db \cup bolt \cup Range(writeCh) \cup {writing}

(* What Start sends into eventCh comes from the log.                        *)
LEMMA RecoveredAreLogged ==
    ASSUME NEW s \in RecoveredPrefixes
    PROVE  Range(s) \subseteq bolt
BY DEF RecoveredPrefixes, Injection, Range

(* Neither a handler nor flushLoop, writeLoop or a restart queues an event   *)
(* that its handler has been refused, or leaves a trace of one it has not   *)
(* handed over.                                                            *)
LEMMA RefuseInvNext == TypeInv /\ RefuseInv /\ [Next]_vars => RefuseInv'
<1> SUFFICES ASSUME TypeInv, RefuseInv, [Next]_vars PROVE RefuseInv'
  OBVIOUS
<1> USE DEF storageVars, lifeVars, enqueueVars, flushVars, writerVars,
            flushUnchanged, Untraced, NotQueued
<1>0. TypeOK /\ RetryInv /\ Range(<<>>) = {} /\ NoEvent \notin Events
  BY ModelAssumption DEF TypeInv, Range
<1>1. CASE UNCHANGED vars
  BY <1>1 DEF vars, RefuseInv
<1>2. CASE Start
  <2>1. Range(eventCh') \subseteq bolt
    BY <1>2, RecoveredAreLogged DEF Start
  <2> QED  BY <1>0, <1>2, <2>1 DEF Start, RefuseInv
<1>3. CASE ProcessDown
  <2>1. \A e \in Events :
            /\ req'[e] \in {"new", "acked", "ended"}
            /\ req'[e] = "new" => req[e] = "new"
    BY <1>3 DEF ProcessDown
  <2> QED  BY <1>0, <1>3, <2>1 DEF ProcessDown, RefuseInv
<1>4. ASSUME NEW e \in Events, HandlerStep(e) PROVE RefuseInv'
  <2>0. req \in [Events -> ReqState] /\ process = "up"
    BY <1>0, <1>4 DEF HandlerStep, EnqueueCheckStopped, EnqueueCheckDepth,
       EnqueuePersist, EnqueueSend, EnqueueCount, InsertSync, RefuseInv, TypeOK
  <2>1. CASE EnqueueCheckStopped(e) \/ EnqueueCheckDepth(e) \/ EnqueueCount(e)
    BY <2>0, <2>1 DEF EnqueueCheckStopped, EnqueueCheckDepth, EnqueueCount, RefuseInv
  <2>2. CASE EnqueuePersist(e)
    <3>1. Range(writeCh') \subseteq Range(writeCh) \cup {e}
      BY <1>0, <2>2, RangeAppend DEF EnqueuePersist, EnqueueAsync, TypeOK
    <3> QED  BY <2>0, <2>2, <3>1 DEF EnqueuePersist, RefuseInv
  <2>3. CASE EnqueueSend(e)
    <3>1. Range(Append(eventCh, e)) = Range(eventCh) \cup {e}
      BY <1>0, RangeAppend DEF TypeOK
    <3> QED  BY <2>0, <2>3, <3>1 DEF EnqueueSend, RefuseInv
  <2>4. CASE InsertSync(e)
    <3>1. db' \subseteq db \cup {e}
      BY <2>4 DEF InsertSync, InsertSucceeds, InsertFails
    <3> QED  BY <2>0, <2>4, <3>1 DEF InsertSync, RefuseInv
  <2> QED  BY <1>4, <2>1, <2>2, <2>3, <2>4 DEF HandlerStep
<1>5. CASE FlusherStep
  <2>1. CASE FlushReceive
    <3>1. /\ Head(eventCh) \in Events
          /\ Range(eventCh) = {Head(eventCh)} \cup Range(Tail(eventCh))
      BY <1>0, <2>1, HeadTailProperties, RangeHeadTail DEF FlushReceive, TypeOK
    <3>2. Range(Append(batch, Head(eventCh))) = Range(batch) \cup {Head(eventCh)}
      BY <1>0, <3>1, RangeAppend DEF TypeOK
    <3> QED  BY <2>1, <3>1, <3>2 DEF FlushReceive, RefuseInv
  <2>2. CASE FlushCount \/ FlushTick \/ FlushSignal \/ FlushDrained
    BY <2>2 DEF FlushCount, FlushTick, FlushSignal, FlushDrained, BeginFlush,
       RefuseInv
  <2>3. CASE BatchInsert
    <3>1. /\ db' \subseteq db \cup Range(batch)
          /\ pending' \subseteq pending \cup Range(batch)
      BY <2>3 DEF BatchInsert, InsertSucceeds, InsertFails
    <3> QED  BY <2>3, <3>1 DEF BatchInsert, RefuseInv
  <2>4. ASSUME NEW e \in Events, ItemInsert(e) PROVE RefuseInv'
    <3>1. db' \subseteq db \cup {e} /\ e \in pending /\ pending' \subseteq pending
      BY <2>4 DEF ItemInsert, InsertSucceeds, InsertFails
    <3> QED  BY <2>4, <3>1 DEF ItemInsert, RefuseInv
  <2>5. CASE FlushFinish
    <3>1. bolt' \subseteq bolt
      BY <2>5 DEF FlushFinish, PersistenceRemove
    <3> QED  BY <1>0, <2>5, <3>1 DEF FlushFinish, RefuseInv
  <2> QED  BY <1>5, <2>1, <2>2, <2>3, <2>4, <2>5 DEF FlusherStep
<1>6. CASE WriterTake
  <2>1. Range(writeCh) = {Head(writeCh)} \cup Range(Tail(writeCh))
    BY <1>0, <1>6, RangeHeadTail DEF WriterTake, TypeOK
  <2> QED  BY <1>0, <1>6, <2>1 DEF WriterTake, RefuseInv
<1>7. CASE WriterPut
  BY <1>0, <1>7 DEF WriterPut, RefuseInv
<1>8. CASE HttpShutdown \/ ShutdownStop \/ ShutdownProgress
  BY <1>8 DEF HttpShutdown, ShutdownStop, ShutdownProgress, ShutdownSignal,
     ShutdownDone, ShutdownTimeout, ShutdownClose, ShutdownReturn, ShutdownStep,
     RefuseInv
<1> QED  BY <1>1, <1>2, <1>3, <1>4, <1>5, <1>6, <1>7, <1>8
         DEF Next, Crash, Exit, WriterStep

(* In every reachable state what has a trace was handed over by its handler. *)
LEMMA RefuseInvariant == Spec => []RefuseInv
<1>1. Init => RefuseInv
  BY ModelAssumption DEF Init, RefuseInv, Range
<1> QED  BY <1>1, RefuseInvNext, TypeInvariant, PTL DEF Spec

(* An event that Enqueue refused is never in the queue, and one refused by a *)
(* stopped queue leaves no trace that a restart would bring back.           *)
THEOREM RefusedStaysOut == Spec => []RefusedNotQueued
<1>1. RefuseInv => RefusedNotQueued
  BY DEF RefuseInv, RefusedNotQueued, Untraced, NotQueued
<1> QED  BY <1>1, RefuseInvariant, PTL
-----------------------------------------------------------------------------
(* The queue and its log.                                                  *)

(* Every step of the queue is a step of EventLog or leaves the log alone.   *)
LEMMA LogStep == TypeInv /\ [Next]_vars => [Log!Next]_Log!vars
<1> SUFFICES ASSUME TypeInv, [Next]_vars PROVE [Log!Next]_Log!vars
  OBVIOUS
<1> USE DEF storageVars, lifeVars, enqueueVars, flushVars, writerVars,
            flushUnchanged
<1>1. CASE UNCHANGED vars
  BY <1>1 DEF vars, Log!vars, LogPhase
<1>2. CASE Start \/ HttpShutdown \/ ShutdownStop
  BY <1>2 DEF Start, HttpShutdown, ShutdownStop, ShutdownStep, Log!vars, LogPhase
<1>3. CASE ProcessDown
  <2>1. Log!Reopen
    BY <1>3 DEF ProcessDown, Log!Reopen, LogPhase
  <2> QED  BY <2>1 DEF Log!Next
<1>4. ASSUME NEW e \in Events, HandlerStep(e) PROVE [Log!Next]_Log!vars
  <2>1. CASE EnqueuePersist(e)
    <3>1. CASE PersistenceClosed \/ Len(writeCh) >= WriteBufferSize
      BY <2>1, <3>1 DEF EnqueuePersist, EnqueueAsync, Log!vars, LogPhase
    <3>2. CASE ~(PersistenceClosed \/ Len(writeCh) >= WriteBufferSize)
      <4>1. Log!Request(e)
        BY <2>1, <3>2 DEF EnqueuePersist, EnqueueAsync, PersistenceClosed,
           Log!Request, LogPhase
      <4> QED  BY <4>1 DEF Log!Next
    <3> QED  BY <3>1, <3>2
  <2>2. CASE ~EnqueuePersist(e)
    BY <1>4, <2>2 DEF HandlerStep, EnqueueCheckStopped, EnqueueCheckDepth,
       EnqueueSend, EnqueueCount, InsertSync, Log!vars, LogPhase
  <2> QED  BY <2>1, <2>2
<1>5. CASE FlusherStep /\ ~FlushFinish
  BY <1>5 DEF FlusherStep, FlushReceive, FlushCount, FlushTick, FlushSignal,
     FlushDrained, BatchInsert, ItemInsert, Log!vars, LogPhase
<1>6. CASE FlushFinish
  <2>1. IdsToRemove \in SUBSET Events
    BY RangeOfSeq DEF IdsToRemove, TypeInv, TypeOK
  <2>2. CASE UNCHANGED bolt
    BY <1>6, <2>2 DEF FlushFinish, Log!vars, LogPhase
  <2>3. CASE ~PersistenceClosed /\ bolt' = bolt \ IdsToRemove
    <3>1. Log!Remove(IdsToRemove)
      BY <1>6, <2>3 DEF FlushFinish, PersistenceClosed, Log!Remove, LogPhase
    <3> QED  BY <2>1, <3>1 DEF Log!Next
  <2> QED  BY <1>6, <2>2, <2>3 DEF FlushFinish, PersistenceRemove
<1>7. CASE WriterTake
  <2>1. Log!Take
    BY <1>7 DEF WriterTake, PersistenceClosed, Log!Take, LogPhase, TypeInv, TypeOK, Phases
  <2> QED  BY <2>1 DEF Log!Next
<1>8. CASE WriterPut
  <2>1. Log!Put
    BY <1>8 DEF WriterPut, Log!Put, LogPhase
  <2> QED  BY <2>1 DEF Log!Next
<1>9. CASE ShutdownClose
  <2>1. Log!Close
    BY <1>9 DEF ShutdownClose, ShutdownStep, Log!Close, LogPhase
  <2> QED  BY <2>1 DEF Log!Next
<1>10. CASE ShutdownReturn
  <2>1. Log!Closed
    BY <1>10 DEF ShutdownReturn, ShutdownStep, Log!Closed, LogPhase
  <2> QED  BY <2>1 DEF Log!Next
<1>11. CASE ShutdownSignal \/ ShutdownDone \/ ShutdownTimeout
  BY <1>11 DEF ShutdownSignal, ShutdownDone, ShutdownTimeout, ShutdownStep,
     Log!vars, LogPhase
<1> QED  BY <1>1, <1>2, <1>3, <1>4, <1>5, <1>6, <1>7, <1>8, <1>9, <1>10, <1>11
         DEF Next, Crash, Exit, WriterStep, ShutdownProgress

(* The queue uses its log as EventLog allows, for any number of events,     *)
(* crashes and restarts.                                                   *)
THEOREM QueueUsesLog == Spec => UsesLog
<1>1. Init => Log!Init
  BY DEF Init, Log!Init, LogPhase
<1> QED  BY <1>1, LogStep, TypeInvariant, PTL DEF Spec, UsesLog, Log!Spec
-----------------------------------------------------------------------------
(* What FlushedEventually and ShutdownTerminates need besides fairness.     *)

(* enqueueMu has an owner that will release it, a flush has something to    *)
(* flush, and its wg.Wait someone to wait for.                             *)
OwnerInv ==
    /\ enqueueMu # NoEvent => req[enqueueMu] = "sending"
    /\ process = "up" => flusher # "off"
    /\ flusher \in {"received", "insert", "items", "finish"} => batch # <<>>
    /\ flusher = "items" => pending # {} /\ pending \subseteq Range(batch)

(* The guards of the steps each goroutine can be at.                        *)
HandlerReady(e) ==
    \/ req[e] \in {"checked", "admitted", "sending", "overflow"}
    \/ req[e] = "persisted" /\ enqueueMu = NoEvent

FlusherReady ==
    \/ flusher = "select" /\ eventCh # <<>>
    \/ flusher = "select" /\ ~draining /\ (TickDue \/ Signalled)
    \/ flusher = "select" /\ draining /\ DrainDone
    \/ flusher \in {"received", "insert", "finish"}
    \/ flusher = "items" /\ pending # {}

WriterReady == writing # NoEvent \/ writeCh # <<>>

ShutdownReady ==
    \/ shutdown = "stopping" /\ enqueueMu = NoEvent
    \/ shutdown \in {"signalled", "cancelled", "returned"}
    \/ shutdown = "closing" /\ ~WriterReady

(* A handler waits only for one that holds enqueueMu and can go on; as long *)
(* as flushLoop has not ended, it can go on whenever anything is queued,    *)
(* batched or signalled; and Shutdown waits only for the holder of          *)
(* enqueueMu or for writeLoop, which can go on.                            *)
NobodyStuck ==
    process = "up" =>
        /\ \A e \in Events : req[e] \in Unanswered =>
              HandlerReady(e) \/ \E f \in Events : req[f] = "sending"
        /\ flusher # "exited" /\ (eventCh # <<>> \/ batch # <<>> \/ Signalled) =>
              FlusherReady
        /\ Stopped =>
              ShutdownReady \/ WriterReady \/ \E f \in Events : req[f] = "sending"

(* Nobody owns the mutex of a process that is not there.                    *)
LEMMA OwnerInit == Init => OwnerInv
BY DEF Init, OwnerInv

(* Only the handler that sent holds enqueueMu, until it has counted; and    *)
(* BatchRetry is called with a batch that is not empty.                    *)
LEMMA OwnerNext == TypeInv /\ CountInv /\ OwnerInv /\ [Next]_vars => OwnerInv'
<1> SUFFICES ASSUME TypeInv, CountInv, OwnerInv, [Next]_vars PROVE OwnerInv'
  OBVIOUS
<1> USE DEF storageVars, lifeVars, enqueueVars, flushVars, writerVars, flushUnchanged
<1>0. /\ TypeOK /\ DownInv /\ MutexInv /\ NoEvent \notin Events
      /\ Len(<<>>) = 0
  BY ModelAssumption, EmptySeq DEF TypeInv, CountInv
<1>1. CASE UNCHANGED vars
  BY <1>1 DEF vars, OwnerInv
<1>2. CASE Start
  BY <1>0, <1>2 DEF Start, DownInv, OwnerInv
<1>3. CASE ProcessDown
  BY <1>3 DEF ProcessDown, OwnerInv
<1>4. ASSUME NEW e \in Events, HandlerStep(e) PROVE OwnerInv'
  <2>1. UNCHANGED <<process, flusher, batch, pending>>
    BY <1>4 DEF HandlerStep, EnqueueCheckStopped, EnqueueCheckDepth,
       EnqueuePersist, EnqueueSend, EnqueueCount, InsertSync
  <2>2. enqueueMu' # NoEvent => req'[enqueueMu'] = "sending"
    <3>1. CASE EnqueueSend(e)
      BY <1>0, <3>1 DEF EnqueueSend, TypeOK, OwnerInv
    <3>2. CASE EnqueueCount(e)
      BY <3>2 DEF EnqueueCount
    <3>3. CASE ~EnqueueSend(e) /\ ~EnqueueCount(e)
      BY <1>0, <1>4, <3>3 DEF HandlerStep, EnqueueCheckStopped, EnqueueCheckDepth,
         EnqueuePersist, InsertSync, TypeOK, OwnerInv
    <3> QED  BY <3>1, <3>2, <3>3
  <2> QED  BY <2>1, <2>2 DEF OwnerInv
<1>5. CASE FlusherStep
  <2>0. UNCHANGED <<enqueueMu, req, process>>
    BY <1>5 DEF FlusherStep, FlushReceive, FlushCount, FlushTick, FlushSignal,
       FlushDrained, BatchInsert, ItemInsert, FlushFinish
  <2>1. CASE FlushReceive
    <3>1. eventCh # <<>> /\ Head(eventCh) \in Events
      BY <1>0, <2>1 DEF FlushReceive, TypeOK
    <3>2. Len(Append(batch, Head(eventCh))) = Len(batch) + 1 /\ Len(batch) \in Nat
      BY <1>0, <3>1, AppendProperties, LenProperties DEF TypeOK
    <3>3. batch' # <<>>
      BY <1>0, <2>1, <3>2 DEF FlushReceive
    <3> QED  BY <2>0, <2>1, <3>3 DEF FlushReceive, OwnerInv
  <2>2. CASE FlushCount \/ FlushSignal \/ FlushDrained
    BY <2>0, <2>2 DEF FlushCount, FlushSignal, FlushDrained, BeginFlush, OwnerInv
  <2>3. CASE FlushTick
    BY <1>0, <2>0, <2>3 DEF FlushTick, TickDue, BeginFlush, OwnerInv
  <2>4. CASE BatchInsert
    <3>1. batch # <<>> /\ batch \in Seq(Events)
      BY <1>0, <2>4 DEF BatchInsert, OwnerInv, TypeOK
    <3>2. Range(batch) # {}
      BY <3>1, RangeHeadTail
    <3> QED  BY <2>0, <2>4, <3>1, <3>2 DEF BatchInsert, OwnerInv
  <2>5. ASSUME NEW e \in Events, ItemInsert(e) PROVE OwnerInv'
    BY <2>0, <2>5 DEF ItemInsert, OwnerInv
  <2>6. CASE FlushFinish
    BY <2>0, <2>6 DEF FlushFinish, OwnerInv
  <2> QED  BY <1>5, <2>1, <2>2, <2>3, <2>4, <2>5, <2>6 DEF FlusherStep
<1>6. CASE WriterStep \/ HttpShutdown \/ ShutdownStop \/ ShutdownProgress
  BY <1>6 DEF WriterStep, WriterTake, WriterPut, HttpShutdown, ShutdownStop,
     ShutdownProgress, ShutdownSignal, ShutdownDone, ShutdownTimeout, ShutdownClose,
     ShutdownReturn, ShutdownStep, OwnerInv
<1> QED  BY <1>1, <1>2, <1>3, <1>4, <1>5, <1>6 DEF Next, Crash, Exit

(* The mutex has its owner and a flush its batch in every reachable state.  *)
LEMMA OwnerInvariant == Spec => []OwnerInv
BY OwnerInit, OwnerNext, TypeInvariant, CountInvariant, PTL DEF Spec

(* The goroutines of a running process never wait for each other in a       *)
(* circle, and none waits for something nobody will do: a full or empty     *)
(* channel, a failing batch, a handler that outlives server.Shutdown and a  *)
(* shutdown at any point included.                                         *)
THEOREM NeverStuck == Spec => []NobodyStuck
<1>1. TypeInv /\ OwnerInv => NobodyStuck
  <2> SUFFICES ASSUME TypeInv, OwnerInv, process = "up" PROVE NobodyStuck
    BY DEF NobodyStuck
  <2>0. TypeOK
    BY DEF TypeInv
  <2>1. enqueueMu = NoEvent \/ \E f \in Events : req[f] = "sending"
    BY <2>0 DEF OwnerInv, TypeOK
  <2>2. \A e \in Events : req[e] \in Unanswered =>
           HandlerReady(e) \/ \E f \in Events : req[f] = "sending"
    BY <2>1 DEF HandlerReady, Unanswered
  <2>3. ASSUME flusher # "exited", eventCh # <<>> \/ batch # <<>> \/ Signalled
        PROVE  FlusherReady
    <3>1. batch # <<>> => TickDue
      BY <2>0, EmptySeq, LenProperties DEF TypeOK, TickDue
    <3> QED  BY <2>0, <2>3, <3>1 DEF FlusherReady, DrainDone, OwnerInv, TypeOK
  <2>4. Stopped => ShutdownReady \/ WriterReady \/ \E f \in Events : req[f] = "sending"
    BY <2>0, <2>1 DEF Stopped, ShutdownReady, TypeOK, Phases
  <2> QED  BY <2>2, <2>3, <2>4 DEF NobodyStuck
<1> QED  BY <1>1, OwnerInvariant, TypeInvariant, PTL
-----------------------------------------------------------------------------
(* A flush, seen as the call of BatchRetry that it is.                      *)

RetryPhase ==
    CASE flusher = "insert" -> "batch"
      [] flusher = "items"  -> "items"
      [] OTHER              -> "done"

(* The entries the dead letter queue has gained in this flush.              *)
NewLetters == [i \in 1..(Len(dlq) - dlqSizeBefore) |-> dlq[dlqSizeBefore + i]]

(* BatchOutcome for a batch of the events in B: its rows are those of B.     *)
Outcome(B) == INSTANCE BatchOutcome WITH
    Items <- B, BadItems <- BadEvents \cap B, db <- db \cap B,
    phase <- RetryPhase, pending <- pending, dlq <- NewLetters,
    cancelled <- CtxCancelled

(* As long as the process lives and the dead letter queue has room, flush    *)
(* calls BatchRetry in an initial state of BatchOutcome, and from then on    *)
(* whatever any goroutine does is a step of BatchOutcome or a stutter: no    *)
(* handler inserts an event of the batch meanwhile, and a shutdown is the   *)
(* cancellation.                                                           *)
FlushBegins ==
    flusher # "insert" /\ flusher' = "insert" =>
        \A B \in SUBSET Events : Range(batch)' = B => Outcome(B)!Init'

FlushSteps ==
    \A B \in SUBSET Events :
        /\ flusher \in {"insert", "items"} /\ Range(batch) = B
        /\ Len(dlq) < DeadLetterQueueSize
        /\ process' = "up"
        => [Outcome(B)!Next]_(Outcome(B)!vars)

FlushIsBatchRetry == FlushBegins /\ FlushSteps

(* A failed item is the next entry.                                        *)
LEMMA NewLettersAppend ==
    ASSUME TypeInv, flusher = "items", Len(dlq) < DeadLetterQueueSize,
           NEW e \in Events, dlq' = DLQAdd(dlq, e), UNCHANGED dlqSizeBefore
    PROVE  NewLetters' = Append(NewLetters, e)
<1>1. /\ dlq \in Seq(Events) /\ Len(dlq) \in Nat /\ DeadLetterQueueSize \in Nat
      /\ dlqSizeBefore \in Nat /\ dlqSizeBefore <= Len(dlq)
  BY ConfigAssumption, LenProperties DEF TypeInv, TypeOK, RetryInv
<1>2. dlq' = Append(dlq, e) /\ Len(dlq') = Len(dlq) + 1
  BY <1>1, AppendProperties DEF DLQAdd
<1>3. /\ \A i \in 1..Len(dlq) : dlq'[i] = dlq[i]
      /\ dlq'[Len(dlq) + 1] = e
  BY <1>1, <1>2, AppendProperties
<1> DEFINE n == Len(dlq) - dlqSizeBefore
<1>4. n \in Nat /\ NewLetters = [i \in 1..n |-> dlq[dlqSizeBefore + i]]
  BY <1>1 DEF NewLetters
<1>5. NewLetters \in Seq(Events) /\ Len(NewLetters) = n
  <2>1. \A i \in 1..n : dlqSizeBefore + i \in 1..Len(dlq)
    BY <1>1
  <2>2. \A i \in 1..n : dlq[dlqSizeBefore + i] \in Events
    BY <1>1, <2>1, ElementOfSeq
  <2>3. NewLetters \in [1..n -> Events]
    BY <1>4, <2>2
  <2> QED  BY <1>4, <2>3
<1>6. NewLetters' = [i \in 1..(n + 1) |-> dlq'[dlqSizeBefore + i]]
  BY <1>1, <1>2 DEF NewLetters
<1>7. /\ Append(NewLetters, e) \in Seq(Events)
      /\ Len(Append(NewLetters, e)) = n + 1
      /\ \A i \in 1..n : Append(NewLetters, e)[i] = NewLetters[i]
      /\ Append(NewLetters, e)[n + 1] = e
  BY <1>4, <1>5, AppendProperties
<1>8. \A i \in 1..(n + 1) : dlq'[dlqSizeBefore + i] = Append(NewLetters, e)[i]
  <2> SUFFICES ASSUME NEW i \in 1..(n + 1)
               PROVE  dlq'[dlqSizeBefore + i] = Append(NewLetters, e)[i]
    OBVIOUS
  <2>1. CASE i = n + 1
    BY <1>1, <1>3, <1>7, <2>1
  <2>2. CASE i \in 1..n
    <3>1. dlqSizeBefore + i \in 1..Len(dlq)
      BY <1>1, <2>2
    <3> QED  BY <1>3, <1>4, <1>7, <2>2, <3>1
  <2> QED  BY <1>4, <2>1, <2>2
<1>9. Append(NewLetters, e) = [i \in 1..(n + 1) |-> Append(NewLetters, e)[i]]
  BY <1>7, LenProperties
<1> QED  BY <1>6, <1>8, <1>9

(* What leaves the flush alone is a cancellation at most.                   *)
LEMMA FlushUndisturbed ==
    ASSUME TypeInv, NEW B \in SUBSET Events, db' \cap B = db \cap B,
           UNCHANGED <<flusher, pending, dlq, dlqSizeBefore>>,
           CtxCancelled => CtxCancelled'
    PROVE  [Outcome(B)!Next]_(Outcome(B)!vars)
<1>1. UNCHANGED <<RetryPhase, NewLetters, db \cap B, pending>>
  BY DEF RetryPhase, NewLetters
<1>2. CASE CtxCancelled' = CtxCancelled
  BY <1>1, <1>2 DEF Outcome!vars
<1>3. CASE CtxCancelled' # CtxCancelled
  <2>1. CtxCancelled \in BOOLEAN /\ CtxCancelled' \in BOOLEAN
    BY DEF CtxCancelled
  <2>2. Outcome(B)!Cancel
    BY <1>1, <1>3, <2>1 DEF Outcome!Cancel
  <2> QED  BY <2>2 DEF Outcome!Next
<1> QED  BY <1>2, <1>3

(* The batch insert of flush is the one of BatchOutcome.                    *)
LEMMA FlushBatchStep ==
    ASSUME NEW B \in SUBSET Events, Range(batch) = B, BatchInsert
    PROVE  Outcome(B)!BatchInsert
<1>1. /\ RetryPhase = "batch" /\ CtxCancelled' = CtxCancelled
      /\ UNCHANGED NewLetters
  BY DEF BatchInsert, RetryPhase, CtxCancelled, NewLetters, flushUnchanged, lifeVars
<1>2. InsertSucceeds(B) => Outcome(B)!Stored(B)
  BY DEF InsertSucceeds, Insertable, Outcome!Stored
<1>3. CASE ~CtxCancelled /\ InsertSucceeds(B) /\ flusher' = "finish" /\ UNCHANGED pending
  <2>1. RetryPhase' = "done"
    BY <1>3 DEF RetryPhase
  <2> QED  BY <1>1, <1>2, <1>3, <2>1 DEF Outcome!BatchInsert
<1>4. CASE InsertFails(B) /\ pending' = B /\ flusher' = "items"
  <2>1. RetryPhase' = "items"
    BY <1>4 DEF RetryPhase
  <2>2. db' \cap B = db \cap B \/ Outcome(B)!Stored(B)
    BY <1>2, <1>4 DEF InsertFails
  <2> QED  BY <1>1, <1>4, <2>1, <2>2 DEF Outcome!BatchInsert
<1> QED  BY <1>3, <1>4 DEF BatchInsert

(* The insert of one item is the one of BatchOutcome.                       *)
LEMMA FlushItemStep ==
    ASSUME TypeInv, OwnerInv, NEW B \in SUBSET Events, Range(batch) = B,
           Len(dlq) < DeadLetterQueueSize, NEW e \in Events, ItemInsert(e)
    PROVE  e \in B /\ Outcome(B)!ItemInsert(e)
<1>0. e \in pending /\ e \in B
  BY DEF ItemInsert, OwnerInv
<1>1. RetryPhase = "items" /\ CtxCancelled' = CtxCancelled /\ UNCHANGED dlqSizeBefore
  BY DEF ItemInsert, RetryPhase, CtxCancelled, flushUnchanged, lifeVars
<1>2. /\ pending' = pending \ {e}
      /\ RetryPhase' = IF pending' = {} THEN "done" ELSE "items"
  BY DEF ItemInsert, RetryPhase
<1>3. InsertSucceeds({e}) => Outcome(B)!Stored({e})
  BY <1>0 DEF InsertSucceeds, Insertable, Outcome!Stored
<1>4. CASE ~CtxCancelled /\ InsertSucceeds({e}) /\ UNCHANGED dlq
  <2>1. UNCHANGED NewLetters
    BY <1>1, <1>4 DEF NewLetters
  <2> QED  BY <1>0, <1>1, <1>2, <1>3, <1>4, <2>1 DEF Outcome!ItemInsert
<1>5. CASE InsertFails({e}) /\ dlq' = DLQAdd(dlq, e)
  <2>1. NewLetters' = Append(NewLetters, e)
    BY <1>1, <1>5, NewLettersAppend DEF ItemInsert
  <2>2. db' \cap B = db \cap B \/ Outcome(B)!Stored({e})
    BY <1>3, <1>5 DEF InsertFails
  <2> QED  BY <1>0, <1>1, <1>2, <2>1, <2>2 DEF Outcome!ItemInsert
<1> QED  BY <1>4, <1>5 DEF ItemInsert

(* Every step while BatchRetry runs is one of BatchOutcome or of none of its *)
(* concern: the rows that others insert meanwhile are not of the batch.      *)
LEMMA FlushNext ==
    ASSUME TypeInv, OwnerInv, RefuseInv, [Next]_vars
    PROVE  FlushSteps
<1> SUFFICES ASSUME NEW B \in SUBSET Events,
                    flusher \in {"insert", "items"}, Range(batch) = B,
                    Len(dlq) < DeadLetterQueueSize, process' = "up"
             PROVE  [Outcome(B)!Next]_(Outcome(B)!vars)
  BY DEF FlushSteps
<1> USE DEF storageVars, lifeVars, enqueueVars, flushVars, writerVars, flushUnchanged
<1>1. CASE UNCHANGED vars
  BY <1>1, FlushUndisturbed DEF vars, CtxCancelled
<1>2. CASE Start
  BY <1>2 DEF Start, TypeInv, RetryInv
<1>3. CASE ProcessDown
  BY <1>3 DEF ProcessDown
<1>4. ASSUME NEW e \in Events, HandlerStep(e) PROVE [Outcome(B)!Next]_(Outcome(B)!vars)
  <2>1. UNCHANGED <<flusher, pending, dlq, dlqSizeBefore, shutdown>>
    BY <1>4 DEF HandlerStep, EnqueueCheckStopped, EnqueueCheckDepth, EnqueuePersist,
       EnqueueSend, EnqueueCount, InsertSync
  <2>2. db' \cap B = db \cap B
    <3>1. CASE InsertSync(e)
      <4>1. e \notin B
        BY <3>1 DEF InsertSync, RefuseInv, NotQueued
      <4>2. db' = db \/ db' = db \cup {e}
        BY <3>1 DEF InsertSync, InsertSucceeds, InsertFails
      <4> QED  BY <4>1, <4>2
    <3>2. CASE ~InsertSync(e)
      BY <1>4, <3>2 DEF HandlerStep, EnqueueCheckStopped, EnqueueCheckDepth,
         EnqueuePersist, EnqueueSend, EnqueueCount
    <3> QED  BY <3>1, <3>2
  <2> QED  BY <2>1, <2>2, FlushUndisturbed DEF CtxCancelled
<1>5. CASE FlusherStep
  <2>1. BatchInsert \/ \E e \in Events : ItemInsert(e)
    BY <1>5 DEF FlusherStep, FlushReceive, FlushCount, FlushTick, FlushSignal,
       FlushDrained, FlushFinish
  <2>2. CASE BatchInsert
    BY <2>2, FlushBatchStep DEF Outcome!Next
  <2>3. ASSUME NEW e \in Events, ItemInsert(e) PROVE Outcome(B)!Next
    BY <2>3, FlushItemStep DEF Outcome!Next
  <2> QED  BY <2>1, <2>2, <2>3
<1>6. CASE WriterStep \/ HttpShutdown
  BY <1>6, FlushUndisturbed DEF WriterStep, WriterTake, WriterPut, HttpShutdown,
     CtxCancelled
<1>7. CASE ShutdownStop \/ ShutdownProgress
  <2>1. UNCHANGED <<db, flusher, pending, dlq, dlqSizeBefore>>
    BY <1>7 DEF ShutdownStop, ShutdownProgress, ShutdownSignal, ShutdownDone,
       ShutdownTimeout, ShutdownClose, ShutdownReturn, ShutdownStep
  <2>2. CtxCancelled => CtxCancelled'
    BY <1>7 DEF ShutdownStop, ShutdownProgress, ShutdownSignal, ShutdownDone,
       ShutdownTimeout, ShutdownClose, ShutdownReturn, ShutdownStep, CtxCancelled
  <2> QED  BY <2>1, <2>2, FlushUndisturbed
<1> QED  BY <1>1, <1>2, <1>3, <1>4, <1>5, <1>6, <1>7 DEF Next, Crash, Exit

(* flush calls BatchRetry with a measured dead letter queue and no item     *)
(* started, but possibly with a context that is cancelled already.         *)
LEMMA FlushStart ==
    ASSUME TypeInv, TypeInv', [Next]_vars
    PROVE  FlushBegins
<1> SUFFICES ASSUME flusher # "insert", flusher' = "insert",
                    NEW B \in SUBSET Events, Range(batch)' = B
             PROVE  Outcome(B)!Init'
  BY DEF FlushBegins
<1>1. pending' = {} /\ dlqSizeBefore' = Len(dlq') /\ db' \subseteq Events \ BadEvents
  BY DEF TypeInv, TypeOK, RetryInv
<1>2. Len(dlq') \in Nat
  BY LenProperties DEF TypeInv, TypeOK
<1>3. NewLetters' = <<>>
  <2>1. NewLetters' = [i \in 1..(Len(dlq') - Len(dlq')) |-> dlq'[dlqSizeBefore' + i]]
    BY <1>1 DEF NewLetters
  <2>2. 1..(Len(dlq') - Len(dlq')) = {}
    BY <1>2
  <2> QED  BY <2>1, <2>2
<1>4. RetryPhase' = "batch" /\ CtxCancelled' \in BOOLEAN
  BY DEF RetryPhase, CtxCancelled
<1>5. (db \cap B)' \in SUBSET (B \ (BadEvents \cap B))
  BY <1>1
<1> QED  BY <1>1, <1>3, <1>4, <1>5 DEF Outcome!Init

(* What Retry shows of BatchRetry alone holds of it inside the queue: a     *)
(* flush begins in an initial state of BatchOutcome, and every step of any   *)
(* goroutine until it ends is a step of BatchOutcome or a stutter.  That     *)
(* nobody else inserts an event of the batch is RefusedNotQueued.           *)
THEOREM FlushesAreBatchRetries == Spec => [][FlushIsBatchRetry]_vars
<1>1. TypeInv /\ TypeInv' /\ OwnerInv /\ RefuseInv /\ [Next]_vars => [FlushIsBatchRetry]_vars
  BY FlushStart, FlushNext DEF FlushIsBatchRetry
<1> QED  BY <1>1, OwnerInvariant, RefuseInvariant, TypeInvariant, PTL DEF Spec
=============================================================================
