----------------------------- MODULE EventQueue -----------------------------
(***************************************************************************)
(* The asynchronous event queue of collider (internal/queue) with its      *)
(* BoltDB write-ahead bucket, the batch retry it flushes through           *)
(* (internal/retry), the HTTP handlers that feed it (createEventAsync) and *)
(* the process lifecycle of cmd/api: start and recovery, graceful          *)
(* shutdown, crash and restart.                                            *)
(*                                                                         *)
(* Concurrent actors: one handler goroutine per event, the flushLoop       *)
(* goroutine, the persistence writeLoop goroutine, and main, which shuts   *)
(* the queue down.  An action is the code between two points at which      *)
(* another actor can observe or change shared state.                       *)
(***************************************************************************)
EXTENDS Integers, Sequences, FiniteSets, Functions

CONSTANTS
    Events,              \* events clients submit, named by their snowflake ID
    BadEvents,           \* those PostgreSQL refuses (no such user: foreign key)
    NoEvent,             \* "no event": an unlocked mutex, an idle writer
    MaxSize,             \* Config.MaxSize, the capacity of eventCh
    BatchSize,           \* Config.BatchSize
    WriteBufferSize,     \* writeBufferSize, the capacity of writeCh
    DeadLetterQueueSize, \* Config.DeadLetterQueueSize
    MaxLives,            \* bound: how many times the process may be started
    MayCrash             \* bound: whether the process may be killed

(* NewEventQueue refuses other sizes; a negative DeadLetterQueueSize panics. *)
ASSUME ConfigAssumption ==
    /\ MaxSize \in Nat \ {0}
    /\ BatchSize \in 1..MaxSize
    /\ WriteBufferSize \in Nat
    /\ DeadLetterQueueSize \in Nat

ASSUME ModelAssumption ==
    /\ NoEvent \notin Events
    /\ BadEvents \subseteq Events
    /\ MaxLives \in Nat
    /\ MayCrash \in BOOLEAN

VARIABLES
    db,            \* rows of the PostgreSQL table events
    bolt,          \* keys of the BoltDB bucket pending_events
    process,       \* "up" or "down"
    lives,         \* processes started so far
    req,           \* what the handler of each event has done
    eventCh,       \* the buffered channel between Enqueue and flushLoop
    enqueueMu,     \* the handler that holds enqueueMu, after its send
    currentDepth, totalEnqueued, totalFlushed, totalFailed,
    recovered,     \* recoveredCount of this process's Start
    flusher,       \* where flushLoop is
    draining,      \* flushLoop has seen shutdownSignalCh closed
    batch,         \* flushLoop's batch
    pending,       \* items of a failed batch whose own retry has not ended
    dlq,           \* the dead letter queue
    dlqSizeBefore, \* local of flush
    evicted,       \* history: events this process's full dlq has discarded
    writeCh,       \* the buffered channel between EnqueueAsync and writeLoop
    writing,       \* the request writeLoop is putting into BoltDB
    httpDrained,   \* server.Shutdown has returned, before its timeout
    shutdown       \* how far EventQueue.Shutdown has got

storageVars == <<db, bolt>>
lifeVars    == <<process, lives, httpDrained, shutdown>>
enqueueVars == <<req, enqueueMu, totalEnqueued, recovered>>
flushVars   == <<flusher, draining, batch, pending, dlq, dlqSizeBefore,
                 evicted, totalFlushed, totalFailed>>
writerVars  == <<writeCh, writing>>
vars == <<storageVars, lifeVars, enqueueVars, flushVars, writerVars,
          eventCh, currentDepth>>

(* Handler states.  "overflow" is ErrQueueFull or ErrQueueChannelFull,      *)
(* answered by the synchronous fallback; "accepted" is a 202 by this       *)
(* process, "acked" a 202 by an earlier one, and "ended" another answer, or *)
(* none, by an earlier one.                                                *)
Unanswered == {"checked", "admitted", "persisted", "sending", "overflow"}
Answered   == {"accepted", "acked", "stopped", "created", "failed", "ended"}
ReqState   == {"new"} \cup Unanswered \cup Answered

Phases == {"none", "stopping", "signalled", "cancelled", "closing", "returned"}

(* eq.stopped, shutdownSignalCh, shutdownCtx and p.closed are each set once *)
(* by Shutdown, in this order.                                             *)
Stopped           == shutdown # "none"
Signalled         == shutdown \in {"signalled", "cancelled", "closing", "returned"}
CtxCancelled      == shutdown \in {"cancelled", "closing", "returned"}
PersistenceClosed == shutdown \in {"closing", "returned"}

(* The insert statements have no ON CONFLICT clause: a row that is there    *)
(* already, or one whose user does not exist, fails the whole statement.   *)
(* When the connection breaks, the caller gets an error although the       *)
(* statement may have committed.                                           *)
Insertable(S) == S \cap (db \cup BadEvents) = {}
InsertSucceeds(S) == Insertable(S) /\ db' = db \cup S
InsertFails(S) == db' = db \/ InsertSucceeds(S)
-----------------------------------------------------------------------------
(* Process start: NewEventQueue, NewPersistence and EventQueue.Start.       *)

(* Recover returns the bucket in key order; Start sends the events into    *)
(* eventCh until it is full.  flushLoop does not run yet, so every later    *)
(* send times out and that event stays in the bucket only.                 *)
RecoveredPrefixes ==
    UNION {{s \in Injection(1..n, bolt) : Range(s) = bolt \/ n = MaxSize}
             : n \in 0..MaxSize}

Start ==
    /\ process = "down"
    /\ lives < MaxLives
    /\ process' = "up"
    /\ lives' = lives + 1
    /\ eventCh' \in RecoveredPrefixes
    /\ recovered' = Len(eventCh')
    /\ totalEnqueued' = Len(eventCh')
    /\ flusher' = "select"
    /\ UNCHANGED <<storageVars, httpDrained, shutdown, req, enqueueMu,
                   draining, batch, pending, dlq, dlqSizeBefore, evicted,
                   totalFlushed, totalFailed, writerVars, currentDepth>>

(* The end of a process, by a crash or by main returning: only PostgreSQL   *)
(* and BoltDB survive; clients without an answer see the connection break. *)
ProcessDown ==
    /\ process' = "down"
    /\ httpDrained' = FALSE
    /\ shutdown' = "none"
    /\ req' = [e \in Events |->
                  CASE req[e] \in {"new", "acked"} -> req[e]
                    [] req[e] = "accepted"         -> "acked"
                    [] OTHER                       -> "ended"]
    /\ eventCh' = <<>>
    /\ enqueueMu' = NoEvent
    /\ currentDepth' = 0
    /\ totalEnqueued' = 0
    /\ totalFlushed' = 0
    /\ totalFailed' = 0
    /\ recovered' = 0
    /\ flusher' = "off"
    /\ draining' = FALSE
    /\ batch' = <<>>
    /\ pending' = {}
    /\ dlq' = <<>>
    /\ dlqSizeBefore' = 0
    /\ evicted' = {}
    /\ writeCh' = <<>>
    /\ writing' = NoEvent
    /\ UNCHANGED <<storageVars, lives>>

Crash ==
    /\ process = "up"
    /\ MayCrash
    /\ ProcessDown

Exit ==
    /\ process = "up"
    /\ shutdown = "returned"
    /\ ProcessDown
-----------------------------------------------------------------------------
(* The handler: createEventAsync, and EventQueue.Enqueue inside it.         *)

(* Read eq.stopped under the read lock.  Once server.Shutdown has drained   *)
(* the listener, no request arrives.                                       *)
EnqueueCheckStopped(e) ==
    /\ process = "up"
    /\ req[e] = "new"
    /\ ~httpDrained
    /\ enqueueMu = NoEvent
    /\ req' = [req EXCEPT ![e] = IF Stopped THEN "stopped" ELSE "checked"]
    /\ UNCHANGED <<storageVars, lifeVars, enqueueMu, totalEnqueued, recovered,
                   flushVars, writerVars, eventCh, currentDepth>>

EnqueueCheckDepth(e) ==
    /\ req[e] = "checked"
    /\ req' = [req EXCEPT ![e] = IF currentDepth >= MaxSize
                                 THEN "overflow" ELSE "admitted"]
    /\ UNCHANGED <<storageVars, lifeVars, enqueueMu, totalEnqueued, recovered,
                   flushVars, writerVars, eventCh, currentDepth>>

(* EnqueueAsync: a closed persistence or a full buffer drops the request;   *)
(* Enqueue only logs the error.                                            *)
EnqueueAsync(e) ==
    writeCh' = IF PersistenceClosed \/ Len(writeCh) >= WriteBufferSize
               THEN writeCh ELSE Append(writeCh, e)

EnqueuePersist(e) ==
    /\ req[e] = "admitted"
    /\ EnqueueAsync(e)
    /\ req' = [req EXCEPT ![e] = "persisted"]
    /\ UNCHANGED <<storageVars, lifeVars, enqueueMu, totalEnqueued, recovered,
                   flushVars, writing, eventCh, currentDepth>>

EnqueueSendThenLook(e) ==
    /\ req[e] = "persisted"
    /\ enqueueMu = NoEvent
    /\ Len(eventCh) < MaxSize
    /\ eventCh' = Append(eventCh, e)
    /\ enqueueMu' = IF Len(eventCh') < MaxSize THEN e ELSE NoEvent
    /\ req' = [req EXCEPT ![e] = IF Len(eventCh') < MaxSize
                                 THEN "sending" ELSE "overflow"]
    /\ UNCHANGED <<storageVars, lifeVars, totalEnqueued, recovered,
                   flushVars, writerVars, currentDepth>>

(* Under enqueueMu: the non-blocking send.  flushLoop does not take the     *)
(* mutex, so it can receive the event before the counters are updated.     *)
EnqueueSend(e) ==
    /\ req[e] = "persisted"
    /\ enqueueMu = NoEvent
    /\ \/ /\ Len(eventCh) < MaxSize
          /\ eventCh' = Append(eventCh, e)
          /\ enqueueMu' = e
          /\ req' = [req EXCEPT ![e] = "sending"]
       \/ /\ Len(eventCh) >= MaxSize
          /\ req' = [req EXCEPT ![e] = "overflow"]
          /\ UNCHANGED <<eventCh, enqueueMu>>
    /\ UNCHANGED <<storageVars, lifeVars, totalEnqueued, recovered,
                   flushVars, writerVars, currentDepth>>

(* Still under enqueueMu: the counters; then unlock and answer 202.  The    *)
(* statistic maxDepth is the largest currentDepth seen, and not kept.      *)
EnqueueCount(e) ==
    /\ req[e] = "sending"
    /\ totalEnqueued' = totalEnqueued + 1
    /\ currentDepth' = currentDepth + 1
    /\ enqueueMu' = NoEvent
    /\ req' = [req EXCEPT ![e] = "accepted"]
    /\ UNCHANGED <<storageVars, lifeVars, recovered, flushVars, writerVars,
                   eventCh>>

(* insertEventSyncAndRespond, the fallback of an overflow.                  *)
InsertSync(e) ==
    /\ req[e] = "overflow"
    /\ \/ InsertSucceeds({e}) /\ req' = [req EXCEPT ![e] = "created"]
       \/ InsertFails({e}) /\ req' = [req EXCEPT ![e] = "failed"]
    /\ UNCHANGED <<bolt, lifeVars, enqueueMu, totalEnqueued, recovered,
                   flushVars, writerVars, eventCh, currentDepth>>
-----------------------------------------------------------------------------
(* flushLoop.                                                              *)

flushUnchanged ==
    UNCHANGED <<lifeVars, enqueueVars, writerVars>>

FlushReceive ==
    /\ flusher = "select"
    /\ eventCh # <<>>
    /\ batch' = Append(batch, Head(eventCh))
    /\ eventCh' = Tail(eventCh)
    /\ flusher' = "received"
    /\ flushUnchanged
    /\ UNCHANGED <<storageVars, currentDepth, draining, pending, dlq,
                   dlqSizeBefore, evicted, totalFlushed, totalFailed>>

(* The head of flush: the dead letter queue is measured before the retry.   *)
BeginFlush ==
    /\ flusher' = "insert"
    /\ dlqSizeBefore' = Len(dlq)

(* After the receive: the depth counter, then the size threshold, which the *)
(* drain loop of a shutdown does not have.                                 *)
FlushCountMissedInDrain ==
    /\ flusher = "received"
    /\ currentDepth' = IF draining THEN currentDepth ELSE currentDepth - 1
    /\ IF ~draining /\ Len(batch) >= BatchSize
       THEN BeginFlush
       ELSE flusher' = "select" /\ UNCHANGED dlqSizeBefore
    /\ flushUnchanged
    /\ UNCHANGED <<storageVars, eventCh, draining, batch, pending, dlq,
                   evicted, totalFlushed, totalFailed>>

FlushCount ==
    /\ flusher = "received"
    /\ currentDepth' = currentDepth - 1
    /\ IF ~draining /\ Len(batch) >= BatchSize
       THEN BeginFlush
       ELSE flusher' = "select" /\ UNCHANGED dlqSizeBefore
    /\ flushUnchanged
    /\ UNCHANGED <<storageVars, eventCh, draining, batch, pending, dlq,
                   evicted, totalFlushed, totalFailed>>

(* The ticker flushes any batch that is not empty.                          *)
TickDueOnlyWhenFull == Len(batch) >= BatchSize
TickDue == Len(batch) > 0

FlushTick ==
    /\ flusher = "select"
    /\ ~draining
    /\ TickDue
    /\ BeginFlush
    /\ flushUnchanged
    /\ UNCHANGED <<storageVars, eventCh, currentDepth, draining, batch,
                   pending, dlq, evicted, totalFlushed, totalFailed>>

FlushSignal ==
    /\ flusher = "select"
    /\ ~draining
    /\ Signalled
    /\ draining' = TRUE
    /\ flushUnchanged
    /\ UNCHANGED <<storageVars, eventCh, currentDepth, flusher, batch, pending,
                   dlq, dlqSizeBefore, evicted, totalFlushed, totalFailed>>

(* The drain loop ends when a receive would block.                          *)
DrainDoneAtOnce == TRUE
DrainDone == eventCh = <<>>

FlushDrained ==
    /\ flusher = "select"
    /\ draining
    /\ DrainDone
    /\ IF batch = <<>>
       THEN flusher' = "exited" /\ UNCHANGED dlqSizeBefore
       ELSE BeginFlush
    /\ flushUnchanged
    /\ UNCHANGED <<storageVars, eventCh, currentDepth, draining, batch,
                   pending, dlq, evicted, totalFlushed, totalFailed>>
-----------------------------------------------------------------------------
(* flush: BatchRetry on the batch, then on its items, then the log.         *)

(* All attempts of the batch insert.  Once shutdownCtx is cancelled no new  *)
(* statement is sent.                                                      *)
BatchInsert ==
    /\ flusher = "insert"
    /\ \/ /\ ~CtxCancelled
          /\ InsertSucceeds(Range(batch))
          /\ flusher' = "finish"
          /\ UNCHANGED pending
       \/ /\ InsertFails(Range(batch))
          /\ pending' = Range(batch)
          /\ flusher' = "items"
    /\ flushUnchanged
    /\ UNCHANGED <<bolt, eventCh, currentDepth, draining, batch, dlq,
                   dlqSizeBefore, evicted, totalFlushed, totalFailed>>

(* DeadLetterQueue.Add: a full queue discards its oldest entry.             *)
DLQAddUnbounded(q, e) == Append(q, e)
DLQAdd(q, e) ==
    LET events == Append(q, e) IN
    IF Len(events) > DeadLetterQueueSize THEN Tail(events) ELSE events

DLQDiscarded(q, e) ==
    LET events == Append(q, e) IN
    IF Len(events) > DeadLetterQueueSize THEN {Head(events)} ELSE {}

(* The goroutine of one item: all attempts of its own insert.  The last one *)
(* to end releases wg.Wait.                                                *)
ItemInsertForgetsFailure(e) ==
    /\ flusher = "items"
    /\ e \in pending
    /\ \/ ~CtxCancelled /\ InsertSucceeds({e})
       \/ InsertFails({e})
    /\ UNCHANGED <<dlq, evicted>>
    /\ pending' = pending \ {e}
    /\ flusher' = IF pending' = {} THEN "finish" ELSE "items"
    /\ flushUnchanged
    /\ UNCHANGED <<bolt, eventCh, currentDepth, draining, batch,
                   dlqSizeBefore, totalFlushed, totalFailed>>

ItemInsert(e) ==
    /\ flusher = "items"
    /\ e \in pending
    /\ \/ /\ ~CtxCancelled
          /\ InsertSucceeds({e})
          /\ UNCHANGED <<dlq, evicted>>
       \/ /\ InsertFails({e})
          /\ dlq' = DLQAdd(dlq, e)
          /\ evicted' = evicted \cup DLQDiscarded(dlq, e)
    /\ pending' = pending \ {e}
    /\ flusher' = IF pending' = {} THEN "finish" ELSE "items"
    /\ flushUnchanged
    /\ UNCHANGED <<bolt, eventCh, currentDepth, draining, batch,
                   dlqSizeBefore, totalFlushed, totalFailed>>

FailedInThisBatch == Len(dlq) - dlqSizeBefore

(* The events the last FailedInThisBatch entries of the dlq are about.      *)
FailedIDs == {dlq[i] : i \in (Len(dlq) - FailedInThisBatch + 1)..Len(dlq)}

IdsToRemoveIgnoringFailures ==
    IF FailedInThisBatch < Len(batch) THEN Range(batch) ELSE {}

IdsToRemove ==
    IF FailedInThisBatch = 0 THEN Range(batch)
    ELSE IF FailedInThisBatch < Len(batch) THEN Range(batch) \ FailedIDs
    ELSE {}

FlushedCountWholeBatch == Len(batch)
FlushedCount == Len(batch) - FailedInThisBatch

(* Persistence.Remove: one transaction, which a closed persistence refuses  *)
(* and a BoltDB error undoes; flush only logs the error.                   *)
PersistenceRemove(ids) ==
    \/ UNCHANGED bolt
    \/ ~PersistenceClosed /\ bolt' = bolt \ ids

(* The tail of flush: the log, then the statistics and an empty batch.      *)
FlushFinish ==
    /\ flusher = "finish"
    /\ PersistenceRemove(IdsToRemove)
    /\ totalFlushed' = totalFlushed + FlushedCount
    /\ totalFailed' = Len(dlq)
    /\ batch' = <<>>
    /\ dlqSizeBefore' = 0
    /\ flusher' = IF draining THEN "exited" ELSE "select"
    /\ flushUnchanged
    /\ UNCHANGED <<db, eventCh, currentDepth, draining, pending, dlq, evicted>>
-----------------------------------------------------------------------------
(* writeLoop.                                                              *)

(* Take a request and read p.closed; a closed persistence refuses it.       *)
WriterTakeUnlessClosed ==
    /\ writing = NoEvent
    /\ writeCh # <<>>
    /\ ~PersistenceClosed
    /\ writing' = Head(writeCh)
    /\ writeCh' = Tail(writeCh)
    /\ UNCHANGED <<storageVars, lifeVars, enqueueVars, flushVars, eventCh,
                   currentDepth>>

WriterTake ==
    /\ writing = NoEvent
    /\ writeCh # <<>>
    /\ writing' = IF PersistenceClosed THEN NoEvent ELSE Head(writeCh)
    /\ writeCh' = Tail(writeCh)
    /\ UNCHANGED <<storageVars, lifeVars, enqueueVars, flushVars, eventCh,
                   currentDepth>>

(* The BoltDB transaction, which may fail: the event is then not logged.    *)
WriterPut ==
    /\ writing # NoEvent
    /\ bolt' \in {bolt, bolt \cup {writing}}
    /\ writing' = NoEvent
    /\ UNCHANGED <<db, lifeVars, enqueueVars, flushVars, writeCh, eventCh,
                   currentDepth>>
-----------------------------------------------------------------------------
(* main: server.Shutdown, then EventQueue.Shutdown.                        *)

(* server.Shutdown returns because every handler has ended.  It may time    *)
(* out instead, and main goes on with handlers still running.              *)
HttpShutdown ==
    /\ process = "up"
    /\ shutdown = "none"
    /\ ~httpDrained
    /\ \A e \in Events : req[e] \notin Unanswered
    /\ httpDrained' = TRUE
    /\ UNCHANGED <<storageVars, process, lives, shutdown, enqueueVars,
                   flushVars, writerVars, eventCh, currentDepth>>

ShutdownStep(from, to) ==
    /\ process = "up"
    /\ shutdown = from
    /\ shutdown' = to
    /\ UNCHANGED <<storageVars, process, lives, httpDrained, enqueueVars,
                   flushVars, writerVars, eventCh, currentDepth>>

ShutdownStop == ShutdownStep("none", "stopping")

ShutdownSignal ==
    /\ enqueueMu = NoEvent
    /\ ShutdownStep("stopping", "signalled")

(* shutdownCancel, after wg.Wait or after the timeout.                      *)
ShutdownDone ==
    /\ flusher = "exited"
    /\ ShutdownStep("signalled", "cancelled")

ShutdownTimeout == ShutdownStep("signalled", "cancelled")

(* Persistence.Close: set closed, close writeCh, wait for writeLoop to      *)
(* empty it, close BoltDB.                                                 *)
ShutdownClose == ShutdownStep("cancelled", "closing")

ShutdownReturnWithoutWait == ShutdownStep("closing", "returned")
ShutdownReturn ==
    /\ writing = NoEvent
    /\ writeCh = <<>>
    /\ ShutdownStep("closing", "returned")
-----------------------------------------------------------------------------
Init ==
    /\ db = {}
    /\ bolt = {}
    /\ process = "down"
    /\ lives = 0
    /\ httpDrained = FALSE
    /\ shutdown = "none"
    /\ req = [e \in Events |-> "new"]
    /\ eventCh = <<>>
    /\ enqueueMu = NoEvent
    /\ currentDepth = 0
    /\ totalEnqueued = 0
    /\ totalFlushed = 0
    /\ totalFailed = 0
    /\ recovered = 0
    /\ flusher = "off"
    /\ draining = FALSE
    /\ batch = <<>>
    /\ pending = {}
    /\ dlq = <<>>
    /\ dlqSizeBefore = 0
    /\ evicted = {}
    /\ writeCh = <<>>
    /\ writing = NoEvent

HandlerStep(e) ==
    \/ EnqueueCheckStopped(e)
    \/ EnqueueCheckDepth(e)
    \/ EnqueuePersist(e)
    \/ EnqueueSend(e)
    \/ EnqueueCount(e)
    \/ InsertSync(e)

FlusherStep ==
    \/ FlushReceive
    \/ FlushCount
    \/ FlushTick
    \/ FlushSignal
    \/ FlushDrained
    \/ BatchInsert
    \/ \E e \in Events : ItemInsert(e)
    \/ FlushFinish

WriterStep == WriterTake \/ WriterPut

(* What Shutdown does once it has been called.                              *)
ShutdownProgress ==
    \/ ShutdownSignal
    \/ ShutdownDone
    \/ ShutdownTimeout
    \/ ShutdownClose
    \/ ShutdownReturn

Next ==
    \/ Start
    \/ Crash
    \/ Exit
    \/ \E e \in Events : HandlerStep(e)
    \/ FlusherStep
    \/ WriterStep
    \/ HttpShutdown
    \/ ShutdownStop
    \/ ShutdownProgress

Spec == Init /\ [][Next]_vars

(* Every goroutine that can take a step eventually does.  No fairness on    *)
(* the arrival of requests, on signals or on crashes.  For flushLoop this   *)
(* relies on the ticker and on PostgreSQL answering each statement, if only *)
(* with an error; for Shutdown on its timeout; for Start on the restart    *)
(* policy of docker-compose.                                               *)
FairSpec ==
    /\ Spec
    /\ WF_vars(Start)
    /\ WF_vars(Exit)
    /\ \A e \in Events : WF_vars(req[e] # "new" /\ HandlerStep(e))
    /\ WF_vars(FlusherStep)
    /\ WF_vars(WriterStep)
    /\ WF_vars(httpDrained /\ ShutdownStop)
    /\ WF_vars(ShutdownProgress)
-----------------------------------------------------------------------------
(* Safety.                                                                 *)

(* Types and capacities: the three bounded queues (eventCh, writeCh, the    *)
(* dead letter queue) never exceed what Config and persistence.go allow.   *)
TypeOK ==
    /\ db \subseteq Events \ BadEvents
    /\ bolt \subseteq Events
    /\ process \in {"up", "down"}
    /\ lives \in 0..MaxLives
    /\ httpDrained \in BOOLEAN
    /\ shutdown \in Phases
    /\ req \in [Events -> ReqState]
    /\ eventCh \in Seq(Events) /\ Len(eventCh) <= MaxSize
    /\ enqueueMu \in Events \cup {NoEvent}
    /\ currentDepth \in Int
    /\ {totalEnqueued, totalFlushed, totalFailed} \subseteq Nat
    /\ recovered \in 0..MaxSize
    /\ flusher \in {"off", "select", "received", "insert", "items", "finish",
                     "exited"}
    /\ draining \in BOOLEAN
    /\ batch \in Seq(Events)
    /\ pending \subseteq Events
    /\ dlq \in Seq(Events) /\ Len(dlq) <= DeadLetterQueueSize
    /\ dlqSizeBefore \in 0..DeadLetterQueueSize
    /\ evicted \subseteq Events
    /\ writeCh \in Seq(Events) /\ Len(writeCh) <= WriteBufferSize
    /\ writing \in Events \cup {NoEvent}

OneIf(condition) == IF condition THEN 1 ELSE 0

(* The statistics add up: every event counted as enqueued is still in       *)
(* eventCh, in the batch of flushLoop, or counted as flushed or as failed.  *)
(* A send that holds enqueueMu has not been counted yet.                   *)
Accounting ==
    totalEnqueued + OneIf(enqueueMu # NoEvent)
      = Len(eventCh) + Len(batch) + totalFlushed + totalFailed

(* currentDepth, which admits or refuses requests, lags behind eventCh by   *)
(* exactly the send and the receive in progress and by the events recovered *)
(* at start, which are never counted; it may be negative, and exceeds       *)
(* MaxSize by one at most.                                                 *)
DepthMatchesChannel ==
    /\ currentDepth = Len(eventCh) + OneIf(flusher = "received")
                        - OneIf(enqueueMu # NoEvent) - recovered
    /\ currentDepth <= MaxSize + 1

(* An event leaves the write-ahead bucket only when it is stored, unless    *)
(* the dead letter queue of this process has overflowed: flush decides by   *)
(* the growth of the queue, and concurrent item retries, a failed commit    *)
(* and a cancelled context must not mislead it.                            *)
LogDropsOnlyStored ==
    [][\A e \in bolt \ bolt' : e \in db \/ evicted # {}]_vars

(* An event this process answered with 202 is never lost track of: it is    *)
(* queued, in the batch, stored, or was dead-lettered.                     *)
AcceptedTracked ==
    \A e \in Events : req[e] = "accepted" =>
        e \in Range(eventCh) \cup Range(batch) \cup db \cup Range(dlq) \cup evicted

(* What Enqueue has refused is not in the queue: a handler that inserts an  *)
(* event itself never races the flush of the same event, although the event *)
(* was handed to writeLoop before eventCh turned out to be full; and a      *)
(* stopped queue keeps no trace that a restart would bring back.            *)
RefusedNotQueued ==
    \A e \in Events :
        /\ req[e] \in {"stopped", "overflow", "created", "failed"} =>
              e \notin Range(eventCh) \cup Range(batch)
        /\ req[e] = "stopped" =>
              e \notin db \cup bolt \cup Range(writeCh) \cup {writing}

(* The write-ahead log as the queue uses it: EventLog, which Persistence    *)
(* implements.  Calls that Persistence makes atomic are single steps here.  *)
LogPhase ==
    IF shutdown = "returned" THEN "closed"
    ELSE IF shutdown = "closing" THEN "closing" ELSE "open"

Log == INSTANCE EventLog WITH
    bucket <- bolt, requests <- writeCh, putting <- writing, phase <- LogPhase

(* All that handlers, flushLoop, writeLoop, Shutdown, crashes and restarts  *)
(* do to the log is what EventLog allows: Close refuses what it finds       *)
(* buffered and waits for what is being written, so that nothing touches    *)
(* BoltDB once it has returned, not even a flush that outlives the timeout. *)
UsesLog == Log!Spec

(* A shutdown in which neither the HTTP server nor flushLoop timed out      *)
(* leaves nothing queued: no handler is between its check of stopped and    *)
(* its send when the drain loop finds eventCh empty.                       *)
ShutdownDrains ==
    shutdown = "returned" /\ flusher = "exited" /\ httpDrained =>
        eventCh = <<>> /\ batch = <<>>
-----------------------------------------------------------------------------
(* What the repository says of the queue and the code does not do.          *)

(* "ensuring events are not lost on crashes or restarts" (persistence.go): *)
(* the bucket forgets only stored events.  Not so when the dead letter      *)
(* queue is full: it stops growing, and flush takes failures for successes. *)
RemovedOnlyIfStored == [][bolt \ bolt' \subseteq db]_vars

(* "ErrQueueStopped is returned when attempting to enqueue to a stopped     *)
(* queue" (errors.go), so a shutdown whose flushLoop ended leaves nothing   *)
(* queued.  Not so when server.Shutdown has timed out: Enqueue sends long   *)
(* after it has read stopped.                                              *)
ShutdownFlushes ==
    shutdown = "returned" /\ flusher = "exited" => eventCh = <<>> /\ batch = <<>>
-----------------------------------------------------------------------------
(* Liveness.                                                               *)

(* A queued event, new or recovered, is eventually stored or dead-lettered  *)
(* unless the process ends first; the ticker flushes a partial batch.      *)
FlushedEventually ==
    \A e \in Events :
        e \in Range(eventCh)
          ~> e \in db \cup Range(dlq) \cup evicted \/ process = "down"

(* A shutdown always ends the process, whatever flushLoop, the handlers     *)
(* and writeLoop are doing.                                                *)
ShutdownTerminates == httpDrained \/ Stopped ~> process = "down"
=============================================================================
