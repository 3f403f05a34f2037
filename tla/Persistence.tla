---------------------------- MODULE Persistence -----------------------------
(***************************************************************************)
(* The write-ahead log of collider (internal/queue/persistence.go) down to *)
(* its locks: the sync.RWMutex mu, the buffered channel writeCh, the       *)
(* transactions of BoltDB and the goroutines that meet there.  Handlers    *)
(* call EnqueueAsync, writeLoop puts their requests into the bucket,       *)
(* flushLoop calls Remove, the statistics ticker of cmd/api calls Count,   *)
(* and Shutdown calls Close.                                               *)
(***************************************************************************)
EXTENDS Integers, Sequences

CONSTANTS
    Events,          \* one EnqueueAsync call per event
    WriteBufferSize, \* writeBufferSize, the capacity of writeCh
    NoEvent,         \* "no event"
    Loop,            \* the writeLoop goroutine
    Flusher,         \* flushLoop, which calls Remove
    Counter,         \* whoever reads: Count in GetStats, Recover in Start
    Closers,         \* callers of Close
    NoProc           \* nobody: an unlocked mutex

Procs == Events \cup {Loop, Flusher, Counter} \cup Closers

ASSUME PersistenceAssumption ==
    /\ WriteBufferSize \in Nat
    /\ NoEvent \notin Events
    /\ NoProc \notin Procs
    /\ Loop \notin Events \cup Closers
    /\ Flusher \notin Events \cup Closers \cup {Loop}
    /\ Counter \notin Events \cup Closers \cup {Loop, Flusher}
    /\ Events \cap Closers = {}

VARIABLES
    readers,   \* mu: who holds the read lock
    blocked,   \* mu: who waits for it, because of locker
    locker,    \* mu: who has called Lock, and holds it once readers is empty
    pc,        \* where each goroutine is
    closed,    \* p.closed
    writeCh,   \* p.writeCh
    chClosed,  \* close(p.writeCh) has run
    loopReq,   \* the request writeLoop has received
    ids,       \* the argument of Remove
    errCh,     \* what each EnqueueAsync has been answered
    bolt,      \* keys of the bucket pending_events
    tx,        \* who has the read-write transaction of BoltDB
    dbOpen,    \* db.Close has not run
    panicked   \* a send on, or a second close of, the closed writeCh

lockVars  == <<readers, blocked, locker>>
chanVars  == <<writeCh, chClosed, panicked>>
boltVars  == <<bolt, tx, dbOpen>>
vars == <<lockVars, chanVars, boltVars, pc, closed, loopReq, ids, errCh>>

Goto(p, where) == pc' = [pc EXCEPT ![p] = where]
Answer(e, how) == errCh' = [errCh EXCEPT ![e] = how]
-----------------------------------------------------------------------------
(* sync.RWMutex: Lock keeps new readers out while it waits for the others;  *)
(* Unlock lets in the readers that came meanwhile, before another Lock.     *)

RLock(p) ==
    /\ readers' = IF locker = NoProc THEN readers \cup {p} ELSE readers
    /\ blocked' = IF locker = NoProc THEN blocked ELSE blocked \cup {p}
    /\ UNCHANGED locker

RUnlock(p) == readers' = readers \ {p} /\ UNCHANGED <<blocked, locker>>

Lock(p) ==
    /\ locker = NoProc
    /\ locker' = p
    /\ UNCHANGED <<readers, blocked>>

HasLock(p) == locker = p /\ readers = {}

Unlock == locker' = NoProc /\ readers' = blocked /\ blocked' = {}
-----------------------------------------------------------------------------
(* EnqueueAsync: the read lock is held over the check of closed and the     *)
(* non-blocking send.                                                      *)

EnqueueRLock(e) ==
    /\ pc[e] = "idle"
    /\ RLock(e)
    /\ Goto(e, "entering")
    /\ UNCHANGED <<chanVars, boltVars, closed, loopReq, ids, errCh>>

EnqueueCheckUnlocked(e) ==
    /\ pc[e] = "entering"
    /\ e \in readers
    /\ IF closed THEN Answer(e, "closed") /\ Goto(e, "returned")
                 ELSE UNCHANGED errCh /\ Goto(e, "sending")
    /\ RUnlock(e)
    /\ UNCHANGED <<chanVars, boltVars, closed, loopReq, ids>>

EnqueueCheck(e) ==
    /\ pc[e] = "entering"
    /\ e \in readers
    /\ IF closed
       THEN Answer(e, "closed") /\ Goto(e, "returned") /\ RUnlock(e)
       ELSE UNCHANGED <<errCh, lockVars>> /\ Goto(e, "sending")
    /\ UNCHANGED <<chanVars, boltVars, closed, loopReq, ids>>

HasRoomForOneMore == Len(writeCh) <= WriteBufferSize
HasRoom == Len(writeCh) < WriteBufferSize

EnqueueSend(e) ==
    /\ pc[e] = "sending"
    /\ panicked' = (panicked \/ chClosed)
    /\ IF ~chClosed /\ HasRoom
       THEN writeCh' = Append(writeCh, e) /\ UNCHANGED errCh
       ELSE Answer(e, "full") /\ UNCHANGED writeCh
    /\ RUnlock(e)
    /\ Goto(e, "returned")
    /\ UNCHANGED <<boltVars, chClosed, closed, loopReq, ids>>
-----------------------------------------------------------------------------
(* writeLoop.                                                              *)

LoopReceive ==
    /\ pc[Loop] = "idle"
    /\ writeCh # <<>>
    /\ loopReq' = Head(writeCh)
    /\ writeCh' = Tail(writeCh)
    /\ RLock(Loop)
    /\ Goto(Loop, "entering")
    /\ UNCHANGED <<boltVars, chClosed, panicked, closed, ids, errCh>>

(* range ends when the channel is closed and empty; then wg.Done.           *)
LoopExit ==
    /\ pc[Loop] = "idle"
    /\ writeCh = <<>>
    /\ chClosed
    /\ Goto(Loop, "returned")
    /\ UNCHANGED <<lockVars, chanVars, boltVars, closed, loopReq, ids, errCh>>

(* A closed log refuses the requests that are still buffered.               *)
LoopCheckSilent ==
    /\ pc[Loop] = "entering"
    /\ Loop \in readers
    /\ RUnlock(Loop)
    /\ IF closed
       THEN loopReq' = NoEvent /\ Goto(Loop, "idle")
       ELSE UNCHANGED loopReq /\ Goto(Loop, "begin")
    /\ UNCHANGED <<chanVars, boltVars, closed, ids, errCh>>

LoopCheck ==
    /\ pc[Loop] = "entering"
    /\ Loop \in readers
    /\ RUnlock(Loop)
    /\ IF closed
       THEN /\ Answer(loopReq, "closed")
            /\ loopReq' = NoEvent
            /\ Goto(Loop, "idle")
       ELSE UNCHANGED <<errCh, loopReq>> /\ Goto(Loop, "begin")
    /\ UNCHANGED <<chanVars, boltVars, closed, ids>>

(* db.Update without the lock: one transaction at a time.                   *)
LoopBegin ==
    /\ pc[Loop] = "begin"
    /\ tx = NoProc
    /\ tx' = Loop
    /\ Goto(Loop, "tx")
    /\ UNCHANGED <<lockVars, chanVars, bolt, dbOpen, closed, loopReq, ids,
                   errCh>>

LoopCommit ==
    /\ pc[Loop] = "tx"
    /\ \/ dbOpen /\ bolt' = bolt \cup {loopReq} /\ Answer(loopReq, "ok")
       \/ bolt' = bolt /\ Answer(loopReq, "failed")
    /\ tx' = NoProc
    /\ loopReq' = NoEvent
    /\ Goto(Loop, "idle")
    /\ UNCHANGED <<lockVars, chanVars, dbOpen, closed, ids>>
-----------------------------------------------------------------------------
(* Remove: the write lock is held over the whole transaction.               *)

RemoveLock(S) ==
    /\ pc[Flusher] = "idle"
    /\ Lock(Flusher)
    /\ ids' = S
    /\ Goto(Flusher, "entering")
    /\ UNCHANGED <<chanVars, boltVars, closed, loopReq, errCh>>

RemoveCheckOnlyIds ==
    /\ pc[Flusher] = "entering"
    /\ HasLock(Flusher)
    /\ IF ids = {}
       THEN Unlock /\ Goto(Flusher, "idle")
       ELSE UNCHANGED lockVars /\ Goto(Flusher, "begin")
    /\ UNCHANGED <<chanVars, boltVars, closed, loopReq, ids, errCh>>

RemoveCheck ==
    /\ pc[Flusher] = "entering"
    /\ HasLock(Flusher)
    /\ IF closed \/ ids = {}
       THEN Unlock /\ ids' = {} /\ Goto(Flusher, "idle")
       ELSE UNCHANGED <<lockVars, ids>> /\ Goto(Flusher, "begin")
    /\ UNCHANGED <<chanVars, boltVars, closed, loopReq, errCh>>

RemoveBegin ==
    /\ pc[Flusher] = "begin"
    /\ tx = NoProc
    /\ tx' = Flusher
    /\ Goto(Flusher, "tx")
    /\ UNCHANGED <<lockVars, chanVars, bolt, dbOpen, closed, loopReq, ids,
                   errCh>>

RemoveCommit ==
    /\ pc[Flusher] = "tx"
    /\ \/ dbOpen /\ bolt' = bolt \ ids
       \/ bolt' = bolt
    /\ tx' = NoProc
    /\ Unlock
    /\ ids' = {}
    /\ Goto(Flusher, "idle")
    /\ UNCHANGED <<chanVars, dbOpen, closed, loopReq, errCh>>
-----------------------------------------------------------------------------
(* Count and Recover: a read-only transaction under the read lock.          *)

ViewRLock ==
    /\ pc[Counter] = "idle"
    /\ RLock(Counter)
    /\ Goto(Counter, "entering")
    /\ UNCHANGED <<chanVars, boltVars, closed, loopReq, ids, errCh>>

ViewCheck ==
    /\ pc[Counter] = "entering"
    /\ Counter \in readers
    /\ IF closed THEN RUnlock(Counter) /\ Goto(Counter, "idle")
                 ELSE UNCHANGED lockVars /\ Goto(Counter, "tx")
    /\ UNCHANGED <<chanVars, boltVars, closed, loopReq, ids, errCh>>

ViewEnd ==
    /\ pc[Counter] = "tx"
    /\ RUnlock(Counter)
    /\ Goto(Counter, "idle")
    /\ UNCHANGED <<chanVars, boltVars, closed, loopReq, ids, errCh>>
-----------------------------------------------------------------------------
(* Close.                                                                  *)

CloseCall(c) ==
    /\ pc[c] = "idle"
    /\ Goto(c, "calling")
    /\ UNCHANGED <<lockVars, chanVars, boltVars, closed, loopReq, ids, errCh>>

CloseLock(c) ==
    /\ pc[c] = "calling"
    /\ Lock(c)
    /\ Goto(c, "entering")
    /\ UNCHANGED <<chanVars, boltVars, closed, loopReq, ids, errCh>>

CloseCheckKeepsLock(c) ==
    /\ pc[c] = "entering"
    /\ HasLock(c)
    /\ closed' = TRUE
    /\ Goto(c, IF closed THEN "returned" ELSE "closing")
    /\ UNCHANGED <<lockVars, chanVars, boltVars, loopReq, ids, errCh>>

CloseCheck(c) ==
    /\ pc[c] = "entering"
    /\ HasLock(c)
    /\ closed' = TRUE
    /\ Goto(c, IF closed THEN "returned" ELSE "closing")
    /\ Unlock
    /\ UNCHANGED <<chanVars, boltVars, loopReq, ids, errCh>>

CloseChannel(c) ==
    /\ pc[c] = "closing"
    /\ panicked' = (panicked \/ chClosed)
    /\ chClosed' = TRUE
    /\ Goto(c, "waiting")
    /\ UNCHANGED <<lockVars, boltVars, writeCh, closed, loopReq, ids, errCh>>

(* wg.Wait, then db.Close, which waits for the transactions of BoltDB.      *)
LoopGoneUnchecked == TRUE
LoopGone == pc[Loop] = "returned"

CloseDB(c) ==
    /\ pc[c] = "waiting"
    /\ LoopGone
    /\ tx = NoProc
    /\ pc[Counter] # "tx"
    /\ dbOpen' = FALSE
    /\ Goto(c, "returned")
    /\ UNCHANGED <<lockVars, chanVars, bolt, tx, closed, loopReq, ids, errCh>>
-----------------------------------------------------------------------------
Init ==
    /\ readers = {}
    /\ blocked = {}
    /\ locker = NoProc
    /\ pc = [p \in Procs |-> "idle"]
    /\ closed = FALSE
    /\ writeCh = <<>>
    /\ chClosed = FALSE
    /\ loopReq = NoEvent
    /\ ids = {}
    /\ errCh = [e \in Events |-> "none"]
    /\ bolt = {}
    /\ tx = NoProc
    /\ dbOpen = TRUE
    /\ panicked = FALSE

Enqueue(e) == EnqueueRLock(e) \/ EnqueueCheck(e) \/ EnqueueSend(e)
WriteLoop == LoopReceive \/ LoopExit \/ LoopCheck \/ LoopBegin \/ LoopCommit
RemoveStep == RemoveCheck \/ RemoveBegin \/ RemoveCommit
ViewStep == ViewCheck \/ ViewEnd
CloseStep(c) == CloseLock(c) \/ CloseCheck(c) \/ CloseChannel(c) \/ CloseDB(c)

Next ==
    \/ \E e \in Events : Enqueue(e)
    \/ WriteLoop
    \/ \E S \in SUBSET Events : RemoveLock(S)
    \/ RemoveStep
    \/ ViewRLock
    \/ ViewStep
    \/ \E c \in Closers : CloseCall(c) \/ CloseStep(c)

Spec == Init /\ [][Next]_vars

(* Calls that have begun go on.  sync.Mutex hands itself to a waiter that   *)
(* has waited for a millisecond, so repeated calls of Remove starve neither *)
(* writeLoop (the mutex of BoltDB's transactions) nor Close (mu).           *)
FairSpec ==
    /\ Spec
    /\ \A e \in Events : WF_vars(pc[e] # "idle" /\ Enqueue(e))
    /\ WF_vars(WriteLoop)
    /\ SF_vars(LoopBegin)
    /\ WF_vars(RemoveStep)
    /\ SF_vars(RemoveBegin)
    /\ WF_vars(ViewStep)
    /\ \A c \in Closers : WF_vars(CloseStep(c)) /\ SF_vars(CloseLock(c))
-----------------------------------------------------------------------------
(* Types and the capacity of writeCh, which EnqueueAsync never exceeds or   *)
(* waits for.                                                              *)
TypeOK ==
    /\ readers \subseteq Procs
    /\ blocked \subseteq Procs
    /\ locker \in Procs \cup {NoProc}
    /\ pc \in [Procs -> {"idle", "calling", "entering", "sending", "begin",
                         "tx", "closing", "waiting", "returned"}]
    /\ closed \in BOOLEAN
    /\ writeCh \in Seq(Events) /\ Len(writeCh) <= WriteBufferSize
    /\ chClosed \in BOOLEAN
    /\ loopReq \in Events \cup {NoEvent}
    /\ ids \subseteq Events
    /\ errCh \in [Events -> {"none", "ok", "failed", "full", "closed"}]
    /\ bolt \subseteq Events
    /\ tx \in {Loop, Flusher, NoProc}
    /\ dbOpen \in BOOLEAN
    /\ panicked \in BOOLEAN

(* No handler sends on writeCh after Close has closed it, and a second      *)
(* Close does not close it again: either would panic the process.           *)
NoPanic == ~panicked

(* Nobody who has found the log open comes to a closed BoltDB: writeLoop,   *)
(* which gives the lock back before its transaction, is protected by        *)
(* wg.Wait only.                                                           *)
NoUseAfterClose ==
    \A p \in Procs : pc[p] \in {"begin", "tx"} => dbOpen

(* When BoltDB is closed every request has been answered, those that Close  *)
(* found in the buffer included: no caller of Enqueue waits for ever.       *)
CloseSettles ==
    ~dbOpen => \A e \in Events : pc[e] = "returned" => errCh[e] # "none"

(* How EventLog sees the log: a request is looked at when writeLoop checks  *)
(* closed, and the log is closing as soon as closed is set.                *)
LogRequests == IF pc[Loop] = "entering" THEN <<loopReq>> \o writeCh ELSE writeCh
LogPutting  == IF pc[Loop] \in {"begin", "tx"} THEN loopReq ELSE NoEvent
LogPhase    == IF ~closed THEN "open" ELSE IF dbOpen THEN "closing" ELSE "closed"

Log == INSTANCE EventLog WITH
    bucket <- bolt, requests <- LogRequests, putting <- LogPutting,
    phase <- LogPhase

(* Persistence implements EventLog: behind its locks, calls are atomic.     *)
ImplementsLog == Log!Spec

(* Every request is answered, whatever Remove, Count and Close do.          *)
Answered == \A e \in Events : pc[e] = "entering" ~> errCh[e] # "none"

(* Close returns, although Remove and Count go on being called.             *)
CloseReturns == \A c \in Closers : pc[c] = "calling" ~> pc[c] = "returned"
=============================================================================
