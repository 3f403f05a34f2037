------------------------- MODULE PersistenceProofs --------------------------
(***************************************************************************)
(* The safety of the write-ahead log, proved for any number of callers and *)
(* any capacity of writeCh: the locks of Persistence make its calls the    *)
(* single steps of EventLog, and nothing is used after Close.              *)
(***************************************************************************)
EXTENDS Persistence, SequenceLemmas
-----------------------------------------------------------------------------
(* Types, with the places each goroutine can be at.                         *)

Places ==
    /\ \A e \in Events : pc[e] \in {"idle", "entering", "sending", "returned"}
    /\ pc[Loop] \in {"idle", "entering", "begin", "tx", "returned"}
    /\ pc[Flusher] \in {"idle", "entering", "begin", "tx"}
    /\ pc[Counter] \in {"idle", "entering", "tx"}
    /\ \A c \in Closers : pc[c] \in {"idle", "calling", "entering", "closing",
                                     "waiting", "returned"}
    /\ loopReq \in Events <=> pc[Loop] \in {"entering", "begin", "tx"}

TypeInv == TypeOK /\ Places

(* A log that has just been opened.                                        *)
LEMMA TypeInvInit == Init => TypeInv
<1> SUFFICES ASSUME Init PROVE TypeInv
  OBVIOUS
<1>1. writeCh \in Seq(Events) /\ Len(writeCh) <= WriteBufferSize
  BY EmptySeq, PersistenceAssumption DEF Init
<1>2. /\ closed \in BOOLEAN /\ chClosed \in BOOLEAN
      /\ dbOpen \in BOOLEAN /\ panicked \in BOOLEAN
  BY DEF Init
<1> QED  BY <1>1, <1>2, PersistenceAssumption DEF Init, TypeInv, TypeOK, Places, Procs

(* No call of EnqueueAsync, Remove, Count or Close and no step of writeLoop *)
(* leaves the types, in particular the capacity of writeCh.                 *)
LEMMA TypeInvNext == TypeInv /\ [Next]_vars => TypeInv'
<1> SUFFICES ASSUME TypeInv, [Next]_vars PROVE TypeInv'
  OBVIOUS
<1> USE PersistenceAssumption DEF lockVars, chanVars, boltVars, Goto, Answer, Procs
<1>0. TypeOK /\ Places /\ Len(writeCh) \in Nat
  BY LenProperties DEF TypeInv, TypeOK
<1>1. CASE UNCHANGED vars
  BY <1>0, <1>1 DEF vars, TypeInv, TypeOK, Places
<1>2. ASSUME NEW e \in Events, Enqueue(e) PROVE TypeInv'
  <2>1. CASE EnqueueRLock(e)
    BY <1>0, <2>1 DEF EnqueueRLock, RLock, TypeInv, TypeOK, Places
  <2>2. CASE EnqueueCheck(e)
    BY <1>0, <2>2 DEF EnqueueCheck, RUnlock, TypeInv, TypeOK, Places
  <2>3. CASE EnqueueSend(e)
    <3>1. Append(writeCh, e) \in Seq(Events) /\ Len(Append(writeCh, e)) = Len(writeCh) + 1
      BY <1>0, AppendProperties DEF TypeOK
    <3>2. writeCh' \in Seq(Events) /\ Len(writeCh') <= WriteBufferSize
      <4>1. \/ writeCh' = writeCh
            \/ writeCh' = Append(writeCh, e) /\ Len(writeCh) < WriteBufferSize
        BY <2>3 DEF EnqueueSend, HasRoom
      <4> QED  BY <1>0, <3>1, <4>1 DEF TypeOK
    <3>3. panicked' \in BOOLEAN
      BY <1>0, <2>3 DEF EnqueueSend, TypeOK
    <3>4. errCh' \in [Events -> {"none", "ok", "failed", "full", "closed"}]
      BY <1>0, <2>3 DEF EnqueueSend, TypeOK
    <3> QED  BY <1>0, <2>3, <3>2, <3>3, <3>4 DEF EnqueueSend, RUnlock, TypeInv, TypeOK, Places
  <2> QED  BY <1>2, <2>1, <2>2, <2>3 DEF Enqueue
<1>3. CASE WriteLoop
  <2>1. CASE LoopReceive
    <3>1. /\ Head(writeCh) \in Events /\ Tail(writeCh) \in Seq(Events)
          /\ Len(Tail(writeCh)) = Len(writeCh) - 1
      BY <1>0, <2>1, HeadTailProperties DEF LoopReceive, TypeOK
    <3> QED  BY <1>0, <2>1, <3>1 DEF LoopReceive, RLock, TypeInv, TypeOK, Places
  <2>2. CASE LoopExit
    BY <1>0, <2>2 DEF LoopExit, TypeInv, TypeOK, Places
  <2>3. CASE LoopCheck
    BY <1>0, <2>3 DEF LoopCheck, RUnlock, TypeInv, TypeOK, Places
  <2>4. CASE LoopBegin
    BY <1>0, <2>4 DEF LoopBegin, TypeInv, TypeOK, Places
  <2>5. CASE LoopCommit
    BY <1>0, <2>5 DEF LoopCommit, TypeInv, TypeOK, Places
  <2> QED  BY <1>3, <2>1, <2>2, <2>3, <2>4, <2>5 DEF WriteLoop
<1>4. ASSUME NEW S \in SUBSET Events, RemoveLock(S) PROVE TypeInv'
  BY <1>0, <1>4 DEF RemoveLock, Lock, TypeInv, TypeOK, Places
<1>5. CASE RemoveStep
  BY <1>0, <1>5 DEF RemoveStep, RemoveCheck, RemoveBegin, RemoveCommit, Unlock,
     TypeInv, TypeOK, Places
<1>6. CASE ViewRLock \/ ViewStep
  BY <1>0, <1>6 DEF ViewRLock, ViewStep, ViewCheck, ViewEnd, RLock, RUnlock,
     TypeInv, TypeOK, Places
<1>7. ASSUME NEW c \in Closers, CloseCall(c) \/ CloseStep(c) PROVE TypeInv'
  <2>1. closed' \in BOOLEAN /\ chClosed' \in BOOLEAN /\ dbOpen' \in BOOLEAN /\ panicked' \in BOOLEAN
    BY <1>0, <1>7 DEF CloseCall, CloseStep, CloseLock, CloseCheck, CloseChannel,
       CloseDB, TypeOK
  <2> QED  BY <1>0, <1>7, <2>1 DEF CloseCall, CloseStep, CloseLock, CloseCheck,
       CloseChannel, CloseDB, Lock, Unlock, TypeInv, TypeOK, Places
<1> QED  BY <1>1, <1>2, <1>3, <1>4, <1>5, <1>6, <1>7 DEF Next

(* In every reachable state the types hold and each goroutine is at a place *)
(* of its own code.                                                        *)
THEOREM TypeInvariant == Spec => []TypeInv
BY TypeInvInit, TypeInvNext, PTL DEF Spec

(* writeCh never exceeds its capacity.                                      *)
THEOREM TypeCorrect == Spec => []TypeOK
<1>1. TypeInv => TypeOK
  BY DEF TypeInv
<1> QED  BY <1>1, TypeInvariant, PTL
-----------------------------------------------------------------------------
(* The lock.  Who has found the log open and has not given the lock back    *)
(* keeps closed FALSE: EnqueueAsync before its send, Count in its           *)
(* transaction, Remove in its own.  Close is past closed only once.         *)

LockInv ==
    /\ \A e \in Events : pc[e] = "sending" => e \in readers /\ ~closed
    /\ pc[Counter] = "tx" => Counter \in readers /\ ~closed
    /\ pc[Flusher] \in {"begin", "tx"} => readers = {} /\ ~closed
    /\ pc[Flusher] # "idle" <=> locker = Flusher
    /\ \A c \in Closers : pc[c] = "entering" <=> locker = c

CloseInv ==
    /\ chClosed => closed
    /\ ~dbOpen => closed /\ pc[Loop] = "returned"
    /\ pc[Loop] = "returned" => chClosed /\ writeCh = <<>>
    /\ \A c \in Closers :
        /\ pc[c] = "closing" => closed /\ ~chClosed
        /\ pc[c] = "waiting" => closed /\ chClosed
        /\ \A d \in Closers : {pc[c], pc[d]} \subseteq {"closing", "waiting"} => c = d
    /\ ~panicked

(* An event whose call has returned unanswered is buffered or with writeLoop. *)
RequestInv ==
    \A e \in Events : pc[e] = "returned" /\ errCh[e] = "none" =>
        e = loopReq \/ e \in Range(writeCh)

Inv == LockInv /\ CloseInv /\ RequestInv

(* Nobody holds the lock and nothing is closed.                             *)
LEMMA InvInit == Init => Inv
BY PersistenceAssumption DEF Init, Inv, LockInv, CloseInv, RequestInv, Procs

(* closed changes only under the write lock, when no reader is inside, and  *)
(* what depends on it (the channel, BoltDB) follows it in this order.       *)
LEMMA InvNext == TypeInv /\ Inv /\ [Next]_vars => Inv'
<1> SUFFICES ASSUME TypeInv, Inv, [Next]_vars PROVE Inv'
  OBVIOUS
<1> USE PersistenceAssumption DEF lockVars, chanVars, boltVars, Goto, Answer, Procs
<1>0. TypeOK /\ Places /\ LockInv /\ CloseInv /\ RequestInv
  BY DEF TypeInv, Inv
<1>1. CASE UNCHANGED vars
  BY <1>0, <1>1 DEF vars, Inv, LockInv, CloseInv, RequestInv
<1>2. ASSUME NEW e \in Events, Enqueue(e) PROVE Inv'
  <2>1. CASE EnqueueRLock(e)
    BY <1>0, <2>1 DEF EnqueueRLock, RLock, TypeOK, Inv, LockInv, CloseInv, RequestInv
  <2>2. CASE EnqueueCheck(e)
    BY <1>0, <2>2 DEF EnqueueCheck, RUnlock, TypeOK, Inv, LockInv, CloseInv, RequestInv
  <2>3. CASE EnqueueSend(e)
    <3>1. ~chClosed /\ pc[Loop] # "returned"
      BY <1>0, <2>3 DEF EnqueueSend, LockInv, CloseInv
    <3>2. LockInv' /\ CloseInv'
      BY <1>0, <2>3, <3>1 DEF EnqueueSend, RUnlock, TypeOK, LockInv, CloseInv
    <3>3. Range(Append(writeCh, e)) = Range(writeCh) \cup {e}
      BY <1>0, RangeAppend DEF TypeOK
    <3>4. RequestInv'
      BY <1>0, <2>3, <3>1, <3>3 DEF EnqueueSend, TypeOK, RequestInv
    <3> QED  BY <3>2, <3>4 DEF Inv
  <2> QED  BY <1>2, <2>1, <2>2, <2>3 DEF Enqueue
<1>3. CASE WriteLoop
  <2>0. LockInv'
    BY <1>0, <1>3 DEF WriteLoop, LoopReceive, LoopExit, LoopCheck, LoopBegin,
       LoopCommit, RLock, RUnlock, TypeOK, LockInv
  <2>1. CloseInv'
    BY <1>0, <1>3 DEF WriteLoop, LoopReceive, LoopExit, LoopCheck, LoopBegin,
       LoopCommit, TypeOK, CloseInv
  <2>2. RequestInv'
    <3>1. CASE LoopReceive
      <4>1. Range(writeCh) = {Head(writeCh)} \cup Range(Tail(writeCh))
        BY <1>0, <3>1, RangeHeadTail DEF LoopReceive, TypeOK
      <4>2. loopReq \notin Events
        BY <1>0, <3>1 DEF LoopReceive, Places
      <4> QED  BY <1>0, <3>1, <4>1, <4>2 DEF LoopReceive, TypeOK, RequestInv
    <3>2. CASE LoopExit \/ LoopBegin
      BY <1>0, <3>2 DEF LoopExit, LoopBegin, TypeOK, RequestInv
    <3>3. CASE LoopCheck \/ LoopCommit
      <4>1. loopReq \in Events
        BY <1>0, <3>3 DEF LoopCheck, LoopCommit, Places
      <4> QED  BY <1>0, <3>3, <4>1 DEF LoopCheck, LoopCommit, TypeOK, RequestInv
    <3> QED  BY <1>3, <3>1, <3>2, <3>3 DEF WriteLoop
  <2> QED  BY <2>0, <2>1, <2>2 DEF Inv
<1>4. ASSUME NEW S \in SUBSET Events, RemoveLock(S) PROVE Inv'
  BY <1>0, <1>4 DEF RemoveLock, Lock, TypeOK, Places, Inv, LockInv, CloseInv, RequestInv
<1>5. CASE RemoveStep
  <2>1. locker = Flusher
    BY <1>0, <1>5 DEF RemoveStep, RemoveCheck, RemoveBegin, RemoveCommit, LockInv
  <2>2. CASE RemoveCheck
    BY <1>0, <2>1, <2>2 DEF RemoveCheck, HasLock, Unlock, TypeOK,
       Places, Inv, LockInv, CloseInv, RequestInv
  <2>3. CASE RemoveBegin
    BY <1>0, <2>1, <2>3 DEF RemoveBegin, TypeOK, Inv, LockInv, CloseInv, RequestInv
  <2>4. CASE RemoveCommit
    BY <1>0, <2>1, <2>4 DEF RemoveCommit, Unlock, TypeOK, Places, Inv, LockInv,
       CloseInv, RequestInv
  <2> QED  BY <1>5, <2>2, <2>3, <2>4 DEF RemoveStep
<1>6. CASE ViewRLock \/ ViewStep
  BY <1>0, <1>6 DEF ViewRLock, ViewStep, ViewCheck, ViewEnd, RLock, RUnlock,
     TypeOK, Inv, LockInv, CloseInv, RequestInv
<1>7. ASSUME NEW c \in Closers, CloseCall(c) \/ CloseStep(c) PROVE Inv'
  <2>0. RequestInv'
    BY <1>0, <1>7 DEF CloseCall, CloseStep, CloseLock, CloseCheck, CloseChannel,
       CloseDB, TypeOK, RequestInv
  <2>1. CASE CloseCall(c) \/ CloseLock(c)
    BY <1>0, <2>0, <2>1 DEF CloseCall, CloseLock, Lock, TypeOK, Inv, LockInv, CloseInv
  <2>2. CASE CloseCheck(c)
    <3>1. locker = c /\ readers = {} /\ pc[Flusher] = "idle"
      BY <1>0, <2>2 DEF CloseCheck, HasLock, LockInv
    <3>2. LockInv'
      BY <1>0, <2>2, <3>1 DEF CloseCheck, Unlock, TypeOK, LockInv
    <3>3. CloseInv'
      BY <1>0, <2>2 DEF CloseCheck, TypeOK, CloseInv
    <3> QED  BY <2>0, <3>2, <3>3 DEF Inv
  <2>3. CASE CloseChannel(c) \/ CloseDB(c)
    BY <1>0, <2>0, <2>3 DEF CloseChannel, CloseDB, LoopGone, TypeOK, Inv, LockInv, CloseInv
  <2> QED  BY <1>7, <2>1, <2>2, <2>3 DEF CloseStep
<1> QED  BY <1>1, <1>2, <1>3, <1>4, <1>5, <1>6, <1>7 DEF Next

(* In every reachable state the lock protects closed, and no request is     *)
(* lost.                                                                   *)
THEOREM Invariant == Spec => []Inv
BY InvInit, InvNext, TypeInvariant, PTL DEF Spec

(* No send meets the closed channel, and it is closed once.                 *)
THEOREM NeverPanics == Spec => []NoPanic
<1>1. Inv => NoPanic
  BY DEF Inv, CloseInv, NoPanic
<1> QED  BY <1>1, Invariant, PTL

(* Neither writeLoop nor Remove nor Count comes to a closed BoltDB.         *)
THEOREM NeverUsedAfterClose == Spec => []NoUseAfterClose
<1>1. TypeInv /\ Inv => NoUseAfterClose
  <2> SUFFICES ASSUME TypeInv, Inv, NEW p \in Procs, pc[p] \in {"begin", "tx"}
               PROVE  dbOpen
    BY DEF NoUseAfterClose
  <2>1. p \in {Loop, Flusher, Counter}
    BY DEF Procs, TypeInv, Places
  <2> QED  BY <2>1 DEF TypeInv, Places, Inv, LockInv, CloseInv
<1> QED  BY <1>1, Invariant, TypeInvariant, PTL

(* When BoltDB is closed every call of EnqueueAsync has its answer.         *)
THEOREM CloseLeavesNoRequest == Spec => []CloseSettles
<1>1. TypeInv /\ Inv => CloseSettles
  <2> SUFFICES ASSUME TypeInv, Inv, ~dbOpen, NEW e \in Events, pc[e] = "returned"
               PROVE  errCh[e] # "none"
    BY DEF CloseSettles
  <2>1. writeCh = <<>> /\ loopReq \notin Events
    BY DEF TypeInv, Places, Inv, CloseInv
  <2>2. Range(<<>>) = {}
    BY DEF Range
  <2> QED  BY <2>1, <2>2 DEF Inv, RequestInv
<1> QED  BY <1>1, Invariant, TypeInvariant, PTL
-----------------------------------------------------------------------------
(* Refinement.                                                             *)

(* Every step is a step of EventLog or leaves it alone: a request is taken  *)
(* where writeLoop checks closed, a removal happens where its transaction   *)
(* commits, and the log is closed where BoltDB is.                         *)
LEMMA LogStep == TypeInv /\ Inv /\ [Next]_vars => [Log!Next]_Log!vars
<1> SUFFICES ASSUME TypeInv, Inv, [Next]_vars PROVE [Log!Next]_Log!vars
  OBVIOUS
<1> USE PersistenceAssumption
    DEF lockVars, chanVars, boltVars, Goto, Answer, Procs, Log!vars
<1>0. TypeOK /\ Places /\ LockInv /\ CloseInv
  BY DEF TypeInv, Inv
<1>1. CASE UNCHANGED vars
  BY <1>1 DEF vars, LogRequests, LogPutting, LogPhase
<1>2. ASSUME NEW e \in Events, Enqueue(e) PROVE [Log!Next]_Log!vars
  <2>0. UNCHANGED <<pc[Loop], loopReq, closed, dbOpen, bolt>>
    BY <1>0, <1>2 DEF Enqueue, EnqueueRLock, EnqueueCheck, EnqueueSend, TypeOK
  <2>1. CASE UNCHANGED writeCh
    BY <2>0, <2>1 DEF LogRequests, LogPutting, LogPhase
  <2>2. CASE EnqueueSend(e) /\ writeCh' = Append(writeCh, e)
    <3>1. LogPhase = "open" /\ UNCHANGED <<LogPhase, LogPutting>>
      BY <1>0, <2>0, <2>2 DEF EnqueueSend, LockInv, LogPhase, LogPutting
    <3>2. LogRequests' = Append(LogRequests, e)
      <4>1. CASE pc[Loop] = "entering"
        <5>1. loopReq \in Events
          BY <1>0, <4>1 DEF Places
        <5>2. <<loopReq>> \o Append(writeCh, e) = Append(<<loopReq>> \o writeCh, e)
          BY <1>0, <5>1, ConsAppend DEF TypeOK
        <5> QED  BY <2>0, <2>2, <4>1, <5>2 DEF LogRequests
      <4>2. CASE pc[Loop] # "entering"
        BY <2>0, <2>2, <4>2 DEF LogRequests
      <4> QED  BY <4>1, <4>2
    <3>3. Log!Request(e)
      BY <2>0, <3>1, <3>2 DEF Log!Request
    <3> QED  BY <3>3 DEF Log!Next
  <2> QED  BY <1>2, <2>1, <2>2 DEF Enqueue, EnqueueRLock, EnqueueCheck, EnqueueSend
<1>3. CASE LoopReceive
  <2>1. <<Head(writeCh)>> \o Tail(writeCh) = writeCh
    BY <1>0, <1>3, ConsHeadTail DEF LoopReceive, TypeOK
  <2>2. LogRequests' = LogRequests
    BY <1>0, <1>3, <2>1 DEF LoopReceive, TypeOK, LogRequests
  <2> QED  BY <1>0, <1>3, <2>2 DEF LoopReceive, TypeOK, LogPutting, LogPhase
<1>4. CASE LoopExit \/ LoopBegin
  BY <1>0, <1>4 DEF LoopExit, LoopBegin, TypeOK, LogRequests, LogPutting, LogPhase
<1>5. CASE LoopCheck
  <2>1. /\ loopReq \in Events
        /\ <<loopReq>> \o writeCh # <<>>
        /\ Head(<<loopReq>> \o writeCh) = loopReq
        /\ Tail(<<loopReq>> \o writeCh) = writeCh
    BY <1>0, <1>5, HeadTailCons DEF LoopCheck, TypeOK, Places
  <2>2. LogRequests = <<loopReq>> \o writeCh /\ LogRequests' = writeCh
    BY <1>0, <1>5 DEF LoopCheck, TypeOK, LogRequests
  <2>3. /\ LogPutting = NoEvent
        /\ LogPutting' = IF LogPhase = "open" THEN loopReq ELSE NoEvent
        /\ UNCHANGED <<bolt, LogPhase>>
    BY <1>0, <1>5 DEF LoopCheck, TypeOK, LogPutting, LogPhase
  <2>4. Log!Take
    BY <2>1, <2>2, <2>3 DEF Log!Take
  <2> QED  BY <2>4 DEF Log!Next
<1>6. CASE LoopCommit
  <2>1. /\ LogPutting = loopReq /\ loopReq # NoEvent /\ LogPutting' = NoEvent
        /\ bolt' \in {bolt, bolt \cup {loopReq}}
        /\ UNCHANGED <<LogRequests, LogPhase>>
    BY <1>0, <1>6 DEF LoopCommit, TypeOK, Places, LogRequests, LogPutting, LogPhase
  <2>2. Log!Put
    BY <2>1 DEF Log!Put
  <2> QED  BY <2>2 DEF Log!Next
<1>7. ASSUME NEW S \in SUBSET Events, RemoveLock(S) PROVE [Log!Next]_Log!vars
  BY <1>0, <1>7 DEF RemoveLock, TypeOK, LogRequests, LogPutting, LogPhase
<1>8. CASE RemoveStep
  <2>0. UNCHANGED <<LogRequests, LogPutting, LogPhase>>
    BY <1>0, <1>8 DEF RemoveStep, RemoveCheck, RemoveBegin, RemoveCommit,
       TypeOK, LogRequests, LogPutting, LogPhase
  <2>1. CASE UNCHANGED bolt
    BY <2>0, <2>1
  <2>2. CASE RemoveCommit /\ bolt' = bolt \ ids
    <3>1. LogPhase = "open" /\ ids \in SUBSET Events
      BY <1>0, <2>2 DEF RemoveCommit, LockInv, LogPhase, TypeOK
    <3>2. Log!Remove(ids)
      BY <2>0, <2>2, <3>1 DEF Log!Remove
    <3> QED  BY <3>1, <3>2 DEF Log!Next
  <2> QED  BY <1>8, <2>1, <2>2 DEF RemoveStep, RemoveCheck, RemoveBegin, RemoveCommit
<1>9. CASE ViewRLock \/ ViewStep
  BY <1>0, <1>9 DEF ViewRLock, ViewStep, ViewCheck, ViewEnd, TypeOK,
     LogRequests, LogPutting, LogPhase
<1>10. ASSUME NEW c \in Closers, CloseCall(c) \/ CloseStep(c) PROVE [Log!Next]_Log!vars
  <2>0. UNCHANGED <<LogRequests, LogPutting, bolt>>
    BY <1>0, <1>10 DEF CloseCall, CloseStep, CloseLock, CloseCheck, CloseChannel,
       CloseDB, TypeOK, LogRequests, LogPutting
  <2>1. CASE UNCHANGED LogPhase
    BY <2>0, <2>1
  <2>2. CASE CloseCheck(c) /\ ~closed
    <3>1. Log!Close
      BY <1>0, <2>0, <2>2 DEF CloseCheck, CloseInv, LogPhase, Log!Close
    <3> QED  BY <3>1 DEF Log!Next
  <2>3. CASE CloseDB(c) /\ dbOpen
    <3>1. LogPhase = "closing" /\ LogPhase' = "closed"
      BY <1>0, <2>3 DEF CloseDB, CloseInv, LogPhase
    <3>2. LogRequests = <<>> /\ LogPutting = NoEvent
      BY <1>0, <2>3 DEF CloseDB, LoopGone, CloseInv, LogRequests, LogPutting
    <3>3. Log!Closed
      BY <2>0, <3>1, <3>2 DEF Log!Closed
    <3> QED  BY <3>3 DEF Log!Next
  <2>4. CASE CloseCall(c) \/ CloseLock(c) \/ CloseChannel(c) \/ (CloseCheck(c) /\ closed)
    BY <1>0, <2>1, <2>4 DEF CloseCall, CloseLock, CloseChannel, CloseCheck, LogPhase, TypeOK
  <2>5. CASE CloseDB(c) /\ ~dbOpen
    BY <1>0, <2>1, <2>5 DEF CloseDB, LogPhase, TypeOK
  <2> QED  BY <1>10, <2>2, <2>3, <2>4, <2>5 DEF CloseStep
<1> QED  BY <1>1, <1>2, <1>3, <1>4, <1>5, <1>6, <1>7, <1>8, <1>9, <1>10
         DEF Next, WriteLoop

(* Persistence implements EventLog, the log that EventQueue is built on.    *)
THEOREM Implementation == Spec => ImplementsLog
<1>1. Init => Log!Init
  BY PersistenceAssumption DEF Init, Log!Init, LogRequests, LogPutting, LogPhase, Procs
<1> QED  BY <1>1, LogStep, TypeInvariant, Invariant, PTL DEF Spec, ImplementsLog, Log!Spec
-----------------------------------------------------------------------------
(* What Answered and CloseReturns need besides fairness.                   *)

(* Who holds or awaits the read lock, and who has the transaction.          *)
HolderInv ==
    /\ readers \cup blocked \subseteq Events \cup {Loop, Counter}
    /\ readers \cap blocked = {}
    /\ \A e \in Events : e \in readers \cup blocked <=> pc[e] \in {"entering", "sending"}
    /\ Loop \in readers \cup blocked <=> pc[Loop] = "entering"
    /\ Counter \in readers \cup blocked <=> pc[Counter] \in {"entering", "tx"}
    /\ blocked # {} => locker # NoProc
    /\ locker \in Closers \cup {Flusher, NoProc}
    /\ tx = Loop <=> pc[Loop] = "tx"
    /\ tx = Flusher <=> pc[Flusher] = "tx"

(* A call has begun and has not returned, or a request is buffered.         *)
UnderWay ==
    writeCh # <<>> \/ \E p \in Procs : pc[p] \notin {"idle", "returned"}

(* Some goroutine that is in a call waits for nobody: the guards of the     *)
(* steps that FairSpec is fair to.                                         *)
Runnable ==
    \/ \E e \in Events : pc[e] = "sending" \/ (pc[e] = "entering" /\ e \in readers)
    \/ pc[Loop] = "idle" /\ (writeCh # <<>> \/ chClosed)
    \/ pc[Loop] = "entering" /\ Loop \in readers
    \/ pc[Flusher] = "entering" /\ HasLock(Flusher)
    \/ \E p \in {Loop, Flusher} : pc[p] = "begin" /\ tx = NoProc
    \/ \E p \in {Loop, Flusher, Counter} : pc[p] = "tx"
    \/ pc[Counter] = "entering" /\ Counter \in readers
    \/ \E c \in Closers :
         \/ pc[c] = "calling" /\ locker = NoProc
         \/ pc[c] = "entering" /\ HasLock(c)
         \/ pc[c] = "closing"
         \/ pc[c] = "waiting" /\ LoopGone /\ tx = NoProc /\ pc[Counter] # "tx"

NoDeadlock == UnderWay => Runnable

(* Nobody is inside at first.                                              *)
LEMMA HolderInit == Init => HolderInv
BY PersistenceAssumption DEF Init, HolderInv, Procs

(* An Unlock admits everyone who waited, and every reader that leaves gives *)
(* the lock back exactly once.                                             *)
LEMMA HolderNext == TypeInv /\ Inv /\ HolderInv /\ [Next]_vars => HolderInv'
<1> SUFFICES ASSUME TypeInv, Inv, HolderInv, [Next]_vars PROVE HolderInv'
  OBVIOUS
<1> USE PersistenceAssumption DEF lockVars, chanVars, boltVars, Goto, Procs
<1>0. TypeOK /\ Places /\ LockInv
  BY DEF TypeInv, Inv
<1>1. CASE UNCHANGED vars
  BY <1>1 DEF vars, HolderInv
<1>2. ASSUME NEW e \in Events, Enqueue(e) PROVE HolderInv'
  <2>1. CASE EnqueueRLock(e)
    BY <1>0, <2>1 DEF EnqueueRLock, RLock, TypeOK, HolderInv
  <2>2. CASE EnqueueCheck(e)
    BY <1>0, <2>2 DEF EnqueueCheck, RUnlock, TypeOK, HolderInv
  <2>3. CASE EnqueueSend(e)
    BY <1>0, <2>3 DEF EnqueueSend, RUnlock, LockInv, TypeOK, HolderInv
  <2> QED  BY <1>2, <2>1, <2>2, <2>3 DEF Enqueue
<1>3. CASE LoopReceive
  BY <1>0, <1>3 DEF LoopReceive, RLock, TypeOK, HolderInv
<1>4. CASE LoopExit \/ LoopBegin
  BY <1>0, <1>4 DEF LoopExit, LoopBegin, TypeOK, HolderInv
<1>5. CASE LoopCheck
  BY <1>0, <1>5 DEF LoopCheck, RUnlock, TypeOK, HolderInv
<1>6. CASE LoopCommit
  BY <1>0, <1>6 DEF LoopCommit, TypeOK, HolderInv
<1>7. ASSUME NEW S \in SUBSET Events, RemoveLock(S) PROVE HolderInv'
  BY <1>0, <1>7 DEF RemoveLock, Lock, TypeOK, HolderInv
<1>8. CASE RemoveCheck
  BY <1>0, <1>8 DEF RemoveCheck, HasLock, Unlock, TypeOK, HolderInv
<1>9. CASE RemoveBegin
  BY <1>0, <1>9 DEF RemoveBegin, TypeOK, HolderInv
<1>10. CASE RemoveCommit
  BY <1>0, <1>10 DEF RemoveCommit, Unlock, LockInv, TypeOK, HolderInv
<1>11. CASE ViewRLock
  BY <1>0, <1>11 DEF ViewRLock, RLock, TypeOK, HolderInv
<1>12. CASE ViewStep
  BY <1>0, <1>12 DEF ViewStep, ViewCheck, ViewEnd, RUnlock, LockInv, TypeOK, HolderInv
<1>13. ASSUME NEW c \in Closers, CloseCall(c) \/ CloseStep(c) PROVE HolderInv'
  <2>1. CASE CloseCheck(c)
    BY <1>0, <2>1 DEF CloseCheck, HasLock, Unlock, TypeOK, HolderInv
  <2>2. CASE CloseLock(c)
    BY <1>0, <2>2 DEF CloseLock, Lock, TypeOK, HolderInv
  <2>3. CASE CloseCall(c) \/ CloseChannel(c) \/ CloseDB(c)
    BY <1>0, <2>3 DEF CloseCall, CloseChannel, CloseDB, TypeOK, HolderInv
  <2> QED  BY <1>13, <2>1, <2>2, <2>3 DEF CloseStep
<1> QED  BY <1>1, <1>2, <1>3, <1>4, <1>5, <1>6, <1>7, <1>8, <1>9, <1>10, <1>11,
            <1>12, <1>13 DEF Next, WriteLoop, RemoveStep

(* EnqueueAsync, writeLoop, Remove, Count and Close never all wait for each *)
(* other, over the mutex, the channel, the transactions of BoltDB and       *)
(* wg.Wait: as long as a call is under way or a request is buffered, some   *)
(* goroutine inside can go on.  With fairness this gives Answered and       *)
(* CloseReturns.                                                           *)
THEOREM NeverDeadlocks == Spec => []NoDeadlock
<1>1. TypeInv /\ Inv /\ HolderInv => NoDeadlock
  <2> SUFFICES ASSUME TypeInv, Inv, HolderInv, UnderWay, ~Runnable PROVE FALSE
    BY DEF NoDeadlock
  <2>0. TypeOK /\ Places /\ LockInv /\ CloseInv
    BY DEF TypeInv, Inv
  <2>1. tx = NoProc
    BY <2>0 DEF TypeOK, HolderInv, Runnable
  <2>2. readers = {}
    <3>1. ASSUME NEW p \in readers PROVE FALSE
      <4>1. p \in Events \cup {Loop, Counter}
        BY <3>1 DEF HolderInv
      <4> QED  BY <3>1, <4>1 DEF HolderInv, Runnable
    <3> QED  BY <3>1
  <2>3. locker = NoProc
    <3>1. locker # Flusher
      BY <2>0, <2>1, <2>2 DEF LockInv, Places, Runnable, HasLock
    <3>2. \A c \in Closers : locker # c
      BY <2>0, <2>2 DEF LockInv, Runnable, HasLock
    <3> QED  BY <3>1, <3>2 DEF HolderInv
  <2>4. blocked = {}
    BY <2>3 DEF HolderInv
  <2>5. /\ \A e \in Events : pc[e] \in {"idle", "returned"}
        /\ pc[Counter] \in {"idle", "returned"}
    BY <2>0, <2>2, <2>4 DEF HolderInv, Places
  <2>6. pc[Flusher] = "idle"
    BY <2>0, <2>3, PersistenceAssumption DEF LockInv, Procs
  <2>7. pc[Loop] \in {"idle", "returned"}
    BY <2>0, <2>1, <2>2, <2>4 DEF HolderInv, Places, Runnable
  <2>8. writeCh = <<>> /\ (chClosed => LoopGone)
    BY <2>0, <2>7 DEF CloseInv, Runnable, LoopGone
  <2>9. \A c \in Closers : pc[c] \in {"idle", "returned"}
    <3> SUFFICES ASSUME NEW c \in Closers PROVE pc[c] \in {"idle", "returned"}
      OBVIOUS
    <3>1. pc[c] # "entering"
      BY <2>0, <2>3, PersistenceAssumption DEF LockInv, Procs
    <3>2. pc[c] # "waiting"
      BY <2>0, <2>1, <2>5, <2>8 DEF CloseInv, Runnable
    <3> QED  BY <2>0, <2>3, <3>1, <3>2 DEF Places, Runnable
  <2> QED  BY <2>5, <2>6, <2>7, <2>8, <2>9 DEF UnderWay, Procs
<1> QED  BY <1>1, HolderInit, HolderNext, TypeInvariant, Invariant, PTL DEF Spec
=============================================================================
