------------------------------- MODULE Retry --------------------------------
(***************************************************************************)
(* retry.BatchRetry (internal/retry) as EventQueue.flush calls it: one     *)
(* WithRetry loop for the batch; when it gives up, one goroutine per item, *)
(* each with a WithRetry loop of its own behind a semaphore; items that    *)
(* give up go to the dead letter queue.  The context is cancelled by a     *)
(* shutdown at any moment.                                                 *)
(***************************************************************************)
EXTENDS Integers, Sequences, FiniteSets, Functions, FiniteSetsExt

CONSTANTS
    Items,        \* the events of the batch
    BadItems,     \* those PostgreSQL refuses
    Batch,        \* names the WithRetry call for the whole batch
    MaxAttempts, BaseDelay, MaxDelay, Multiplier,  \* retry.Config
    MaxParallel   \* capacity of sem

ASSUME RetryAssumption ==
    /\ IsFiniteSet(Items)
    /\ Items # {}
    /\ BadItems \subseteq Items
    /\ Batch \notin Items
    /\ {MaxAttempts, MaxParallel} \subseteq Nat \ {0}
    /\ {BaseDelay, MaxDelay, Multiplier} \subseteq Nat
    /\ BaseDelay <= MaxDelay

VARIABLES
    db,         \* rows of the table events
    phase,      \* "batch", "items" or "done": where BatchRetry is
    call,       \* where each WithRetry call is
    attempts,   \* attempts each call has made
    delay,      \* the delay each call will sleep next
    dlq,        \* entries added to the dead letter queue by this BatchRetry
    cancelled,  \* ctx is cancelled
    acked,      \* history: items an insert has reported as stored
    doubt,      \* history: rows each call committed while reporting an error
    waited,     \* history: the time each call has slept
    late        \* history: attempts each call began after the cancellation

vars == <<db, phase, call, attempts, delay, dlq, cancelled, acked, doubt,
          waited, late>>

Calls == Items \cup {Batch}
ItemsOf(c) == IF c = Batch THEN Items ELSE {c}

(* An idle item has not been started; a queued one waits for the semaphore. *)
CallState == {"idle", "queued", "trying", "backoff", "failed", "settled"}

Init ==
    /\ db \in SUBSET (Items \ BadItems)
    /\ phase = "batch"
    /\ call = [c \in Calls |-> IF c = Batch THEN "trying" ELSE "idle"]
    /\ attempts = [c \in Calls |-> 0]
    /\ delay = [c \in Calls |-> BaseDelay]
    /\ dlq = <<>>
    /\ cancelled \in BOOLEAN
    /\ acked = {}
    /\ doubt = [c \in Calls |-> {}]
    /\ waited = [c \in Calls |-> 0]
    /\ late = [c \in Calls |-> 0]
-----------------------------------------------------------------------------
(* WithRetry.                                                              *)

Insertable(S) == S \cap (db \cup BadItems) = {}

CountAttempt(c) ==
    /\ attempts' = [attempts EXCEPT ![c] = @ + 1]
    /\ late' = [late EXCEPT ![c] = IF cancelled THEN @ + 1 ELSE @]

(* wg.Done of the last item goroutine releases wg.Wait.                    *)
SettleCall(c) ==
    /\ call' = [call EXCEPT ![c] = "settled"]
    /\ phase' = IF c = Batch \/ \A i \in Items : call'[i] = "settled"
                THEN "done" ELSE phase

(* fn returned nil: the call ends, and with it the goroutine of an item.    *)
(* database/sql sends nothing on a context that is already cancelled.      *)
AttemptOKIgnoringCtx(c) ==
    /\ call[c] = "trying"
    /\ Insertable(ItemsOf(c))
    /\ db' = db \cup ItemsOf(c)
    /\ acked' = acked \cup ItemsOf(c)
    /\ CountAttempt(c)
    /\ SettleCall(c)
    /\ UNCHANGED <<delay, dlq, cancelled, doubt, waited>>

AttemptOK(c) ==
    /\ call[c] = "trying"
    /\ ~cancelled
    /\ Insertable(ItemsOf(c))
    /\ db' = db \cup ItemsOf(c)
    /\ acked' = acked \cup ItemsOf(c)
    /\ CountAttempt(c)
    /\ SettleCall(c)
    /\ UNCHANGED <<delay, dlq, cancelled, doubt, waited>>

(* After an error: give up when the context is cancelled or this was the    *)
(* last attempt, sleep otherwise.                                          *)
AfterErrorIgnoringCtx(c) ==
    IF attempts[c] + 1 >= MaxAttempts THEN "failed" ELSE "backoff"
AfterErrorOneMore(c) ==
    IF cancelled \/ attempts[c] + 1 > MaxAttempts THEN "failed" ELSE "backoff"
AfterError(c) ==
    IF cancelled \/ attempts[c] + 1 >= MaxAttempts THEN "failed" ELSE "backoff"

(* fn returned an error, and the statement may have committed all the same. *)
AttemptError(c) ==
    /\ call[c] = "trying"
    /\ \/ UNCHANGED <<db, doubt>>
       \/ /\ Insertable(ItemsOf(c))
          /\ db' = db \cup ItemsOf(c)
          /\ doubt' = [doubt EXCEPT ![c] = ItemsOf(c)]
    /\ CountAttempt(c)
    /\ call' = [call EXCEPT ![c] = AfterError(c)]
    /\ UNCHANGED <<phase, delay, dlq, cancelled, acked, waited>>

NextDelayUncapped(d) == d * Multiplier
NextDelay(d) == Min({d * Multiplier, MaxDelay})

(* The timer fires; select may take it although ctx is done as well.        *)
BackoffOver(c) ==
    /\ call[c] = "backoff"
    /\ waited' = [waited EXCEPT ![c] = @ + delay[c]]
    /\ delay' = [delay EXCEPT ![c] = NextDelay(@)]
    /\ call' = [call EXCEPT ![c] = "trying"]
    /\ UNCHANGED <<db, phase, attempts, dlq, cancelled, acked, doubt, late>>

BackoffCancelled(c) ==
    /\ call[c] = "backoff"
    /\ cancelled
    /\ call' = [call EXCEPT ![c] = "failed"]
    /\ UNCHANGED <<db, phase, attempts, delay, dlq, cancelled, acked, doubt,
                   waited, late>>
-----------------------------------------------------------------------------
(* BatchRetry.                                                             *)

(* The batch has failed: start a goroutine for every item.                 *)
FallBack ==
    /\ phase = "batch"
    /\ call[Batch] = "failed"
    /\ phase' = "items"
    /\ call' = [c \in Calls |-> IF c = Batch THEN "settled" ELSE "queued"]
    /\ UNCHANGED <<db, attempts, delay, dlq, cancelled, acked, doubt, waited,
                   late>>

(* The goroutines that hold a slot of sem, and keep it while they sleep.    *)
HoldingForever == {i \in Items : call[i] \in {"trying", "backoff", "failed", "settled"}}
Holding == {i \in Items : call[i] \in {"trying", "backoff", "failed"}}

Acquire(i) ==
    /\ call[i] = "queued"
    /\ Cardinality(Holding) < MaxParallel
    /\ call' = [call EXCEPT ![i] = "trying"]
    /\ UNCHANGED <<db, phase, attempts, delay, dlq, cancelled, acked, doubt,
                   waited, late>>

(* dlq.Add, then release the slot.                                         *)
DeadLetterOnlyExhausted(i) ==
    IF attempts[i] = MaxAttempts THEN Append(dlq, i) ELSE dlq
DeadLetter(i) == Append(dlq, i)

GiveUp(i) ==
    /\ i \in Items
    /\ call[i] = "failed"
    /\ dlq' = DeadLetter(i)
    /\ SettleCall(i)
    /\ UNCHANGED <<db, attempts, delay, cancelled, acked, doubt, waited, late>>

(* EventQueue.Shutdown cancels the context.                                *)
Cancel ==
    /\ ~cancelled
    /\ cancelled' = TRUE
    /\ UNCHANGED <<db, phase, call, attempts, delay, dlq, acked, doubt, waited,
                   late>>
-----------------------------------------------------------------------------
CallStep(c) ==
    \/ AttemptOK(c)
    \/ AttemptError(c)
    \/ BackoffOver(c)
    \/ BackoffCancelled(c)

RetryStep ==
    \/ \E c \in Calls : CallStep(c)
    \/ FallBack
    \/ \E i \in Items : Acquire(i) \/ GiveUp(i)

Next == RetryStep \/ Cancel

Spec == Init /\ [][Next]_vars

(* The goroutines run, PostgreSQL answers every statement, if only with an  *)
(* error, and timers fire.  Nothing makes a shutdown happen.               *)
FairSpec == Spec /\ WF_vars(RetryStep)
-----------------------------------------------------------------------------
(* Types; no call makes more than MaxAttempts attempts.                    *)
TypeOK ==
    /\ db \subseteq Items \ BadItems
    /\ phase \in {"batch", "items", "done"}
    /\ call \in [Calls -> CallState]
    /\ attempts \in [Calls -> 0..MaxAttempts]
    /\ delay \in [Calls -> Nat]
    /\ dlq \in Seq(Items)
    /\ cancelled \in BOOLEAN
    /\ acked \subseteq Items
    /\ doubt \in [Calls -> SUBSET Items]
    /\ waited \in [Calls -> Nat]
    /\ late \in [Calls -> 0..MaxAttempts]

(* When BatchRetry returns, the dead letter queue has grown by one entry    *)
(* for each item that no insert has reported as stored and by nothing else, *)
(* which is how flush tells failures from successes; retries by concurrent  *)
(* goroutines, commits in doubt and a cancellation must not upset it.      *)
EveryItemSettledOnce ==
    phase = "done" =>
        /\ acked \subseteq db
        /\ Range(dlq) = Items \ acked
        /\ Len(dlq) = Cardinality(Items \ acked)

(* Once the context is cancelled each WithRetry makes at most one more      *)
(* attempt, although a sleeping call may pick the timer over ctx.Done.     *)
CancelStopsRetries == \A c \in Calls : late[c] <= 1

(* A call never sleeps longer than MaxDelay between two attempts, nor after *)
(* the last one: this bounds how long a flush can outlast a shutdown.      *)
WaitBounded ==
    \A c \in Calls :
        /\ waited[c] <= (MaxAttempts - 1) * MaxDelay
        /\ attempts[c] <= 1 => waited[c] <= BaseDelay

(* BatchRetry returns, with MaxParallel goroutines or more waiting for sem. *)
Terminates == <>(phase = "done")

(* The steps flush sees.  A commit in doubt becomes visible when its call   *)
(* ends: no other call of this batch inserts the same rows meanwhile.      *)
Unsettled == {i \in Items : call[i] # "settled"}

InDoubt == UNION {doubt[c] : c \in {c \in Calls : call[c] # "settled"}}

Outcome == INSTANCE BatchOutcome WITH
    db      <- db \ InDoubt,
    pending <- IF phase = "items" THEN Unsettled ELSE {}

(* BatchRetry implements the one-step inserts that EventQueue uses.        *)
ImplementsOutcome == Outcome!Spec
=============================================================================
