---------------------------- MODULE RetryProofs ----------------------------
(***************************************************************************)
(* BatchRetry proved for a batch of any size, any retry.Config and any     *)
(* number of slots: no call outlives its attempts, its waiting time or a   *)
(* cancellation by more than one attempt; every item is settled exactly    *)
(* once; and flush sees nothing but the steps of BatchOutcome.             *)
(***************************************************************************)
EXTENDS Retry, SequenceLemmas
-----------------------------------------------------------------------------
(* The inductive invariant, in named parts.                                *)

Waits(c) == call[c] \in {"idle", "queued"}
Ended(c) == call[c] \in {"failed", "settled"}

(* Attempts are counted from the first one, and the last one ends the call. *)
AttemptInv ==
    \A c \in Calls :
        /\ Waits(c) => attempts[c] = 0
        /\ call[c] \in {"trying", "backoff"} => attempts[c] < MaxAttempts
        /\ call[c] = "backoff" \/ Ended(c) => attempts[c] >= 1

(* Where BatchRetry is, seen from its calls: the items start when the batch *)
(* has given up, and all of them have ended when it returns.               *)
PhaseInv ==
    /\ phase = "batch" =>
        /\ call[Batch] \in {"trying", "backoff", "failed"}
        /\ \A i \in Items : call[i] = "idle"
    /\ phase # "batch" => call[Batch] = "settled"
    /\ phase = "items" =>
        /\ \A i \in Items : call[i] # "idle"
        /\ \E i \in Items : call[i] # "settled"
    /\ phase = "done" =>
        \/ \A i \in Items : call[i] = "idle"
        \/ \A i \in Items : call[i] = "settled"

(* An attempt after the cancellation is the last one of its call.           *)
CancelInv ==
    \A c \in Calls :
        /\ late[c] <= 1
        /\ ~Ended(c) => late[c] = 0

(* A call has slept once less than it has attempted, unless it is trying.   *)
WaitOf(c) ==
    /\ delay[c] <= MaxDelay
    /\ waited[c] <= (IF call[c] = "trying" \/ Waits(c)
                     THEN attempts[c] ELSE attempts[c] - 1) * MaxDelay
    /\ attempts[c] = 0 \/ (attempts[c] = 1 /\ call[c] # "trying") =>
          waited[c] = 0 /\ delay[c] = BaseDelay
    /\ attempts[c] = 1 => waited[c] <= BaseDelay

WaitInv == \A c \in Calls : WaitOf(c)

(* Every settled item is acknowledged or dead-lettered, never both, and     *)
(* has one entry in the dead letter queue.                                 *)
SettleInv ==
    /\ acked \subseteq db
    /\ acked \cup Range(dlq) =
         IF phase = "done" THEN Items ELSE {i \in Items : call[i] = "settled"}
    /\ acked \cap Range(dlq) = {}
    /\ Len(dlq) = Cardinality(Range(dlq))

(* A commit in doubt is one of the whole insert of its call.                *)
DoubtInv ==
    \A c \in Calls :
        /\ doubt[c] \in {{}, ItemsOf(c)}
        /\ doubt[c] \subseteq db
        /\ Waits(c) => doubt[c] = {}

CallInv == TypeOK /\ AttemptInv /\ PhaseInv
-----------------------------------------------------------------------------
(* The operators.                                                          *)

(* The delay after a sleep is a natural number that MaxDelay caps.          *)
LEMMA NextDelayBounded ==
    ASSUME NEW d \in Nat
    PROVE  NextDelay(d) \in Nat /\ NextDelay(d) <= MaxDelay
<1>1. MaxDelay \in Nat /\ d * Multiplier \in Nat
  BY RetryAssumption
<1> DEFINE m == d * Multiplier
<1>2. \E x \in {m, MaxDelay} : \A y \in {m, MaxDelay} : x <= y
  <2> HIDE DEF m
  <2> QED  BY <1>1 DEF m
<1>3. NextDelay(d) \in {m, MaxDelay} /\ \A y \in {m, MaxDelay} : NextDelay(d) <= y
  BY <1>2 DEF NextDelay, Min
<1> QED  BY <1>1, <1>3

(* One more sleep fits the bound of one more attempt.                       *)
LEMMA OneMoreDelay ==
    ASSUME NEW w \in Nat, NEW n \in Nat, n >= 1, NEW d \in Nat,
           w <= (n - 1) * MaxDelay, d <= MaxDelay
    PROVE  w + d <= n * MaxDelay
<1>1. MaxDelay \in Nat
  BY RetryAssumption
<1>2. n * MaxDelay = (n - 1) * MaxDelay + MaxDelay
  BY <1>1
<1>3. (n - 1) * MaxDelay \in Int
  BY <1>1
<1> QED  BY <1>1, <1>2, <1>3

(* The bound on the time slept grows with the attempts.                     *)
LEMMA DelaysMonotonic ==
    ASSUME NEW m \in Nat, NEW n \in Nat, m <= n
    PROVE  m * MaxDelay <= n * MaxDelay
<1>1. MaxDelay \in Nat
  BY RetryAssumption
<1>2. (n - m) * MaxDelay >= 0
  BY <1>1
<1> QED  BY <1>1, <1>2

(* An insert concerns items of the batch, and for an item only itself.      *)
LEMMA ItemsOfType ==
    ASSUME NEW c \in Calls
    PROVE  /\ ItemsOf(c) \subseteq Items
           /\ c # Batch => c \in Items /\ ItemsOf(c) = {c}
           /\ ItemsOf(Batch) = Items
BY RetryAssumption DEF ItemsOf, Calls
-----------------------------------------------------------------------------
(* Types, attempts and phases.                                             *)

(* A call that settles ends BatchRetry when it is the batch or the last     *)
(* item, and leaves the phase otherwise.                                   *)
LEMMA SettlePhase ==
    ASSUME CallInv, NEW c \in Calls, call[c] \in {"trying", "failed"}, SettleCall(c),
           c = Batch => call[c] = "trying"
    PROVE  /\ call' \in [Calls -> CallState] /\ call' = [call EXCEPT ![c] = "settled"]
           /\ phase' \in {"batch", "items", "done"}
           /\ PhaseInv'
           /\ c = Batch => phase = "batch" /\ phase' = "done"
           /\ c # Batch => phase = "items" /\ phase' \in {"items", "done"}
           /\ phase' = "done" /\ c # Batch => \A i \in Items : call'[i] = "settled"
<1> USE RetryAssumption DEF Calls
<1>1. call' = [call EXCEPT ![c] = "settled"] /\ call' \in [Calls -> CallState]
  BY DEF SettleCall, CallInv, TypeOK, CallState
<1>2. CASE c = Batch
  BY <1>1, <1>2 DEF SettleCall, CallInv, TypeOK, PhaseInv
<1>3. CASE c # Batch
  BY <1>1, <1>3 DEF SettleCall, CallInv, TypeOK, PhaseInv
<1> QED  BY <1>1, <1>2, <1>3

(* Every attempt of a call is counted, up to MaxAttempts.                   *)
LEMMA CountAttemptType ==
    ASSUME CallInv, CancelInv, NEW c \in Calls, call[c] = "trying", CountAttempt(c)
    PROVE  /\ attempts' \in [Calls -> 0..MaxAttempts]
           /\ late' \in [Calls -> 0..MaxAttempts]
           /\ attempts' = [attempts EXCEPT ![c] = @ + 1]
           /\ late' = [late EXCEPT ![c] = IF cancelled THEN 1 ELSE 0]
           /\ attempts[c] \in Nat /\ attempts[c] < MaxAttempts
<1> USE RetryAssumption
<1>1. attempts[c] \in 0..MaxAttempts /\ attempts[c] < MaxAttempts /\ late[c] = 0
  BY DEF CallInv, TypeOK, AttemptInv, CancelInv, Ended
<1>2. late' = [late EXCEPT ![c] = IF cancelled THEN 1 ELSE 0]
  BY <1>1 DEF CountAttempt
<1> QED  BY <1>1, <1>2 DEF CountAttempt, CallInv, TypeOK

(* The types, the attempts and the phases are preserved by every step.      *)
LEMMA CallInvNext == CallInv /\ CancelInv /\ [Next]_vars => CallInv' /\ CancelInv'
<1> SUFFICES ASSUME CallInv, CancelInv, [Next]_vars PROVE CallInv' /\ CancelInv'
  OBVIOUS
<1> USE RetryAssumption
<1>0. TypeOK /\ AttemptInv /\ PhaseInv
  BY DEF CallInv
<1>1. CASE UNCHANGED vars
  BY <1>0, <1>1 DEF vars, CallInv, TypeOK, AttemptInv, PhaseInv, CancelInv, Waits, Ended
<1>2. ASSUME NEW c \in Calls, AttemptOK(c) PROVE CallInv' /\ CancelInv'
  <2>1. ItemsOf(c) \subseteq Items
    BY ItemsOfType
  <2>2. /\ call[c] = "trying" /\ SettleCall(c) /\ CountAttempt(c)
        /\ UNCHANGED <<delay, dlq, cancelled, doubt, waited>>
        /\ db' = db \cup ItemsOf(c) /\ acked' = acked \cup ItemsOf(c)
        /\ ItemsOf(c) \cap BadItems = {}
    BY <1>2 DEF AttemptOK, Insertable
  <2>3. /\ call' \in [Calls -> CallState] /\ call' = [call EXCEPT ![c] = "settled"]
        /\ phase' \in {"batch", "items", "done"} /\ PhaseInv'
    BY <2>2, SettlePhase
  <2>4. /\ attempts' \in [Calls -> 0..MaxAttempts]
        /\ late' \in [Calls -> 0..MaxAttempts]
        /\ attempts' = [attempts EXCEPT ![c] = @ + 1]
        /\ late' = [late EXCEPT ![c] = IF cancelled THEN 1 ELSE 0]
        /\ attempts[c] \in Nat /\ attempts[c] < MaxAttempts
    BY <2>2, CountAttemptType
  <2>5. TypeOK'
    BY <1>0, <2>1, <2>2, <2>3, <2>4 DEF TypeOK
  <2>6. AttemptInv'
    BY <1>0, <2>3, <2>4 DEF TypeOK, AttemptInv, Waits, Ended
  <2>7. CancelInv'
    BY <1>0, <2>3, <2>4 DEF TypeOK, CancelInv, Ended
  <2> QED  BY <2>3, <2>5, <2>6, <2>7 DEF CallInv
<1>3. ASSUME NEW c \in Calls, AttemptError(c) PROVE CallInv' /\ CancelInv'
  <2>1. ItemsOf(c) \subseteq Items
    BY ItemsOfType
  <2>2. /\ call[c] = "trying" /\ CountAttempt(c)
        /\ call' = [call EXCEPT ![c] = AfterError(c)]
        /\ UNCHANGED <<phase, delay, dlq, cancelled, acked, waited>>
    BY <1>3 DEF AttemptError
  <2>3. /\ attempts' \in [Calls -> 0..MaxAttempts]
        /\ late' \in [Calls -> 0..MaxAttempts]
        /\ attempts' = [attempts EXCEPT ![c] = @ + 1]
        /\ late' = [late EXCEPT ![c] = IF cancelled THEN 1 ELSE 0]
        /\ attempts[c] \in Nat /\ attempts[c] < MaxAttempts
    BY <2>2, CountAttemptType
  <2>4. db' \subseteq Items \ BadItems /\ doubt' \in [Calls -> SUBSET Items]
    BY <1>0, <1>3, <2>1 DEF AttemptError, Insertable, TypeOK
  <2>5. /\ AfterError(c) \in {"failed", "backoff"}
        /\ AfterError(c) = "backoff" => ~cancelled /\ attempts[c] + 1 < MaxAttempts
    BY <2>3 DEF AfterError
  <2>6. TypeOK'
    BY <1>0, <2>2, <2>3, <2>4, <2>5 DEF TypeOK, CallState
  <2>7. AttemptInv'
    BY <1>0, <2>2, <2>3, <2>5 DEF TypeOK, AttemptInv, Waits, Ended
  <2>8. PhaseInv'
    BY <1>0, <2>2, <2>5 DEF TypeOK, PhaseInv, Calls
  <2>9. CancelInv'
    BY <1>0, <2>2, <2>3, <2>5 DEF TypeOK, CancelInv, Ended
  <2> QED  BY <2>6, <2>7, <2>8, <2>9 DEF CallInv
<1>4. ASSUME NEW c \in Calls, BackoffOver(c) PROVE CallInv' /\ CancelInv'
  <2>0. delay[c] \in Nat /\ waited[c] \in Nat
    BY <1>0 DEF TypeOK
  <2>1. NextDelay(delay[c]) \in Nat /\ waited[c] + delay[c] \in Nat
    BY <2>0, NextDelayBounded
  <2>2. TypeOK'
    BY <1>0, <1>4, <2>1 DEF BackoffOver, TypeOK, CallState
  <2>3. AttemptInv' /\ CancelInv'
    BY <1>0, <1>4 DEF BackoffOver, TypeOK, AttemptInv, CancelInv, Waits, Ended
  <2>4. PhaseInv'
    BY <1>0, <1>4 DEF BackoffOver, TypeOK, PhaseInv, Calls
  <2> QED  BY <2>2, <2>3, <2>4 DEF CallInv
<1>5. ASSUME NEW c \in Calls, BackoffCancelled(c) PROVE CallInv' /\ CancelInv'
  <2>1. TypeOK' /\ AttemptInv' /\ CancelInv'
    BY <1>0, <1>5 DEF BackoffCancelled, TypeOK, CallState, AttemptInv, CancelInv, Waits, Ended
  <2>2. PhaseInv'
    BY <1>0, <1>5 DEF BackoffCancelled, TypeOK, PhaseInv, Calls
  <2> QED  BY <2>1, <2>2 DEF CallInv
<1>6. CASE FallBack
  <2>1. /\ call' = [c \in Calls |-> IF c = Batch THEN "settled" ELSE "queued"]
        /\ phase = "batch" /\ phase' = "items" /\ call[Batch] = "failed"
        /\ UNCHANGED <<db, attempts, delay, dlq, cancelled, acked, doubt, waited, late>>
    BY <1>6 DEF FallBack
  <2>2. TypeOK'
    BY <1>0, <2>1 DEF TypeOK, CallState
  <2>3. \A i \in Items : call[i] = "idle"
    BY <1>0, <2>1 DEF PhaseInv
  <2>4. AttemptInv' /\ CancelInv'
    BY <1>0, <2>1, <2>3 DEF TypeOK, AttemptInv, CancelInv, Waits, Ended, Calls
  <2>5. PhaseInv'
    BY <2>1 DEF PhaseInv, Calls
  <2> QED  BY <2>2, <2>4, <2>5 DEF CallInv
<1>7. ASSUME NEW i \in Items, Acquire(i) PROVE CallInv' /\ CancelInv'
  <2>1. i \in Calls /\ call[i] = "queued" /\ call' = [call EXCEPT ![i] = "trying"]
        /\ UNCHANGED <<db, phase, attempts, delay, dlq, cancelled, acked, doubt, waited, late>>
    BY <1>7 DEF Acquire, Calls
  <2>2. TypeOK' /\ AttemptInv' /\ CancelInv'
    BY <1>0, <2>1 DEF TypeOK, CallState, AttemptInv, CancelInv, Waits, Ended
  <2>3. PhaseInv'
    BY <1>0, <2>1 DEF TypeOK, PhaseInv, Calls
  <2> QED  BY <2>2, <2>3 DEF CallInv
<1>8. ASSUME NEW i \in Items, GiveUp(i) PROVE CallInv' /\ CancelInv'
  <2>1. /\ i \in Calls /\ i # Batch /\ call[i] = "failed" /\ SettleCall(i)
        /\ dlq' = Append(dlq, i)
        /\ UNCHANGED <<db, attempts, delay, cancelled, acked, doubt, waited, late>>
    BY <1>8 DEF GiveUp, DeadLetter, Calls
  <2>2. /\ call' \in [Calls -> CallState] /\ call' = [call EXCEPT ![i] = "settled"]
        /\ phase' \in {"batch", "items", "done"} /\ PhaseInv'
    BY <2>1, SettlePhase
  <2>3. dlq' \in Seq(Items)
    BY <1>0, <2>1, AppendProperties DEF TypeOK
  <2>4. TypeOK' /\ AttemptInv' /\ CancelInv'
    BY <1>0, <2>1, <2>2, <2>3 DEF TypeOK, AttemptInv, CancelInv, Waits, Ended
  <2> QED  BY <2>2, <2>4 DEF CallInv
<1>9. CASE Cancel
  BY <1>0, <1>9 DEF Cancel, CallInv, TypeOK, AttemptInv, PhaseInv, CancelInv, Waits, Ended
<1> QED  BY <1>1, <1>2, <1>3, <1>4, <1>5, <1>6, <1>7, <1>8, <1>9
           DEF Next, RetryStep, CallStep

(* The first attempt of the batch is about to be made.                      *)
LEMMA CallInvInit == Init => CallInv /\ CancelInv
<1> SUFFICES ASSUME Init PROVE CallInv /\ CancelInv
  OBVIOUS
<1> USE RetryAssumption DEF Init
<1>1. <<>> \in Seq(Items)
  OBVIOUS
<1>0. MaxAttempts \in Nat /\ BaseDelay \in Nat
  OBVIOUS
<1>2. TypeOK
  <2>1. call \in [Calls -> CallState]
    BY DEF CallState
  <2>2. attempts \in [Calls -> 0..MaxAttempts] /\ late \in [Calls -> 0..MaxAttempts]
    BY <1>0
  <2> QED  BY <1>0, <1>1, <2>1, <2>2 DEF TypeOK
<1>3. AttemptInv /\ CancelInv
  BY DEF AttemptInv, CancelInv, Waits, Ended
<1>4. PhaseInv
  BY DEF PhaseInv, Calls
<1> QED  BY <1>2, <1>3, <1>4 DEF CallInv

(* The calls stay within their attempts and in step with the phase.         *)
LEMMA CallInvariant == Spec => [](CallInv /\ CancelInv)
BY CallInvInit, CallInvNext, PTL DEF Spec

(* BatchRetry keeps its types: in particular no call of WithRetry makes     *)
(* more than MaxAttempts attempts, whoever cancels it and however its       *)
(* inserts end.                                                            *)
THEOREM TypeCorrect == Spec => []TypeOK
<1>1. CallInv /\ CancelInv => TypeOK
  BY DEF CallInv
<1> QED  BY <1>1, CallInvariant, PTL

(* After the context is cancelled, a call of WithRetry makes one attempt    *)
(* more at most, also when its select picks the timer over ctx.Done.       *)
THEOREM CancelEndsRetries == Spec => []CancelStopsRetries
<1>1. CallInv /\ CancelInv => CancelStopsRetries
  BY DEF CancelInv, CancelStopsRetries
<1> QED  BY <1>1, CallInvariant, PTL
-----------------------------------------------------------------------------
(* The time a call sleeps.                                                 *)

(* A call that an action does not touch keeps its bound.                    *)
LEMMA WaitOfOther ==
    ASSUME NEW c \in Calls, WaitOf(c),
           UNCHANGED <<call[c], attempts[c], delay[c], waited[c]>>
    PROVE  WaitOf(c)'
BY DEF WaitOf, Waits

(* Every step keeps the time slept within the attempts made.                *)
LEMMA WaitInvNext == CallInv /\ CancelInv /\ WaitInv /\ [Next]_vars => WaitInv'
<1> SUFFICES ASSUME CallInv, CancelInv, WaitInv, [Next]_vars,
                    NEW d \in Calls
             PROVE  WaitOf(d)'
  BY DEF WaitInv
<1> USE RetryAssumption
<1>0. /\ TypeOK /\ AttemptInv /\ PhaseInv /\ WaitOf(d)
      /\ attempts[d] \in Nat /\ delay[d] \in Nat /\ waited[d] \in Nat
      /\ MaxDelay \in Nat /\ BaseDelay \in Nat
  BY DEF CallInv, TypeOK, WaitInv
<1>1. CASE UNCHANGED vars
  BY <1>0, <1>1, WaitOfOther DEF vars
<1>2. ASSUME NEW c \in Calls, call[c] = "trying", CountAttempt(c),
             call' \in {[call EXCEPT ![c] = s] : s \in {"settled", "failed", "backoff"}},
             UNCHANGED <<delay, waited>>
      PROVE  WaitOf(d)'
  <2>1. CASE d # c
    BY <1>0, <1>2, <2>1, WaitOfOther DEF CountAttempt, TypeOK
  <2>2. CASE d = c
    <3>1. /\ call'[c] \in {"settled", "failed", "backoff"}
          /\ attempts'[c] = attempts[c] + 1
      BY <1>0, <1>2 DEF CountAttempt, TypeOK
    <3>2. waited[c] <= (attempts'[c] - 1) * MaxDelay
      <4>1. attempts'[c] - 1 = attempts[c]
        BY <1>0, <2>2, <3>1
      <4> QED  BY <1>0, <1>2, <2>2, <4>1 DEF WaitOf
    <3>3. waited'[c] = waited[c] /\ delay'[c] = delay[c]
      BY <1>2
    <3>4. (call'[c] = "trying" \/ Waits(c)') = FALSE
      BY <3>1 DEF Waits
    <3>5. waited'[c] <= (IF call'[c] = "trying" \/ Waits(c)'
                         THEN attempts'[c] ELSE attempts'[c] - 1) * MaxDelay
      BY <3>2, <3>3, <3>4
    <3>6. /\ attempts'[c] # 0
          /\ attempts'[c] = 1 => waited[c] = 0 /\ delay[c] = BaseDelay
          /\ delay[c] <= MaxDelay
      BY <1>0, <2>2, <3>1 DEF WaitOf
    <3> QED  BY <1>0, <2>2, <3>3, <3>5, <3>6 DEF WaitOf
  <2> QED  BY <2>1, <2>2
<1>3. ASSUME NEW c \in Calls, AttemptOK(c) PROVE WaitOf(d)'
  BY <1>2, <1>3 DEF AttemptOK, SettleCall
<1>4. ASSUME NEW c \in Calls, AttemptError(c) PROVE WaitOf(d)'
  <2>1. AfterError(c) \in {"failed", "backoff"}
    BY DEF AfterError
  <2> QED  BY <1>2, <1>4, <2>1 DEF AttemptError
<1>5. ASSUME NEW c \in Calls, BackoffOver(c) PROVE WaitOf(d)'
  <2>1. CASE d # c
    BY <1>0, <1>5, <2>1, WaitOfOther DEF BackoffOver, TypeOK
  <2>2. CASE d = c
    <3>1. /\ call'[c] = "trying" /\ attempts'[c] = attempts[c]
          /\ waited'[c] = waited[c] + delay[c] /\ delay'[c] = NextDelay(delay[c])
          /\ call[c] = "backoff"
      BY <1>0, <1>5 DEF BackoffOver, TypeOK
    <3>2. attempts[c] >= 1
      BY <1>0, <3>1 DEF AttemptInv
    <3>3. waited[c] <= (attempts[c] - 1) * MaxDelay /\ delay[c] <= MaxDelay
      BY <1>0, <2>2, <3>1 DEF WaitOf, Waits
    <3>4. waited[c] + delay[c] <= attempts[c] * MaxDelay
      BY <1>0, <2>2, <3>2, <3>3, OneMoreDelay
    <3>5. NextDelay(delay[c]) <= MaxDelay
      BY <1>0, <2>2, NextDelayBounded
    <3>6. attempts[c] = 1 => waited[c] + delay[c] <= BaseDelay
      BY <1>0, <2>2, <3>1 DEF WaitOf
    <3>7. waited'[c] <= attempts'[c] * MaxDelay
      BY <3>1, <3>4
    <3> QED  BY <2>2, <3>1, <3>2, <3>5, <3>6, <3>7 DEF WaitOf
  <2> QED  BY <2>1, <2>2
<1>6. ASSUME NEW c \in Calls, BackoffCancelled(c) PROVE WaitOf(d)'
  BY <1>0, <1>6 DEF BackoffCancelled, TypeOK, WaitOf, Waits
<1>7. CASE FallBack
  <2>1. \A i \in Items : call[i] = "idle"
    BY <1>0, <1>7 DEF FallBack, PhaseInv
  <2> QED  BY <1>0, <1>7, <2>1 DEF FallBack, TypeOK, WaitOf, Waits, Calls
<1>8. ASSUME NEW i \in Items, Acquire(i) PROVE WaitOf(d)'
  BY <1>0, <1>8 DEF Acquire, TypeOK, WaitOf, Waits, Calls
<1>9. ASSUME NEW i \in Items, GiveUp(i) PROVE WaitOf(d)'
  BY <1>0, <1>9 DEF GiveUp, SettleCall, TypeOK, WaitOf, Waits, Calls
<1>10. CASE Cancel
  BY <1>0, <1>10, WaitOfOther DEF Cancel
<1> QED  BY <1>1, <1>3, <1>4, <1>5, <1>6, <1>7, <1>8, <1>9, <1>10
           DEF Next, RetryStep, CallStep

(* No call sleeps longer than MaxDelay between two attempts nor after the   *)
(* last one, for any multiplier: the whole of a flush's waiting is bounded  *)
(* by its configuration.                                                   *)
THEOREM WaitsAreBounded == Spec => []WaitBounded
<1> USE RetryAssumption
<1>1. Init => WaitInv
  <2> SUFFICES ASSUME Init, NEW c \in Calls PROVE WaitOf(c)
    BY DEF WaitInv
  <2>1. 0 * MaxDelay = 0
    OBVIOUS
  <2> QED  BY <2>1 DEF Init, WaitOf, Waits
<1>2. CallInv /\ CancelInv /\ WaitInv => WaitBounded
  <2> SUFFICES ASSUME CallInv, WaitInv, NEW c \in Calls
               PROVE  /\ waited[c] <= (MaxAttempts - 1) * MaxDelay
                      /\ attempts[c] <= 1 => waited[c] <= BaseDelay
    BY DEF WaitBounded
  <2>1. /\ attempts[c] \in 0..MaxAttempts /\ waited[c] \in Nat
        /\ MaxAttempts - 1 \in Nat /\ MaxDelay \in Nat
        /\ (MaxAttempts - 1) * MaxDelay \in Nat /\ call[c] \in CallState
    BY DEF CallInv, TypeOK
  <2>2. CASE call[c] = "trying" \/ Waits(c)
    <3>1. attempts[c] <= MaxAttempts - 1 /\ attempts[c] \in Nat
      BY <2>1, <2>2 DEF CallInv, AttemptInv, Waits
    <3>2. waited[c] <= attempts[c] * MaxDelay
      BY <2>2 DEF WaitInv, WaitOf
    <3>3. attempts[c] * MaxDelay <= (MaxAttempts - 1) * MaxDelay
      BY <2>1, <3>1, DelaysMonotonic
    <3>4. attempts[c] * MaxDelay \in Nat
      BY <2>1, <3>1
    <3> QED  BY <2>1, <3>1, <3>2, <3>3, <3>4 DEF WaitInv, WaitOf
  <2>3. CASE ~(call[c] = "trying" \/ Waits(c))
    <3>1. attempts[c] >= 1 /\ attempts[c] - 1 \in Nat /\ attempts[c] - 1 <= MaxAttempts - 1
      BY <2>1, <2>3 DEF CallInv, AttemptInv, CallState, Waits, Ended
    <3>2. waited[c] <= (attempts[c] - 1) * MaxDelay
      BY <2>3 DEF WaitInv, WaitOf
    <3>3. (attempts[c] - 1) * MaxDelay <= (MaxAttempts - 1) * MaxDelay
      BY <2>1, <3>1, DelaysMonotonic
    <3>4. (attempts[c] - 1) * MaxDelay \in Nat
      BY <2>1, <3>1
    <3> QED  BY <2>1, <3>1, <3>2, <3>3, <3>4 DEF WaitInv, WaitOf
  <2> QED  BY <2>2, <2>3
<1> QED  BY <1>1, <1>2, CallInvariant, WaitInvNext, PTL DEF Spec
-----------------------------------------------------------------------------
(* How items are settled.                                                  *)

Settled == {i \in Items : call[i] = "settled"}

(* An attempt that succeeds acknowledges items that nobody has settled.     *)
LEMMA SettleInvOK ==
    ASSUME CallInv, SettleInv, NEW c \in Calls, AttemptOK(c)
    PROVE  SettleInv'
<1> USE RetryAssumption
<1>1. /\ call[c] = "trying" /\ SettleCall(c)
      /\ db' = db \cup ItemsOf(c) /\ acked' = acked \cup ItemsOf(c) /\ dlq' = dlq
  BY DEF AttemptOK
<1>2. /\ call' = [call EXCEPT ![c] = "settled"]
      /\ c = Batch => phase = "batch" /\ phase' = "done"
      /\ c # Batch => phase = "items" /\ phase' \in {"items", "done"}
      /\ phase' = "done" /\ c # Batch => \A i \in Items : call'[i] = "settled"
  BY <1>1, SettlePhase
<1>3. call \in [Calls -> CallState] /\ PhaseInv
  BY DEF CallInv, TypeOK
<1>4. CASE c = Batch
  <2>1. ItemsOf(c) = Items /\ Settled = {}
    BY <1>2, <1>3, <1>4, ItemsOfType DEF PhaseInv, Settled
  <2>2. acked = {} /\ Range(dlq) = {}
    BY <1>2, <1>4, <2>1 DEF SettleInv, Settled
  <2> QED  BY <1>1, <1>2, <1>4, <2>1, <2>2 DEF SettleInv
<1>5. CASE c # Batch
  <2>1. c \in Items /\ ItemsOf(c) = {c} /\ c \notin Settled
    BY <1>1, <1>5, ItemsOfType DEF Settled
  <2>2. Settled' = Settled \cup {c}
    BY <1>2, <1>3, <2>1 DEF Settled, Calls
  <2>3. acked \cup Range(dlq) = Settled
    BY <1>2, <1>5 DEF SettleInv, Settled
  <2>4. phase' = "done" => Settled' = Items
    BY <1>2, <1>5 DEF Settled
  <2>5. acked' \cup Range(dlq') = Settled' /\ acked' \cap Range(dlq') = {}
    BY <1>1, <2>1, <2>2, <2>3 DEF SettleInv
  <2> QED  BY <1>1, <2>4, <2>5 DEF SettleInv, Settled
<1> QED  BY <1>4, <1>5

(* An item that gives up is added to the dead letter queue once.            *)
LEMMA SettleInvGiveUp ==
    ASSUME CallInv, SettleInv, NEW i \in Items, GiveUp(i)
    PROVE  SettleInv'
<1> USE RetryAssumption
<1>1. /\ i \in Calls /\ i # Batch /\ call[i] = "failed" /\ SettleCall(i)
      /\ dlq' = Append(dlq, i) /\ UNCHANGED <<db, acked>>
  BY DEF GiveUp, DeadLetter, Calls
<1>2. /\ call' = [call EXCEPT ![i] = "settled"]
      /\ phase = "items" /\ phase' \in {"items", "done"}
      /\ phase' = "done" => \A j \in Items : call'[j] = "settled"
  BY <1>1, SettlePhase
<1>3. call \in [Calls -> CallState] /\ dlq \in Seq(Items)
  BY DEF CallInv, TypeOK
<1>4. i \notin Settled /\ Settled' = Settled \cup {i}
  BY <1>1, <1>2, <1>3 DEF Settled, Calls
<1>5. acked \cup Range(dlq) = Settled
  BY <1>2 DEF SettleInv, Settled
<1>6. Range(dlq') = Range(dlq) \cup {i} /\ Len(dlq') = Len(dlq) + 1
  BY <1>1, <1>3, RangeAppend, AppendProperties
<1>7. Cardinality(Range(dlq')) = Cardinality(Range(dlq)) + 1
  BY <1>3, <1>4, <1>5, <1>6, RangeCardinality, FS_AddElement
<1>8. phase' = "done" => Settled' = Items
  BY <1>2 DEF Settled
<1>9. acked' \cup Range(dlq') = Settled' /\ acked' \cap Range(dlq') = {}
  BY <1>1, <1>4, <1>5, <1>6 DEF SettleInv
<1> QED  BY <1>1, <1>6, <1>7, <1>8, <1>9 DEF SettleInv, Settled

(* The other steps settle nothing.                                         *)
LEMMA SettleInvQuiet ==
    ASSUME SettleInv, db \subseteq db', UNCHANGED <<acked, dlq>>,
           phase = "done" <=> phase' = "done",
           \A i \in Items : call[i] = "settled" <=> call'[i] = "settled"
    PROVE  SettleInv'
<1>1. {i \in Items : call[i] = "settled"} = {i \in Items : call'[i] = "settled"}
  OBVIOUS
<1> QED  BY <1>1 DEF SettleInv

(* Every step settles an item once, in one of the two ways.                 *)
LEMMA SettleInvNext == CallInv /\ CancelInv /\ SettleInv /\ [Next]_vars => SettleInv'
<1> SUFFICES ASSUME CallInv, SettleInv, [Next]_vars PROVE SettleInv'
  OBVIOUS
<1> USE RetryAssumption
<1>0. call \in [Calls -> CallState] /\ PhaseInv
  BY DEF CallInv, TypeOK
<1>1. CASE UNCHANGED vars
  BY <1>1, SettleInvQuiet DEF vars
<1>2. ASSUME NEW c \in Calls, AttemptError(c) PROVE SettleInv'
  <2>1. AfterError(c) # "settled"
    BY DEF AfterError
  <2>2. \A i \in Items : call[i] = "settled" <=> call'[i] = "settled"
    BY <1>0, <1>2, <2>1 DEF AttemptError, Calls
  <2> QED  BY <1>2, <2>2, SettleInvQuiet DEF AttemptError
<1>3. ASSUME NEW c \in Calls, BackoffOver(c) \/ BackoffCancelled(c) PROVE SettleInv'
  <2>1. \A i \in Items : call[i] = "settled" <=> call'[i] = "settled"
    BY <1>0, <1>3 DEF BackoffOver, BackoffCancelled, Calls
  <2> QED  BY <1>3, <2>1, SettleInvQuiet DEF BackoffOver, BackoffCancelled
<1>4. CASE FallBack
  <2>1. \A i \in Items : call[i] = "settled" <=> call'[i] = "settled"
    BY <1>0, <1>4 DEF FallBack, PhaseInv, Calls
  <2> QED  BY <1>4, <2>1, SettleInvQuiet DEF FallBack
<1>5. ASSUME NEW i \in Items, Acquire(i) PROVE SettleInv'
  <2>1. \A j \in Items : call[j] = "settled" <=> call'[j] = "settled"
    BY <1>0, <1>5 DEF Acquire, Calls
  <2> QED  BY <1>5, <2>1, SettleInvQuiet DEF Acquire
<1>6. CASE Cancel
  BY <1>6, SettleInvQuiet DEF Cancel
<1> QED  BY <1>1, <1>2, <1>3, <1>4, <1>5, <1>6, SettleInvOK, SettleInvGiveUp
           DEF Next, RetryStep, CallStep

(* Nothing is settled before the first attempt.                            *)
LEMMA SettleInvInit == Init => SettleInv
<1> SUFFICES ASSUME Init PROVE SettleInv
  OBVIOUS
<1>1. Range(dlq) = {} /\ Len(dlq) = 0
  BY DEF Init, Range
<1>2. {i \in Items : call[i] = "settled"} = {}
  BY RetryAssumption DEF Init, Calls
<1>3. Cardinality({}) = 0
  BY FS_EmptySet
<1> QED  BY <1>1, <1>2, <1>3 DEF Init, SettleInv

(* When BatchRetry returns, every item of the batch was acknowledged by an  *)
(* insert or has exactly one entry in the dead letter queue, for any batch, *)
(* any interleaving of the item goroutines, commits in doubt and a          *)
(* cancellation at any moment.                                             *)
THEOREM ItemsSettleOnce == Spec => []EveryItemSettledOnce
<1>1. CallInv /\ CancelInv /\ SettleInv => EveryItemSettledOnce
  <2> SUFFICES ASSUME SettleInv, phase = "done"
               PROVE  /\ acked \subseteq db
                      /\ Range(dlq) = Items \ acked
                      /\ Len(dlq) = Cardinality(Items \ acked)
    BY DEF EveryItemSettledOnce
  <2>1. Range(dlq) = Items \ acked
    BY DEF SettleInv
  <2> QED  BY <2>1 DEF SettleInv
<1> QED  BY <1>1, SettleInvInit, SettleInvNext, CallInvariant, PTL DEF Spec
-----------------------------------------------------------------------------
(* Commits in doubt, and the refinement of BatchOutcome.                   *)

(* Every step keeps a commit in doubt to the rows of its call.              *)
LEMMA DoubtInvNext == CallInv /\ CancelInv /\ DoubtInv /\ [Next]_vars => DoubtInv'
<1> SUFFICES ASSUME CallInv, DoubtInv, [Next]_vars PROVE DoubtInv'
  OBVIOUS
<1> USE RetryAssumption
<1>0. /\ call \in [Calls -> CallState] /\ doubt \in [Calls -> SUBSET Items]
      /\ PhaseInv
  BY DEF CallInv, TypeOK
<1>1. CASE UNCHANGED vars
  BY <1>1 DEF vars, DoubtInv, Waits
<1>2. ASSUME NEW c \in Calls, AttemptOK(c) PROVE DoubtInv'
  BY <1>0, <1>2 DEF AttemptOK, SettleCall, DoubtInv, Waits
<1>3. ASSUME NEW c \in Calls, AttemptError(c) PROVE DoubtInv'
  <2>1. AfterError(c) \notin {"idle", "queued"}
    BY DEF AfterError
  <2> QED  BY <1>0, <1>3, <2>1 DEF AttemptError, DoubtInv, Waits
<1>4. ASSUME NEW c \in Calls, BackoffOver(c) \/ BackoffCancelled(c) PROVE DoubtInv'
  BY <1>0, <1>4 DEF BackoffOver, BackoffCancelled, DoubtInv, Waits
<1>5. CASE FallBack
  <2>1. \A i \in Items : call[i] = "idle"
    BY <1>0, <1>5 DEF FallBack, PhaseInv
  <2> QED  BY <1>0, <1>5, <2>1 DEF FallBack, DoubtInv, Waits, Calls
<1>6. ASSUME NEW i \in Items, Acquire(i) PROVE DoubtInv'
  BY <1>0, <1>6 DEF Acquire, DoubtInv, Waits, Calls
<1>7. ASSUME NEW i \in Items, GiveUp(i) PROVE DoubtInv'
  BY <1>0, <1>7 DEF GiveUp, SettleCall, DoubtInv, Waits, Calls
<1>8. CASE Cancel
  BY <1>8 DEF Cancel, DoubtInv, Waits
<1> QED  BY <1>1, <1>2, <1>3, <1>4, <1>5, <1>6, <1>7, <1>8
           DEF Next, RetryStep, CallStep

(* The rows in doubt while the batch is tried: only it can have any.        *)
LEMMA UnionOfBatch ==
    ASSUME NEW C, NEW D, C[Batch] # "settled", \A i \in Items : D[i] = {}
    PROVE  UNION {D[c] : c \in {c \in Calls : C[c] # "settled"}} = D[Batch]
BY DEF Calls

(* The rows in doubt while the items are tried: each can have its own.      *)
LEMMA UnionOfItems ==
    ASSUME NEW C, NEW D, C[Batch] = "settled", \A i \in Items : D[i] \in {{}, {i}}
    PROVE  UNION {D[c] : c \in {c \in Calls : C[c] # "settled"}}
             = {i \in Items : C[i] # "settled" /\ D[i] # {}}
<1> DEFINE U == UNION {D[c] : c \in {c \in Calls : C[c] # "settled"}}
<1>1. ASSUME NEW x \in U PROVE x \in Items /\ C[x] # "settled" /\ D[x] # {}
  <2>1. PICK c \in Calls : C[c] # "settled" /\ x \in D[c]
    OBVIOUS
  <2>2. c \in Items /\ c = x
    BY <2>1 DEF Calls
  <2> QED  BY <2>1, <2>2
<1>2. ASSUME NEW x \in Items, C[x] # "settled", D[x] # {} PROVE x \in U
  BY <1>2 DEF Calls
<1> QED  BY <1>1, <1>2

(* What the refinement mapping hides in each phase.                         *)
LEMMA InDoubtValue ==
    ASSUME CallInv, DoubtInv
    PROVE  /\ phase = "batch" => InDoubt = doubt[Batch]
           /\ phase # "batch" =>
                InDoubt = {i \in Items : call[i] # "settled" /\ doubt[i] # {}}
           /\ InDoubt \subseteq db
           /\ \A i \in Items : doubt[i] \in {{}, {i}}
           /\ phase = "batch" => \A i \in Items : doubt[i] = {}
           /\ doubt[Batch] \in {{}, Items} /\ doubt[Batch] \subseteq db
<1> USE RetryAssumption
<1>1. \A i \in Items : i \in Calls /\ doubt[i] \in {{}, {i}} /\ doubt[i] \subseteq db
  BY ItemsOfType DEF DoubtInv, Calls
<1>2. Batch \in Calls /\ doubt[Batch] \in {{}, Items} /\ doubt[Batch] \subseteq db
  BY ItemsOfType DEF DoubtInv, Calls
<1>3. phase = "batch" => \A i \in Items : doubt[i] = {}
  BY <1>1 DEF DoubtInv, CallInv, PhaseInv, Waits
<1>4. phase = "batch" => InDoubt = doubt[Batch]
  BY <1>3, UnionOfBatch DEF InDoubt, CallInv, PhaseInv
<1>5. phase # "batch" =>
         InDoubt = {i \in Items : call[i] # "settled" /\ doubt[i] # {}}
  BY <1>1, UnionOfItems DEF InDoubt, CallInv, PhaseInv
<1>6. InDoubt \subseteq db
  BY <1>1, <1>2, <1>4, <1>5
<1> QED  BY <1>1, <1>2, <1>3, <1>4, <1>5, <1>6

(* A step that ends no call and commits nothing is invisible to flush.      *)
LEMMA InvisibleStep ==
    ASSUME UNCHANGED <<db, doubt, phase, dlq, cancelled>>,
           \A c \in Calls : call[c] = "settled" <=> call'[c] = "settled"
    PROVE  UNCHANGED Outcome!vars
<1>1. {c \in Calls : call[c] # "settled"} = {c \in Calls : call'[c] # "settled"}
  OBVIOUS
<1>2. InDoubt' = InDoubt
  BY <1>1 DEF InDoubt
<1>3. Unsettled' = Unsettled
  BY DEF Unsettled, Calls
<1> QED  BY <1>2, <1>3 DEF Outcome!vars

(* A successful attempt is the insert that flush sees.                      *)
LEMMA OutcomeOfOK ==
    ASSUME CallInv, DoubtInv, NEW c \in Calls, AttemptOK(c)
    PROVE  Outcome!Next
<1> USE RetryAssumption
<1>1. /\ call[c] = "trying" /\ ~cancelled /\ SettleCall(c)
      /\ ItemsOf(c) \cap (db \cup BadItems) = {}
      /\ db' = db \cup ItemsOf(c)
      /\ UNCHANGED <<dlq, cancelled, doubt>>
  BY DEF AttemptOK, Insertable
<1>2. /\ call' = [call EXCEPT ![c] = "settled"] /\ call' \in [Calls -> CallState]
      /\ c = Batch => phase = "batch" /\ phase' = "done"
      /\ c # Batch => phase = "items" /\ phase' \in {"items", "done"}
      /\ phase' = "done" /\ c # Batch => \A i \in Items : call'[i] = "settled"
      /\ PhaseInv'
  BY <1>1, SettlePhase
<1>3. call \in [Calls -> CallState] /\ Batch \in Calls /\ PhaseInv
  BY DEF CallInv, TypeOK, Calls
<1>4. CASE c = Batch
  <2>1. ItemsOf(c) = Items /\ doubt[Batch] = {}
    BY <1>1, <1>4, InDoubtValue, ItemsOfType
  <2>2. InDoubt = {} /\ \A i \in Items : doubt[i] = {}
    BY <1>2, <1>4, <2>1, InDoubtValue
  <2>3. InDoubt' = {}
    <3>1. call'[Batch] = "settled" /\ \A i \in Items : doubt'[i] \in {{}, {i}}
      BY <1>1, <1>2, <1>3, <1>4, <2>2
    <3>2. InDoubt' = {i \in Items : call'[i] # "settled" /\ doubt'[i] # {}}
      BY <3>1, UnionOfItems DEF InDoubt
    <3> QED  BY <1>1, <2>2, <3>2
  <2>4. Outcome!Stored(Items)
    BY <1>1, <2>1, <2>2, <2>3 DEF Outcome!Stored
  <2>5. Outcome!BatchInsert
    BY <1>1, <1>2, <1>4, <2>4 DEF Outcome!BatchInsert
  <2> QED  BY <2>5 DEF Outcome!Next
<1>5. CASE c # Batch
  <2>1. c \in Items /\ ItemsOf(c) = {c} /\ c \notin db
    BY <1>1, <1>5, ItemsOfType
  <2>2. phase = "items" /\ call[Batch] = "settled" /\ call'[Batch] = "settled"
    BY <1>2, <1>3, <1>5 DEF PhaseInv
  <2>3. /\ InDoubt = {i \in Items : call[i] # "settled" /\ doubt[i] # {}}
        /\ InDoubt \subseteq db /\ doubt[c] = {}
        /\ \A i \in Items : doubt'[i] \in {{}, {i}}
    <3>1. doubt[c] \subseteq db /\ doubt[c] \in {{}, {c}}
      BY <2>1 DEF DoubtInv
    <3> QED  BY <1>1, <2>1, <2>2, <3>1, InDoubtValue
  <2>4. InDoubt' = {i \in Items : call'[i] # "settled" /\ doubt'[i] # {}}
    BY <2>2, <2>3, UnionOfItems DEF InDoubt
  <2>5. InDoubt' = InDoubt
    BY <1>1, <1>2, <1>3, <2>1, <2>3, <2>4 DEF Calls
  <2>6. Outcome!Stored({c})
    BY <1>1, <2>1, <2>3, <2>5 DEF Outcome!Stored
  <2>7. c \in Unsettled /\ Unsettled' = Unsettled \ {c}
    BY <1>1, <1>2, <1>3, <2>1 DEF Unsettled, Calls
  <2>8. phase' = "done" <=> Unsettled' = {}
    BY <1>2, <1>5 DEF PhaseInv, Unsettled
  <2>9. Outcome!ItemInsert(c)
    BY <1>1, <1>2, <1>5, <2>2, <2>6, <2>7, <2>8 DEF Outcome!ItemInsert
  <2> QED  BY <2>1, <2>9 DEF Outcome!Next
<1> QED  BY <1>4, <1>5

(* A failed attempt is invisible, also when its insert was committed: the   *)
(* rows stay in doubt until the call ends.                                 *)
LEMMA OutcomeOfError ==
    ASSUME CallInv, DoubtInv, NEW c \in Calls, AttemptError(c)
    PROVE  UNCHANGED Outcome!vars
<1> USE RetryAssumption
<1>1. call[c] = "trying" /\ call \in [Calls -> CallState]
  BY DEF AttemptError, CallInv, TypeOK
<1>2. AfterError(c) # "settled"
  BY DEF AfterError
<1>3. \A d \in Calls : call[d] = "settled" <=> call'[d] = "settled"
  BY <1>1, <1>2 DEF AttemptError
<1>4. CASE UNCHANGED <<db, doubt>>
  BY <1>3, <1>4, InvisibleStep DEF AttemptError
<1>5. CASE /\ Insertable(ItemsOf(c)) /\ db' = db \cup ItemsOf(c)
           /\ doubt' = [doubt EXCEPT ![c] = ItemsOf(c)]
  <2>1. doubt[c] = {}
    BY <1>5 DEF DoubtInv, Insertable
  <2>2. InDoubt' = InDoubt \cup ItemsOf(c)
    <3> DEFINE Open == {d \in Calls : call[d] # "settled"}
    <3>1. Open = {d \in Calls : call'[d] # "settled"} /\ c \in Open
      BY <1>1, <1>3
    <3>2. InDoubt = UNION {doubt[d] : d \in Open} /\ InDoubt' = UNION {doubt'[d] : d \in Open}
      BY <3>1 DEF InDoubt
    <3>3. \A d \in Open : doubt'[d] = IF d = c THEN ItemsOf(c) ELSE doubt[d]
      BY <1>5 DEF CallInv, TypeOK
    <3> HIDE DEF Open
    <3>4. ASSUME NEW x PROVE x \in InDoubt' <=> x \in InDoubt \cup ItemsOf(c)
      BY <2>1, <3>1, <3>2, <3>3
    <3> QED  BY <3>4
  <2>3. (db \ InDoubt)' = db \ InDoubt
    BY <1>5, <2>2 DEF Insertable
  <2>4. Unsettled' = Unsettled
    BY <1>3 DEF Unsettled, Calls
  <2> QED  BY <2>3, <2>4 DEF AttemptError, Outcome!vars
<1> QED  BY <1>4, <1>5 DEF AttemptError

(* The fallback is the failure of the batch; rows it committed all the same *)
(* become visible with it.                                                 *)
LEMMA OutcomeOfFallBack ==
    ASSUME CallInv, DoubtInv, FallBack
    PROVE  Outcome!BatchInsert
<1> USE RetryAssumption
<1>1. /\ phase = "batch" /\ phase' = "items"
      /\ UNCHANGED <<db, doubt, dlq, cancelled>>
      /\ call' = [c \in Calls |-> IF c = Batch THEN "settled" ELSE "queued"]
  BY DEF FallBack
<1>2. /\ InDoubt = doubt[Batch] /\ \A i \in Items : doubt[i] = {}
      /\ doubt[Batch] \in {{}, Items} /\ doubt[Batch] \subseteq db
  BY <1>1, InDoubtValue
<1>3. InDoubt' = {}
  <2>1. call'[Batch] = "settled" /\ \A i \in Items : doubt'[i] \in {{}, {i}}
    BY <1>1, <1>2 DEF Calls
  <2>2. InDoubt' = {i \in Items : call'[i] # "settled" /\ doubt'[i] # {}}
    BY <2>1, UnionOfItems DEF InDoubt
  <2> QED  BY <1>1, <1>2, <2>2
<1>4. Unsettled' = Items
  BY <1>1 DEF Unsettled, Calls
<1>5. db \cap BadItems = {}
  BY DEF CallInv, TypeOK
<1>6. (db \ InDoubt)' = db \ InDoubt \/ Outcome!Stored(Items)
  BY <1>1, <1>2, <1>3, <1>5 DEF Outcome!Stored
<1> QED  BY <1>1, <1>4, <1>6 DEF Outcome!BatchInsert

(* Giving up is the failure of an item, with its rows in doubt.             *)
LEMMA OutcomeOfGiveUp ==
    ASSUME CallInv, DoubtInv, NEW i \in Items, GiveUp(i)
    PROVE  Outcome!ItemInsert(i)
<1> USE RetryAssumption
<1>1. /\ i \in Calls /\ i # Batch /\ call[i] = "failed" /\ SettleCall(i)
      /\ dlq' = Append(dlq, i) /\ UNCHANGED <<db, cancelled, doubt>>
  BY DEF GiveUp, DeadLetter, Calls
<1>2. /\ call' = [call EXCEPT ![i] = "settled"]
      /\ phase = "items" /\ phase' \in {"items", "done"}
      /\ phase' = "done" => \A j \in Items : call'[j] = "settled"
      /\ PhaseInv'
  BY <1>1, SettlePhase
<1>3. call \in [Calls -> CallState] /\ Batch \in Calls /\ PhaseInv
  BY DEF CallInv, TypeOK, Calls
<1>4. /\ InDoubt = {j \in Items : call[j] # "settled" /\ doubt[j] # {}}
      /\ InDoubt \subseteq db
      /\ \A j \in Items : doubt[j] \in {{}, {j}}
  BY <1>2, InDoubtValue
<1>5. InDoubt' = {j \in Items : call'[j] # "settled" /\ doubt'[j] # {}}
  <2>1. call'[Batch] = "settled" /\ \A j \in Items : doubt'[j] \in {{}, {j}}
    BY <1>1, <1>2, <1>4 DEF PhaseInv
  <2> QED  BY <2>1, UnionOfItems DEF InDoubt
<1>6. InDoubt' = InDoubt \ {i}
  BY <1>1, <1>2, <1>3, <1>4, <1>5 DEF Calls
<1>7. db \cap BadItems = {}
  BY DEF CallInv, TypeOK
<1>8. (db \ InDoubt)' = db \ InDoubt \/ Outcome!Stored({i})
  BY <1>1, <1>4, <1>6, <1>7 DEF Outcome!Stored
<1>9. i \in Unsettled /\ Unsettled' = Unsettled \ {i}
  BY <1>1, <1>2, <1>3 DEF Unsettled, Calls
<1>10. phase' = "done" <=> Unsettled' = {}
  BY <1>2 DEF PhaseInv, Unsettled
<1> QED  BY <1>1, <1>2, <1>8, <1>9, <1>10 DEF Outcome!ItemInsert

(* Every step of BatchRetry is a step of BatchOutcome or invisible.         *)
LEMMA OutcomeStep ==
    CallInv /\ CancelInv /\ DoubtInv /\ [Next]_vars => [Outcome!Next]_Outcome!vars
<1> SUFFICES ASSUME CallInv, DoubtInv, [Next]_vars
             PROVE  [Outcome!Next]_Outcome!vars
  OBVIOUS
<1>0. call \in [Calls -> CallState]
  BY DEF CallInv, TypeOK
<1>1. CASE UNCHANGED vars
  BY <1>1, InvisibleStep DEF vars
<1>2. ASSUME NEW c \in Calls, BackoffOver(c) \/ BackoffCancelled(c)
      PROVE  UNCHANGED Outcome!vars
  <2>1. \A d \in Calls : call[d] = "settled" <=> call'[d] = "settled"
    BY <1>0, <1>2 DEF BackoffOver, BackoffCancelled
  <2> QED  BY <1>2, <2>1, InvisibleStep DEF BackoffOver, BackoffCancelled
<1>3. ASSUME NEW i \in Items, Acquire(i) PROVE UNCHANGED Outcome!vars
  <2>1. \A d \in Calls : call[d] = "settled" <=> call'[d] = "settled"
    BY <1>0, <1>3 DEF Acquire, Calls
  <2> QED  BY <1>3, <2>1, InvisibleStep DEF Acquire
<1>4. CASE Cancel
  <2>1. InDoubt' = InDoubt /\ Unsettled' = Unsettled
    BY <1>4 DEF Cancel, InDoubt, Unsettled
  <2> QED  BY <1>4, <2>1 DEF Cancel, Outcome!Cancel, Outcome!Next
<1>5. ASSUME NEW i \in Items, GiveUp(i) PROVE Outcome!Next
  BY <1>5, OutcomeOfGiveUp DEF Outcome!Next
<1>6. CASE FallBack
  BY <1>6, OutcomeOfFallBack DEF Outcome!Next
<1> QED  BY <1>1, <1>2, <1>3, <1>4, <1>5, <1>6, OutcomeOfOK, OutcomeOfError
           DEF Next, RetryStep, CallStep

(* BatchRetry implements BatchOutcome, the one-step inserts that the event  *)
(* queue is modelled with: for any batch, whatever is retried, cancelled or *)
(* committed in doubt, flush sees the batch stored whole or each item       *)
(* stored or dead-lettered on its own.                                     *)
THEOREM Implementation == Spec => ImplementsOutcome
<1>1. Init => DoubtInv /\ Outcome!Init
  <2> SUFFICES ASSUME Init PROVE DoubtInv /\ Outcome!Init
    OBVIOUS
  <2>1. InDoubt = {}
    BY DEF Init, InDoubt
  <2> QED  BY <2>1, RetryAssumption DEF Init, DoubtInv, Outcome!Init, Waits, Calls
<1> QED  BY <1>1, DoubtInvNext, OutcomeStep, CallInvariant, PTL
         DEF Spec, ImplementsOutcome, Outcome!Spec
-----------------------------------------------------------------------------
(* Why BatchRetry returns: until it does some call can go on, and every     *)
(* step moves a call forward over a bounded number of places.              *)

(* A guard of some step of WithRetry or BatchRetry holds: an attempt can    *)
(* end (with an error at least), a timer fire, the fallback begin, an item  *)
(* give up or get a slot.                                                  *)
Runnable ==
    \/ \E c \in Calls : call[c] \in {"trying", "backoff"}
    \/ phase = "batch" /\ call[Batch] = "failed"
    \/ \E i \in Items : call[i] = "failed"
    \/ \E i \in Items : call[i] = "queued" /\ Cardinality(Holding) < MaxParallel

(* Until BatchRetry returns some goroutine can take a step: items that wait *)
(* for a slot of sem never wait for each other, for any number of slots.   *)
THEOREM NeverStuck == Spec => [](phase # "done" => Runnable)
<1>1. CallInv /\ CancelInv => (phase # "done" => Runnable)
  <2> SUFFICES ASSUME CallInv, phase # "done" PROVE Runnable
    OBVIOUS
  <2>0. PhaseInv /\ phase \in {"batch", "items"} /\ call \in [Calls -> CallState]
    BY DEF CallInv, TypeOK
  <2>1. CASE phase = "batch"
    BY <2>0, <2>1 DEF PhaseInv, Runnable, Calls
  <2>2. CASE phase = "items"
    <3>1. PICK i \in Items : call[i] \in {"queued", "trying", "backoff", "failed"}
      BY <2>0, <2>2 DEF PhaseInv, CallState, Calls
    <3>2. CASE Holding # {}
      BY <3>2 DEF Holding, Runnable, Calls
    <3>3. CASE Holding = {}
      <4>1. Cardinality(Holding) < MaxParallel
        BY <3>3, FS_EmptySet, RetryAssumption
      <4>2. call[i] = "queued"
        BY <3>1, <3>3 DEF Holding
      <4> QED  BY <4>1, <4>2 DEF Runnable
    <3> QED  BY <3>2, <3>3
  <2> QED  BY <2>0, <2>1, <2>2
<1> QED  BY <1>1, CallInvariant, PTL

(* How far a call has got.                                                 *)
Place(c) ==
    CASE call[c] = "idle"    -> 0
      [] call[c] = "queued"  -> 1
      [] call[c] = "trying"  -> 2 * attempts[c] + 2
      [] call[c] = "backoff" -> 2 * attempts[c] + 1
      [] call[c] = "failed"  -> 2 * MaxAttempts + 1
      [] call[c] = "settled" -> 2 * MaxAttempts + 2

Forward ==
    /\ \A c \in Calls : Place(c)' >= Place(c)
    /\ \E c \in Calls : Place(c)' > Place(c)

(* The places of a call are numbered from 0 to 2 * MaxAttempts + 2.         *)
LEMMA PlaceBounded ==
    ASSUME CallInv, NEW c \in Calls
    PROVE  Place(c) \in 0..(2 * MaxAttempts + 2)
<1>1. call[c] \in CallState /\ attempts[c] \in 0..MaxAttempts /\ MaxAttempts \in Nat
  BY RetryAssumption DEF CallInv, TypeOK
<1>2. call[c] \in {"trying", "backoff"} => attempts[c] < MaxAttempts
  BY DEF CallInv, AttemptInv
<1> QED  BY <1>1, <1>2 DEF Place, CallState

(* One call moves ahead and the others stay.                               *)
LEMMA OneMovesForward ==
    ASSUME CallInv, NEW c \in Calls, Place(c)' \in Nat, Place(c)' > Place(c),
           \A d \in Calls \ {c} : UNCHANGED <<call[d], attempts[d]>>
    PROVE  Forward
<1>1. ASSUME NEW d \in Calls, d # c PROVE Place(d)' = Place(d)
  BY <1>1 DEF Place
<1>2. \A d \in Calls : Place(d) \in Int
  BY PlaceBounded, RetryAssumption
<1> QED  BY <1>1, <1>2 DEF Forward

(* Every step but the cancellation moves BatchRetry forward.                *)
LEMMA ForwardStep == CallInv /\ CancelInv /\ RetryStep => Forward
<1> SUFFICES ASSUME CallInv, CancelInv, RetryStep PROVE Forward
  OBVIOUS
<1> USE RetryAssumption
<1>0. /\ call \in [Calls -> CallState] /\ attempts \in [Calls -> 0..MaxAttempts]
      /\ AttemptInv /\ PhaseInv /\ MaxAttempts \in Nat
  BY DEF CallInv, TypeOK
<1>1. ASSUME NEW c \in Calls, call[c] = "trying", CountAttempt(c),
             NEW s \in {"settled", "failed", "backoff"},
             call' = [call EXCEPT ![c] = s]
      PROVE  Forward
  <2>1. attempts'[c] = attempts[c] + 1 /\ attempts[c] \in Nat /\ attempts[c] < MaxAttempts
    BY <1>0, <1>1, CountAttemptType
  <2>2. call'[c] = s
    BY <1>0, <1>1
  <2>3. Place(c)' \in Nat /\ Place(c)' > Place(c)
    BY <1>0, <1>1, <2>1, <2>2 DEF Place
  <2>4. \A d \in Calls \ {c} : UNCHANGED <<call[d], attempts[d]>>
    BY <1>0, <1>1 DEF CountAttempt
  <2> QED  BY <2>3, <2>4, OneMovesForward
<1>2. ASSUME NEW c \in Calls, AttemptOK(c) PROVE Forward
  BY <1>1, <1>2 DEF AttemptOK, SettleCall
<1>3. ASSUME NEW c \in Calls, AttemptError(c) PROVE Forward
  <2>1. AfterError(c) \in {"failed", "backoff"}
    BY DEF AfterError
  <2> QED  BY <1>1, <1>3, <2>1 DEF AttemptError
<1>4. ASSUME NEW c \in Calls, BackoffOver(c) \/ BackoffCancelled(c) PROVE Forward
  <2>1. /\ call[c] = "backoff" /\ attempts' = attempts
        /\ \E s \in {"trying", "failed"} : call' = [call EXCEPT ![c] = s]
    BY <1>4 DEF BackoffOver, BackoffCancelled
  <2>2. attempts[c] \in Nat /\ attempts[c] < MaxAttempts /\ call'[c] \in {"trying", "failed"}
    BY <1>0, <2>1 DEF AttemptInv
  <2>3. Place(c)' \in Nat /\ Place(c)' > Place(c)
    BY <1>0, <2>1, <2>2 DEF Place
  <2>4. \A d \in Calls \ {c} : UNCHANGED <<call[d], attempts[d]>>
    BY <1>0, <2>1
  <2> QED  BY <2>3, <2>4, OneMovesForward
<1>5. CASE FallBack
  <2>1. \A i \in Items : Place(i) = 0 /\ Place(i)' = 1
    BY <1>0, <1>5 DEF FallBack, PhaseInv, Place, Calls
  <2>2. Place(Batch) = 2 * MaxAttempts + 1 /\ Place(Batch)' = 2 * MaxAttempts + 2
    BY <1>0, <1>5 DEF FallBack, Place, Calls
  <2> QED  BY <1>0, <2>1, <2>2 DEF Forward, Calls
<1>6. ASSUME NEW i \in Items, Acquire(i) PROVE Forward
  <2>1. /\ i \in Calls /\ call[i] = "queued" /\ call' = [call EXCEPT ![i] = "trying"]
        /\ attempts' = attempts
    BY <1>6 DEF Acquire, Calls
  <2>2. attempts[i] \in Nat /\ call'[i] = "trying"
    BY <1>0, <2>1
  <2>3. Place(i)' \in Nat /\ Place(i)' > Place(i)
    BY <2>1, <2>2 DEF Place
  <2>4. \A d \in Calls \ {i} : UNCHANGED <<call[d], attempts[d]>>
    BY <1>0, <2>1
  <2> QED  BY <2>1, <2>3, <2>4, OneMovesForward
<1>7. ASSUME NEW i \in Items, GiveUp(i) PROVE Forward
  <2>1. /\ i \in Calls /\ call[i] = "failed" /\ call' = [call EXCEPT ![i] = "settled"]
        /\ attempts' = attempts
    BY <1>7 DEF GiveUp, SettleCall, Calls
  <2>2. call'[i] = "settled"
    BY <1>0, <2>1
  <2>3. Place(i)' \in Nat /\ Place(i)' > Place(i)
    BY <1>0, <2>1, <2>2 DEF Place
  <2>4. \A d \in Calls \ {i} : UNCHANGED <<call[d], attempts[d]>>
    BY <1>0, <2>1
  <2> QED  BY <2>1, <2>3, <2>4, OneMovesForward
<1> QED  BY <1>2, <1>3, <1>4, <1>5, <1>6, <1>7 DEF RetryStep, CallStep

(* Every step of WithRetry or BatchRetry moves one call forward and none    *)
(* back, over 2 * MaxAttempts + 3 places: BatchRetry makes a bounded number *)
(* of steps, whatever PostgreSQL answers and whenever it is cancelled.     *)
THEOREM StepsAreBounded ==
    Spec => /\ [](\A c \in Calls : Place(c) \in 0..(2 * MaxAttempts + 2))
            /\ [][RetryStep => Forward]_vars
<1>1. CallInv /\ CancelInv => \A c \in Calls : Place(c) \in 0..(2 * MaxAttempts + 2)
  BY PlaceBounded
<1>2. CallInv /\ CancelInv /\ [Next]_vars => [RetryStep => Forward]_vars
  BY ForwardStep
<1> QED  BY <1>1, <1>2, CallInvariant, PTL DEF Spec
=============================================================================
