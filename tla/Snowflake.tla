----------------------------- MODULE Snowflake -----------------------------
(***************************************************************************)
(* The event ID generators (internal/snowflake): several processes, each   *)
(* with one generator behind a mutex, on hosts that share a wall clock.    *)
(* The clock advances, may be stepped back, and a process that restarts    *)
(* forgets lastTime.                                                       *)
(***************************************************************************)
EXTENDS Integers, FiniteSets

CONSTANTS
    Generators,        \* processes: the API server, the seeder, replicas
    NoID,              \* "no ID returned yet"
    NodeID,            \* the node number each of them is configured with
    MaxNodeID,         \* 2^NodeIDBits - 1
    MaxSequence,       \* 2^SequenceBits - 1
    MaxTimestamp,      \* 2^TimestampBits - 1
    Epoch,
    MaxClock,          \* bound: the last millisecond
    ClockKept          \* whether the wall clock is never set back to a time
                       \* that a process used before it restarted

(* New refuses a nodeID outside this range.                                 *)
ASSUME NodeAssumption == NodeID \in [Generators -> 0..MaxNodeID]

ASSUME SizeAssumption ==
    /\ MaxNodeID \in Nat /\ MaxSequence \in Nat /\ MaxTimestamp \in Nat
    /\ Epoch \in Nat
    /\ NoID \notin Int
    /\ MaxClock \in Nat
    /\ ClockKept \in BOOLEAN

VARIABLES
    clock,     \* time.Now().UnixMilli()
    lastTime,  \* s.lastTime of each generator
    sequence,  \* s.sequence
    pc,        \* "idle", or "spin": a Generate holds the mutex and waits
    result,    \* how the last Generate ended
    forgotten, \* history: the latest lastTime that its restarts have lost
    lastID,    \* history: the last ID it returned, in this life or before
    issued,    \* history: every ID returned by any generator
    generated  \* history: how many times an ID was returned

vars == <<clock, lastTime, sequence, pc, result, forgotten, lastID, issued,
          generated>>

Results == {"none", "ok", "ErrBackwardsTime", "ErrTimestampOverflow"}

(* (t << TimestampShift) | (n << NodeIDShift) | s, for s and n in range.    *)
NodeSpan == MaxNodeID + 1
SequenceSpan == MaxSequence + 1
ID(t, n, s) == (t * NodeSpan + n) * SequenceSpan + s

ParseWithEpoch(id, epoch) ==
    <<(id \div SequenceSpan) \div NodeSpan + epoch,
      (id \div SequenceSpan) % NodeSpan,
      id % SequenceSpan>>
-----------------------------------------------------------------------------
Init ==
    /\ clock = 1
    /\ lastTime = [g \in Generators |-> 0]
    /\ sequence = [g \in Generators |-> 0]
    /\ pc = [g \in Generators |-> "idle"]
    /\ result = [g \in Generators |-> "none"]
    /\ forgotten = [g \in Generators |-> 0]
    /\ lastID = [g \in Generators |-> NoID]
    /\ issued = {}
    /\ generated = 0

(* The end of Generate, from s.lastTime = now on.                           *)
OverflowsNever(timeSinceEpoch) == FALSE
Overflows(timeSinceEpoch) == timeSinceEpoch > MaxTimestamp

Issue(g, now, seq) ==
    LET timeSinceEpoch == now - Epoch
        id == ID(timeSinceEpoch, NodeID[g], seq)
    IN
    /\ sequence' = [sequence EXCEPT ![g] = seq]
    /\ lastTime' = [lastTime EXCEPT ![g] = now]
    /\ pc' = [pc EXCEPT ![g] = "idle"]
    /\ \/ /\ Overflows(timeSinceEpoch)
          /\ result' = [result EXCEPT ![g] = "ErrTimestampOverflow"]
          /\ UNCHANGED <<lastID, issued, generated>>
       \/ /\ ~Overflows(timeSinceEpoch)
          /\ result' = [result EXCEPT ![g] = "ok"]
          /\ lastID' = [lastID EXCEPT ![g] = id]
          /\ issued' = issued \cup {id}
          /\ generated' = generated + 1

NextSequenceUnmasked(g) == sequence[g] + 1
NextSequence(g) == (sequence[g] + 1) % SequenceSpan

MovedBackIgnored(g) == FALSE
MovedBack(g) == clock < lastTime[g]

GenerateBackwards(g) ==
    /\ pc[g] = "idle"
    /\ MovedBack(g)
    /\ result' = [result EXCEPT ![g] = "ErrBackwardsTime"]
    /\ UNCHANGED <<clock, lastTime, sequence, pc, forgotten, lastID, issued,
                   generated>>

GenerateSameTime(g) ==
    /\ pc[g] = "idle"
    /\ ~MovedBack(g)
    /\ clock = lastTime[g]
    /\ NextSequence(g) # 0
    /\ Issue(g, clock, NextSequence(g))
    /\ UNCHANGED <<clock, forgotten>>

(* The sequence is used up: reset it and wait for the next millisecond.     *)
GenerateExhausted(g) ==
    /\ pc[g] = "idle"
    /\ ~MovedBack(g)
    /\ clock = lastTime[g]
    /\ NextSequence(g) = 0
    /\ sequence' = [sequence EXCEPT ![g] = 0]
    /\ pc' = [pc EXCEPT ![g] = "spin"]
    /\ UNCHANGED <<clock, lastTime, result, forgotten, lastID, issued, generated>>

GenerateNewTime(g) ==
    /\ pc[g] = "idle"
    /\ ~MovedBack(g)
    /\ clock # lastTime[g]
    /\ Issue(g, clock, 0)
    /\ UNCHANGED <<clock, forgotten>>

(* The loop "for now <= s.lastTime" ends.                                   *)
SpinOverAtOnce(g) == clock >= lastTime[g]
SpinOver(g) == clock > lastTime[g]

Spin(g) ==
    /\ pc[g] = "spin"
    /\ SpinOver(g)
    /\ Issue(g, clock, 0)
    /\ UNCHANGED <<clock, forgotten>>

(* The environment: the wall clock, and restarts.                           *)
onlyClock ==
    UNCHANGED <<lastTime, sequence, pc, result, forgotten, lastID, issued,
                generated>>

Tick ==
    /\ clock < MaxClock
    /\ clock' = clock + 1
    /\ onlyClock

StepBack ==
    /\ clock' \in 1..(clock - 1)
    /\ ClockKept => \A g \in Generators : clock' > forgotten[g]
    /\ onlyClock

(* NewWithEpoch in a new process, which takes at least a millisecond: the    *)
(* position of the old one is forgotten.                                   *)
Restart(g) ==
    /\ clock < MaxClock
    /\ ClockKept => lastTime[g] <= clock
    /\ clock' = clock + 1
    /\ forgotten' = [forgotten EXCEPT ![g] =
                        IF lastTime[g] > forgotten[g] THEN lastTime[g] ELSE forgotten[g]]
    /\ lastTime' = [lastTime EXCEPT ![g] = 0]
    /\ sequence' = [sequence EXCEPT ![g] = 0]
    /\ pc' = [pc EXCEPT ![g] = "idle"]
    /\ result' = [result EXCEPT ![g] = "none"]
    /\ UNCHANGED <<lastID, issued, generated>>

Generate(g) ==
    \/ GenerateBackwards(g)
    \/ GenerateSameTime(g)
    \/ GenerateExhausted(g)
    \/ GenerateNewTime(g)
    \/ Spin(g)

Next ==
    \/ \E g \in Generators : Generate(g) \/ Restart(g)
    \/ Tick
    \/ StepBack

Spec == Init /\ [][Next]_vars
-----------------------------------------------------------------------------
(* What uniqueness depends on besides ClockKept: nobody else uses the node  *)
(* number.                                                                 *)
UniqueNodes == \A g, h \in Generators : NodeID[g] = NodeID[h] => g = h

(* Types; in particular the sequence always fits its bits.                  *)
TypeOK ==
    /\ clock \in Nat
    /\ lastTime \in [Generators -> Nat]
    /\ sequence \in [Generators -> 0..MaxSequence]
    /\ pc \in [Generators -> {"idle", "spin"}]
    /\ result \in [Generators -> Results]
    /\ forgotten \in [Generators -> Nat]
    /\ lastID \in [Generators -> Int \cup {NoID}]
    /\ issued \subseteq Int /\ IsFiniteSet(issued)
    /\ generated \in Nat

(* No ID is ever returned twice: not by one generator whose sequence wraps  *)
(* or whose clock is stepped back, nor by two of them.                     *)
NoDuplicates == Cardinality(issued) = generated

(* The IDs of one generator increase, so that events sort by creation: over *)
(* a clock that is set back, or over a restart.                            *)
Increasing ==
    [][\A g \in Generators :
         lastID[g] # NoID /\ lastID'[g] # lastID[g] => lastID'[g] > lastID[g]]_vars

(* An ID that was just returned parses back to its time, node and sequence  *)
(* and does not overflow the layout.  It is non-negative, so that it fits   *)
(* the 63 bits and sorts after zero, exactly when the clock had reached the *)
(* epoch: before it Generate returns a negative ID and no error.           *)
ParseRecovers ==
    \A g \in Generators :
        result[g] = "ok" /\ pc[g] = "idle" =>
            /\ ParseWithEpoch(lastID[g], Epoch) = <<lastTime[g], NodeID[g], sequence[g]>>
            /\ lastID[g] < (MaxTimestamp + 1) * NodeSpan * SequenceSpan
            /\ lastID[g] >= 0 <=> lastTime[g] >= Epoch
=============================================================================
