-------------------------- MODULE SnowflakeProofs --------------------------
(***************************************************************************)
(* IDs are unique and increasing for any number of generators with         *)
(* distinct nodes and any field widths, as long as the clock is not set    *)
(* back to a time that a restarted process has used.                       *)
(***************************************************************************)
EXTENDS Snowflake, FiniteSetTheorems, TLAPS
-----------------------------------------------------------------------------
(* The encoding.                                                           *)

(* Multiplying by a field width preserves the order of integers.            *)
LEMMA MultiplyMonotonic ==
    ASSUME NEW a \in Int, NEW b \in Int, a <= b, NEW k \in Nat
    PROVE  a * k <= b * k
<1>1. (b - a) * k >= 0
  BY SMT
<1> QED  BY <1>1, SMT

(* A larger leading field outweighs whatever the lower field holds.         *)
LEMMA FieldOrder ==
    ASSUME NEW a \in Int, NEW b \in Int, a < b, NEW span \in Nat,
           NEW x \in 0..(span - 1), NEW y \in 0..(span - 1)
    PROVE  a * span + x < b * span + y
<1>1. (a + 1) * span <= b * span
  BY MultiplyMonotonic
<1>2. (a + 1) * span = a * span + span
  BY SMT
<1>3. a * span \in Int /\ b * span \in Int
  BY SMT
<1> HIDE DEF SequenceSpan
<1> QED  BY <1>1, <1>2, <1>3, SMT

(* The widths of the fields of an ID are positive naturals.                *)
LEMMA SpanTypes ==
    /\ NodeSpan \in Nat /\ SequenceSpan \in Nat
    /\ 0..(NodeSpan - 1) = 0..MaxNodeID
    /\ 0..(SequenceSpan - 1) = 0..MaxSequence
    /\ NodeSpan > 0 /\ SequenceSpan > 0
BY SizeAssumption DEF NodeSpan, SequenceSpan

(* The ID of any time, node and sequence is an integer.                     *)
LEMMA IDType ==
    ASSUME NEW t \in Int, NEW n \in 0..MaxNodeID, NEW s \in 0..MaxSequence
    PROVE  t * NodeSpan + n \in Int /\ ID(t, n, s) \in Int
<1>1. t * NodeSpan + n \in Int
  BY SpanTypes, SizeAssumption
<1>2. \A a \in Int : a * SequenceSpan + s \in Int
  BY SpanTypes, SizeAssumption
<1> QED  BY <1>1, <1>2 DEF ID

(* Two IDs are equal only if their times, nodes and sequences are.          *)
LEMMA IDInjective ==
    ASSUME NEW t \in Int, NEW n \in 0..MaxNodeID, NEW s \in 0..MaxSequence,
           NEW u \in Int, NEW m \in 0..MaxNodeID, NEW r \in 0..MaxSequence,
           ID(t, n, s) = ID(u, m, r)
    PROVE  t = u /\ n = m /\ s = r
<1> DEFINE a == t * NodeSpan + n
           b == u * NodeSpan + m
<1>1. a \in Int /\ b \in Int
  BY IDType
<1>2. a * SequenceSpan + s = b * SequenceSpan + r
  BY DEF ID
<1>0. /\ s \in 0..(SequenceSpan - 1) /\ r \in 0..(SequenceSpan - 1)
      /\ n \in 0..(NodeSpan - 1) /\ m \in 0..(NodeSpan - 1)
      /\ SequenceSpan \in Nat /\ NodeSpan \in Nat
  BY SpanTypes
<1>3. a = b /\ s = r
  <2> HIDE DEF a, b
  <2>1. ~(a < b) /\ ~(b < a)
    BY <1>0, <1>1, <1>2, FieldOrder
  <2>2. a = b /\ a * SequenceSpan \in Int
    BY <1>0, <1>1, <2>1
  <2> QED  BY <1>0, <1>2, <2>2
<1>4. t = u /\ n = m
  <2>1. t * NodeSpan + n = u * NodeSpan + m
    BY <1>3
  <2>2. ~(t < u) /\ ~(u < t)
    BY <1>0, <2>1, FieldOrder
  <2>3. t = u /\ t * NodeSpan \in Int
    BY <1>0, <2>2
  <2> QED  BY <1>0, <2>1, <2>3
<1> QED  BY <1>3, <1>4

(* A later time, or a larger sequence at the same time, gives a larger ID.  *)
LEMMA IDOrder ==
    ASSUME NEW t \in Int, NEW u \in Int, NEW n \in 0..MaxNodeID,
           NEW s \in 0..MaxSequence, NEW r \in 0..MaxSequence,
           t < u \/ (t = u /\ s < r)
    PROVE  ID(t, n, s) < ID(u, n, r)
<1> DEFINE a == t * NodeSpan + n
           b == u * NodeSpan + n
<1>1. a \in Int /\ b \in Int
  BY IDType
<1>2. CASE t < u
  <2>1. a < b
    BY <1>2, FieldOrder, SpanTypes
  <2>2. a * SequenceSpan + s < b * SequenceSpan + r
    <3> HIDE DEF a, b
    <3> QED  BY <1>1, <2>1, FieldOrder, SpanTypes
  <2> QED  BY <2>2 DEF ID
<1>3. CASE t = u /\ s < r
  <2>1. \A c \in Int : c * SequenceSpan + s < c * SequenceSpan + r
    <3> SUFFICES ASSUME NEW c \in Int
                 PROVE  c * SequenceSpan + s < c * SequenceSpan + r
      OBVIOUS
    <3>1. c * SequenceSpan \in Int
      BY SpanTypes
    <3> QED  BY <1>3, <3>1, SizeAssumption
  <2> QED  BY <1>1, <1>3, <2>1 DEF ID
<1> QED  BY <1>2, <1>3
-----------------------------------------------------------------------------
(* Types.                                                                  *)

(* Masking the incremented sequence: it wraps to 0 or is one larger.        *)
LEMMA NextSequenceValue ==
    ASSUME NEW x \in 0..MaxSequence
    PROVE  /\ (x + 1) % SequenceSpan \in 0..MaxSequence
           /\ (x + 1) % SequenceSpan \in {0, x + 1}
<1>1. SequenceSpan \in Nat /\ SequenceSpan > 0 /\ SequenceSpan = MaxSequence + 1
  BY SizeAssumption DEF SequenceSpan
<1>2. CASE x + 1 < SequenceSpan
  BY <1>1, <1>2, SizeAssumption
<1>3. CASE x + 1 = SequenceSpan
  BY <1>1, <1>3, SizeAssumption
<1> QED  BY <1>1, <1>2, <1>3, SizeAssumption

(* Issuing an ID, or refusing to because the time has overflowed, keeps the *)
(* types of a generator.                                                   *)
LEMMA IssueType ==
    ASSUME TypeOK, NEW g \in Generators, NEW now \in Nat,
           NEW seq \in 0..MaxSequence, Issue(g, now, seq)
    PROVE  /\ lastTime' \in [Generators -> Nat]
           /\ sequence' \in [Generators -> 0..MaxSequence]
           /\ pc' \in [Generators -> {"idle", "spin"}]
           /\ result' \in [Generators -> Results]
           /\ lastID' \in [Generators -> Int \cup {NoID}]
           /\ issued' \subseteq Int /\ IsFiniteSet(issued')
           /\ generated' \in Nat
<1>1. ID(now - Epoch, NodeID[g], seq) \in Int
  BY IDType, NodeAssumption, SizeAssumption
<1>2. IsFiniteSet(issued')
  BY FS_AddElement DEF Issue, TypeOK
<1>3. issued' \subseteq Int
  BY <1>1 DEF Issue, TypeOK
<1>4. generated' \in Nat
  BY DEF Issue, TypeOK
<1>5. lastID' \in [Generators -> Int \cup {NoID}]
  BY <1>1 DEF Issue, TypeOK
<1> QED  BY <1>2, <1>3, <1>4, <1>5 DEF Issue, TypeOK, Results

(* The state of every generator keeps its types: in particular the sequence *)
(* always fits its bits, over wraps, spins and restarts.                   *)
THEOREM TypeCorrect == Spec => []TypeOK
<1>1. Init => TypeOK
  BY FS_EmptySet, SizeAssumption DEF Init, TypeOK, Results
<1>2. TypeOK /\ [Next]_vars => TypeOK'
  <2> SUFFICES ASSUME TypeOK, [Next]_vars PROVE TypeOK'
    OBVIOUS
  <2>1. CASE UNCHANGED vars
    BY <2>1 DEF vars, TypeOK
  <2>2. CASE Tick \/ StepBack
    <3>1. clock' \in Nat
      BY <2>2 DEF Tick, StepBack, onlyClock, TypeOK
    <3> QED  BY <2>2, <3>1 DEF Tick, StepBack, onlyClock, TypeOK
  <2>3. ASSUME NEW g \in Generators, Restart(g) PROVE TypeOK'
    BY <2>3, SizeAssumption DEF Restart, TypeOK, Results
  <2>4. ASSUME NEW g \in Generators, GenerateBackwards(g) \/ GenerateExhausted(g)
        PROVE  TypeOK'
    <3>1. CASE GenerateBackwards(g)
      BY <3>1 DEF GenerateBackwards, TypeOK, Results
    <3>2. CASE GenerateExhausted(g)
      BY <3>2, SizeAssumption DEF GenerateExhausted, TypeOK
    <3> QED  BY <2>4, <3>1, <3>2
  <2>5. ASSUME NEW g \in Generators, GenerateSameTime(g) PROVE TypeOK'
    <3>1. NextSequence(g) \in 0..MaxSequence
      BY NextSequenceValue DEF NextSequence, TypeOK
    <3>2. Issue(g, clock, NextSequence(g)) /\ UNCHANGED <<clock, forgotten>> /\ clock \in Nat
      BY <2>5 DEF GenerateSameTime, TypeOK
    <3> QED  BY <3>1, <3>2, IssueType DEF TypeOK
  <2>6. ASSUME NEW g \in Generators, GenerateNewTime(g) \/ Spin(g) PROVE TypeOK'
    <3>1. Issue(g, clock, 0) /\ UNCHANGED <<clock, forgotten>> /\ clock \in Nat
      BY <2>6 DEF GenerateNewTime, Spin, TypeOK
    <3>2. 0 \in 0..MaxSequence
      BY SizeAssumption
    <3> QED  BY <3>1, <3>2, IssueType DEF TypeOK
  <2> QED  BY <2>1, <2>2, <2>3, <2>4, <2>5, <2>6 DEF Next, Generate
<1> QED  BY <1>1, <1>2, PTL DEF Spec
-----------------------------------------------------------------------------
(* Uniqueness.  Every ID ever returned lies at or below the position        *)
(* (lastTime, sequence) of its generator, or at a time that its restarts    *)
(* have forgotten, which the clock is past for good.                       *)

Below(g, t, s) ==
    \/ t < lastTime[g]
    \/ t = lastTime[g] /\ (s <= sequence[g] \/ pc[g] = "spin")
    \/ t <= forgotten[g]

UsedBy(g, id) ==
    \E t \in Nat, s \in 0..MaxSequence :
        id = ID(t - Epoch, NodeID[g], s) /\ Below(g, t, s)

ClockInv == \A g \in Generators : forgotten[g] < clock

UsedInv ==
    /\ \A id \in issued : \E g \in Generators : UsedBy(g, id)
    /\ \A g \in Generators : lastID[g] # NoID => UsedBy(g, lastID[g])

IDInv == ClockInv /\ UsedInv /\ NoDuplicates

(* The clock is past every time that a restart has forgotten.               *)
LEMMA ClockInvNext ==
    ASSUME ClockKept
    PROVE  TypeOK /\ ClockInv /\ [Next]_vars => ClockInv'
<1> SUFFICES ASSUME TypeOK, ClockInv, [Next]_vars PROVE ClockInv'
  OBVIOUS
<1>1. CASE UNCHANGED vars
  BY <1>1 DEF vars, ClockInv
<1>2. CASE Tick \/ StepBack
  BY <1>2 DEF Tick, StepBack, onlyClock, ClockInv, TypeOK
<1>3. ASSUME NEW g \in Generators, Restart(g) PROVE ClockInv'
  BY <1>3 DEF Restart, ClockInv, TypeOK
<1>4. ASSUME NEW g \in Generators, Generate(g) PROVE ClockInv'
  BY <1>4 DEF Generate, GenerateBackwards, GenerateSameTime,
     GenerateExhausted, GenerateNewTime, Spin, ClockInv
<1> QED  BY <1>1, <1>2, <1>3, <1>4 DEF Next

(* The position an ID is issued at lies above everything used before.       *)
Above(g, now, seq) ==
    \A t \in Nat, s \in 0..MaxSequence :
        Below(g, t, s) => t < now \/ (t = now /\ s < seq)

(* Generate either issues an ID above its past, at the time on the clock,   *)
(* or returns none and keeps its past below its position.                  *)
LEMMA GenerateIssuesAbove ==
    ASSUME TypeOK, ClockInv, NEW g \in Generators, Generate(g)
    PROVE  \/ /\ \E seq \in 0..MaxSequence : Issue(g, clock, seq) /\ Above(g, clock, seq)
              /\ UNCHANGED <<clock, forgotten>>
           \/ /\ UNCHANGED <<lastID, issued, generated>>
              /\ \A h \in Generators, t \in Nat, s \in 0..MaxSequence :
                     Below(h, t, s) => Below(h, t, s)'
<1>0. 0 \in 0..MaxSequence /\ clock \in Nat /\ lastTime[g] \in Nat
      /\ sequence[g] \in 0..MaxSequence
  BY SizeAssumption DEF TypeOK
<1>1. CASE GenerateBackwards(g)
  BY <1>1 DEF GenerateBackwards, Below
<1>2. CASE GenerateSameTime(g)
  <2>1. /\ NextSequence(g) \in 0..MaxSequence
        /\ NextSequence(g) = sequence[g] + 1
    BY <1>0, <1>2, NextSequenceValue DEF GenerateSameTime, NextSequence
  <2>2. pc[g] = "idle" /\ clock = lastTime[g]
    BY <1>2 DEF GenerateSameTime
  <2>3. Above(g, clock, NextSequence(g))
    BY <1>0, <2>1, <2>2 DEF Above, Below, ClockInv, TypeOK
  <2> QED  BY <1>2, <2>1, <2>3 DEF GenerateSameTime
<1>3. CASE GenerateExhausted(g)
  BY <1>0, <1>3 DEF GenerateExhausted, Below, TypeOK
<1>4. CASE GenerateNewTime(g) \/ Spin(g)
  <2>1. clock > lastTime[g]
    BY <1>0, <1>4 DEF GenerateNewTime, MovedBack, Spin, SpinOver
  <2>2. Above(g, clock, 0)
    BY <1>0, <2>1 DEF Above, Below, ClockInv, TypeOK
  <2> QED  BY <1>0, <1>4, <2>2 DEF GenerateNewTime, Spin
<1> QED  BY <1>1, <1>2, <1>3, <1>4 DEF Generate

(* What issuing above the past preserves.                                   *)
LEMMA IssueKeepsUsed ==
    ASSUME TypeOK, UniqueNodes, UsedInv, NoDuplicates,
           NEW g \in Generators, NEW seq \in 0..MaxSequence,
           Issue(g, clock, seq), Above(g, clock, seq), UNCHANGED <<clock, forgotten>>
    PROVE  /\ UsedInv' /\ NoDuplicates'
           /\ lastID[g] # NoID /\ lastID'[g] # lastID[g] => lastID'[g] > lastID[g]
           /\ \A h \in Generators : h # g => lastID'[h] = lastID[h]
<1> DEFINE id == ID(clock - Epoch, NodeID[g], seq)
<1>0. /\ clock \in Nat /\ clock - Epoch \in Int /\ Epoch \in Nat
      /\ NodeID[g] \in 0..MaxNodeID /\ NoID \notin Int
      /\ \A h \in Generators : NodeID[h] \in 0..MaxNodeID
  BY NodeAssumption, SizeAssumption DEF TypeOK
<1>1. id \in Int
  BY <1>0, IDType
<1>2. /\ lastTime' = [lastTime EXCEPT ![g] = clock]
      /\ sequence' = [sequence EXCEPT ![g] = seq]
      /\ pc' = [pc EXCEPT ![g] = "idle"]
  BY DEF Issue
<1>3. \A h \in Generators, t \in Nat, s \in 0..MaxSequence :
          Below(h, t, s) => Below(h, t, s)'
  <2> SUFFICES ASSUME NEW h \in Generators, NEW t \in Nat,
                      NEW s \in 0..MaxSequence, Below(h, t, s)
               PROVE  Below(h, t, s)'
    OBVIOUS
  <2>1. CASE h = g
    <3>1. t < clock \/ (t = clock /\ s < seq)
      BY <2>1 DEF Above
    <3>2. lastTime'[h] = clock /\ sequence'[h] = seq
      BY <1>2, <2>1 DEF TypeOK
    <3> QED  BY <1>0, <3>1, <3>2 DEF Below
  <2>2. CASE h # g
    BY <1>2, <2>2 DEF Below, TypeOK
  <2> QED  BY <2>1, <2>2
<1>4. Below(g, clock, seq)'
  BY <1>0, <1>2 DEF Below, TypeOK
<1>5. \A h \in Generators, i \in Int : UsedBy(h, i) => UsedBy(h, i)'
  BY <1>3 DEF UsedBy
<1>6. UsedBy(g, id)'
  BY <1>0, <1>4 DEF UsedBy
<1>7. id \notin issued
  <2> SUFFICES ASSUME id \in issued PROVE FALSE
    OBVIOUS
  <2>1. PICK h \in Generators : UsedBy(h, id)
    BY DEF UsedInv
  <2>2. PICK t \in Nat, s \in 0..MaxSequence :
            id = ID(t - Epoch, NodeID[h], s) /\ Below(h, t, s)
    BY <2>1 DEF UsedBy
  <2>3. t - Epoch \in Int
    BY <1>0
  <2>4. clock - Epoch = t - Epoch /\ NodeID[g] = NodeID[h] /\ seq = s
    BY <1>0, <2>2, <2>3, IDInjective
  <2>5. t = clock /\ h = g
    BY <1>0, <2>4 DEF UniqueNodes
  <2>6. t < clock \/ (t = clock /\ s < seq)
    BY <2>2, <2>5 DEF Above
  <2> QED  BY <1>0, <2>4, <2>5, <2>6
<1>8. ASSUME NEW t \in Nat, NEW s \in 0..MaxSequence, Below(g, t, s)
      PROVE  ID(t - Epoch, NodeID[g], s) < id
  <2>1. t < clock \/ (t = clock /\ s < seq)
    BY <1>8 DEF Above
  <2>2. t - Epoch \in Int /\ (t - Epoch < clock - Epoch \/ (t - Epoch = clock - Epoch /\ s < seq))
    BY <1>0, <2>1
  <2> QED  BY <1>0, <2>2, IDOrder
<1>9. CASE UNCHANGED <<lastID, issued, generated>>
  BY <1>5, <1>9 DEF UsedInv, NoDuplicates, TypeOK
<1>10. CASE /\ lastID' = [lastID EXCEPT ![g] = id]
            /\ issued' = issued \cup {id}
            /\ generated' = generated + 1
  <2>1. NoDuplicates'
    BY <1>7, <1>10, FS_AddElement DEF NoDuplicates, TypeOK
  <2>2. UsedInv'
    BY <1>1, <1>5, <1>6, <1>10 DEF UsedInv, TypeOK
  <2>3. lastID[g] # NoID => lastID'[g] > lastID[g]
    <3> SUFFICES ASSUME lastID[g] # NoID PROVE lastID'[g] > lastID[g]
      OBVIOUS
    <3>1. PICK t \in Nat, s \in 0..MaxSequence :
              lastID[g] = ID(t - Epoch, NodeID[g], s) /\ Below(g, t, s)
      BY DEF UsedInv, UsedBy
    <3>2. lastID[g] < id
      BY <1>8, <3>1
    <3>3. lastID[g] \in Int
      BY DEF TypeOK
    <3> QED  BY <1>1, <1>10, <3>2, <3>3 DEF TypeOK
  <2> QED  BY <1>10, <2>1, <2>2, <2>3 DEF TypeOK
<1> QED  BY <1>9, <1>10 DEF Issue

Grows ==
    \A g \in Generators :
        lastID[g] # NoID /\ lastID'[g] # lastID[g] => lastID'[g] > lastID[g]

(* A step that issues nothing, and keeps the past below, keeps UsedInv.     *)
LEMMA QuietKeepsUsed ==
    ASSUME UsedInv, NoDuplicates, UNCHANGED <<lastID, issued, generated>>,
           \A h \in Generators, t \in Nat, s \in 0..MaxSequence :
               Below(h, t, s) => Below(h, t, s)'
    PROVE  UsedInv' /\ NoDuplicates' /\ Grows
<1>1. \A h \in Generators : \A i : UsedBy(h, i) => UsedBy(h, i)'
  BY DEF UsedBy
<1> QED  BY <1>1 DEF UsedInv, NoDuplicates, Grows

(* Every step of a generator or of the clock keeps the IDs it has returned *)
(* below its position, and all returned IDs distinct.                      *)
LEMMA IDInvNext ==
    ASSUME UniqueNodes, ClockKept
    PROVE  TypeOK /\ IDInv /\ [Next]_vars => IDInv' /\ [Grows]_vars
<1> SUFFICES ASSUME TypeOK, IDInv, [Next]_vars PROVE IDInv' /\ [Grows]_vars
  OBVIOUS
<1>0. ClockInv /\ UsedInv /\ NoDuplicates /\ ClockInv'
  BY ClockInvNext DEF IDInv
<1>1. CASE UNCHANGED vars
  <2>1. \A h \in Generators, t \in Nat, s \in 0..MaxSequence :
            Below(h, t, s) => Below(h, t, s)'
    BY <1>1 DEF vars, Below
  <2> QED  BY <1>0, <1>1, <2>1, QuietKeepsUsed DEF vars, IDInv
<1>2. CASE Tick \/ StepBack
  <2>1. \A h \in Generators, t \in Nat, s \in 0..MaxSequence :
            Below(h, t, s) => Below(h, t, s)'
    BY <1>2 DEF Tick, StepBack, onlyClock, Below, TypeOK
  <2>2. UNCHANGED <<lastID, issued, generated>>
    BY <1>2 DEF Tick, StepBack, onlyClock
  <2> QED  BY <1>0, <2>1, <2>2, QuietKeepsUsed DEF IDInv
<1>3. ASSUME NEW g \in Generators, Restart(g) PROVE IDInv' /\ Grows
  <2>1. /\ lastTime[g] <= forgotten'[g] /\ forgotten[g] <= forgotten'[g]
        /\ {lastTime[g], forgotten[g], forgotten'[g]} \subseteq Nat
    BY <1>3 DEF Restart, TypeOK
  <2>2. \A h \in Generators :
            h # g => /\ lastTime'[h] = lastTime[h]
                     /\ sequence'[h] = sequence[h]
                     /\ pc'[h] = pc[h]
                     /\ forgotten'[h] = forgotten[h]
    BY <1>3 DEF Restart, TypeOK
  <2>3. \A h \in Generators, t \in Nat, s \in 0..MaxSequence :
            Below(h, t, s) => Below(h, t, s)'
    BY <2>1, <2>2 DEF Below
  <2>4. UNCHANGED <<lastID, issued, generated>>
    BY <1>3 DEF Restart
  <2> QED  BY <1>0, <2>3, <2>4, QuietKeepsUsed DEF IDInv
<1>4. ASSUME NEW g \in Generators, Generate(g) PROVE IDInv' /\ Grows
  <2>1. CASE /\ UNCHANGED <<lastID, issued, generated>>
             /\ \A h \in Generators, t \in Nat, s \in 0..MaxSequence :
                    Below(h, t, s) => Below(h, t, s)'
    BY <1>0, <2>1, QuietKeepsUsed DEF IDInv
  <2>2. ASSUME NEW seq \in 0..MaxSequence,
               Issue(g, clock, seq), Above(g, clock, seq), UNCHANGED <<clock, forgotten>>
        PROVE  IDInv' /\ Grows
    BY <1>0, <2>2, IssueKeepsUsed DEF IDInv, Grows
  <2> QED  BY <1>0, <1>4, <2>1, <2>2, GenerateIssuesAbove
<1> QED  BY <1>1, <1>2, <1>3, <1>4 DEF Next

(* Initially no ID has been returned.                                      *)
LEMMA IDInvInit == Init => IDInv
<1> SUFFICES ASSUME Init PROVE IDInv
  OBVIOUS
<1>1. Cardinality({}) = 0
  BY FS_EmptySet
<1> QED  BY <1>1 DEF Init, IDInv, ClockInv, UsedInv, NoDuplicates

(* Generators with distinct nodes never return the same ID, neither when    *)
(* the sequence wraps within a millisecond nor when the clock is set back   *)
(* nor over restarts, as long as ClockKept holds.                          *)
THEOREM UniqueIDs == UniqueNodes /\ ClockKept => (Spec => []NoDuplicates)
<1> SUFFICES ASSUME UniqueNodes, ClockKept PROVE Spec => []NoDuplicates
  OBVIOUS
<1>1. TypeOK /\ IDInv /\ [Next]_vars => IDInv'
  BY IDInvNext
<1>2. IDInv => NoDuplicates
  BY DEF IDInv
<1> QED  BY <1>1, <1>2, IDInvInit, TypeCorrect, PTL DEF Spec

(* The IDs of one generator increase, under the same conditions.            *)
THEOREM IDsIncrease == UniqueNodes /\ ClockKept => (Spec => Increasing)
<1> SUFFICES ASSUME UniqueNodes, ClockKept PROVE Spec => Increasing
  OBVIOUS
<1>1. TypeOK /\ IDInv /\ [Next]_vars => IDInv' /\ [Grows]_vars
  BY IDInvNext
<1>2. Increasing <=> [][Grows]_vars
  BY DEF Increasing, Grows
<1> QED  BY <1>1, <1>2, IDInvInit, TypeCorrect, PTL DEF Spec
-----------------------------------------------------------------------------
(* Parsing.  The fields of an ID are recovered by division, whatever the    *)
(* widths; the invariant ties the last ID to the position it came from.    *)

(* Division undoes the packing of one field.                                *)
LEMMA FieldDivision ==
    ASSUME NEW a \in Int, NEW span \in Nat, span > 0, NEW x \in 0..(span - 1)
    PROVE  (a * span + x) \div span = a /\ (a * span + x) % span = x
<1>1. a * span \in Int
  BY SMT
<1> DEFINE m == a * span + x
           q == m \div span
           r == m % span
<1>2. m \in Int
  BY <1>1
<1>3. q \in Int /\ r \in 0..(span - 1) /\ m = q * span + r
  <2> HIDE DEF m
  <2> QED  BY <1>2, SMT
<1>4. q = a
  <2> HIDE DEF q, r
  <2>1. ~(q < a) /\ ~(a < q)
    BY <1>3, FieldOrder
  <2> QED  BY <1>3, <2>1
<1>5. r = x
  <2> HIDE DEF q, r
  <2> QED  BY <1>1, <1>3, <1>4
<1> QED  BY <1>4, <1>5

(* ParseWithEpoch inverts the packing of an ID.                             *)
LEMMA ParseID ==
    ASSUME NEW t \in Int, NEW n \in 0..MaxNodeID, NEW s \in 0..MaxSequence
    PROVE  ParseWithEpoch(ID(t, n, s), Epoch) = <<t + Epoch, n, s>>
<1> DEFINE a == t * NodeSpan + n
<1>1. a \in Int
  BY IDType
<1>2. a \div NodeSpan = t /\ a % NodeSpan = n
  BY FieldDivision, SpanTypes
<1>3. ID(t, n, s) \div SequenceSpan = a /\ ID(t, n, s) % SequenceSpan = s
  <2>1. ID(t, n, s) = a * SequenceSpan + s
    BY DEF ID
  <2> HIDE DEF a
  <2> QED  BY <1>1, <2>1, FieldDivision, SpanTypes
<1> QED  BY <1>2, <1>3 DEF ParseWithEpoch

(* A time that fits its bits gives an ID that fits the layout.              *)
LEMMA IDBound ==
    ASSUME NEW t \in Int, t <= MaxTimestamp,
           NEW n \in 0..MaxNodeID, NEW s \in 0..MaxSequence
    PROVE  ID(t, n, s) < (MaxTimestamp + 1) * NodeSpan * SequenceSpan
<1> DEFINE a == t * NodeSpan + n
           b == (MaxTimestamp + 1) * NodeSpan
<1>1. a \in Int /\ b \in Int
  BY IDType, SpanTypes, SizeAssumption
<1>2. a < b + 0
  BY FieldOrder, SpanTypes, SizeAssumption
<1>3. a * SequenceSpan + s < b * SequenceSpan + 0
  <2> HIDE DEF a, b
  <2>1. a < b /\ 0 \in 0..(SequenceSpan - 1)
    BY <1>1, <1>2, SpanTypes
  <2> QED  BY <1>1, <2>1, FieldOrder, SpanTypes
<1>4. b * SequenceSpan \in Int
  BY <1>1, SpanTypes
<1> HIDE DEF b
<1>5. a * SequenceSpan + s < b * SequenceSpan
  BY <1>3, <1>4
<1> QED  BY <1>5 DEF ID, b

(* The last ID that a generator returned was packed from the time and the   *)
(* sequence that it still holds.                                           *)
Position(g) ==
    result[g] = "ok" /\ pc[g] = "idle" =>
        /\ lastID[g] = ID(lastTime[g] - Epoch, NodeID[g], sequence[g])
        /\ lastTime[g] - Epoch <= MaxTimestamp

PositionInv == \A g \in Generators : Position(g)

(* Every step of a generator keeps its position with its last ID, and none  *)
(* touches the position of another.                                        *)
LEMMA PositionInvNext == TypeOK /\ PositionInv /\ [Next]_vars => PositionInv'
<1> SUFFICES ASSUME TypeOK, PositionInv, [Next]_vars PROVE PositionInv'
  OBVIOUS
<1> USE DEF PositionInv, Position
<1>1. CASE UNCHANGED vars
  BY <1>1 DEF vars
<1>2. CASE Tick \/ StepBack
  BY <1>2 DEF Tick, StepBack, onlyClock
<1>3. ASSUME NEW g \in Generators, Restart(g) PROVE PositionInv'
  BY <1>3 DEF Restart, TypeOK
<1>4. ASSUME NEW g \in Generators, GenerateBackwards(g) \/ GenerateExhausted(g)
      PROVE  PositionInv'
  BY <1>4 DEF GenerateBackwards, GenerateExhausted, TypeOK
<1>5. ASSUME NEW g \in Generators, NEW seq, Issue(g, clock, seq)
      PROVE  PositionInv'
  <2>1. Position(g)'
    <3>1. CASE Overflows(clock - Epoch)
      BY <1>5, <3>1 DEF Issue, TypeOK
    <3>2. CASE ~Overflows(clock - Epoch)
      <4>1. clock - Epoch <= MaxTimestamp
        BY <3>2, SizeAssumption DEF Overflows, TypeOK
      <4> QED  BY <1>5, <3>2, <4>1 DEF Issue, TypeOK
    <3> QED  BY <3>1, <3>2
  <2>2. ASSUME NEW h \in Generators, h # g PROVE Position(h)'
    BY <1>5, <2>2 DEF Issue, TypeOK
  <2> QED  BY <2>1, <2>2
<1> QED  BY <1>1, <1>2, <1>3, <1>4, <1>5
           DEF Next, Generate, GenerateSameTime, GenerateNewTime, Spin

(* A field above the others decides the sign of the whole.                  *)
LEMMA FieldSign ==
    ASSUME NEW a \in Int, NEW span \in Nat \ {0}, NEW x \in 0..(span - 1)
    PROVE  a * span + x >= 0 <=> a >= 0
<1>1. 0 * span + 0 = 0 /\ 0 * span + x = x /\ 0 \in 0..(span - 1) /\ a * span + x \in Int
  BY SMT
<1>2. CASE a < 0
  <2>1. a * span + x < 0 * span + 0
    BY <1>1, <1>2, FieldOrder
  <2> QED  BY <1>1, <1>2, <2>1
<1>3. CASE a = 0
  BY <1>1, <1>3
<1>4. CASE a > 0
  <2>1. 0 * span + 0 < a * span + x
    BY <1>1, <1>4, FieldOrder
  <2> QED  BY <1>1, <1>4, <2>1
<1> QED  BY <1>2, <1>3, <1>4

(* An ID is negative exactly when its time is before the epoch.             *)
LEMMA IDSign ==
    ASSUME NEW t \in Int, NEW n \in 0..MaxNodeID, NEW s \in 0..MaxSequence
    PROVE  ID(t, n, s) >= 0 <=> t >= 0
<1> DEFINE a == t * NodeSpan + n
<1>1. a \in Int
  BY IDType
<1>0. /\ NodeSpan \in Nat \ {0} /\ SequenceSpan \in Nat \ {0}
      /\ n \in 0..(NodeSpan - 1) /\ s \in 0..(SequenceSpan - 1)
  BY SpanTypes, SizeAssumption DEF NodeSpan, SequenceSpan
<1>2. a >= 0 <=> t >= 0
  BY <1>0, FieldSign
<1>3. a * SequenceSpan + s >= 0 <=> a >= 0
  <2> HIDE DEF a
  <2> QED  BY <1>0, <1>1, FieldSign
<1> QED  BY <1>2, <1>3 DEF ID

(* Every ID parses back to the time, node and sequence it was made of, and  *)
(* is in [0, 2^63) of the layout exactly when the clock has reached the     *)
(* epoch: whatever the widths, also when the clock is set back, and with no *)
(* condition on nodes or restarts.  Before the epoch it is negative, and    *)
(* still parses back.                                                      *)
THEOREM IDsParseBack == Spec => []ParseRecovers
<1>1. Init => PositionInv
  BY DEF Init, PositionInv, Position
<1>2. TypeOK /\ PositionInv => ParseRecovers
  <2> SUFFICES ASSUME TypeOK, PositionInv, NEW g \in Generators,
                      result[g] = "ok", pc[g] = "idle"
               PROVE  /\ ParseWithEpoch(lastID[g], Epoch)
                           = <<lastTime[g], NodeID[g], sequence[g]>>
                      /\ lastID[g] < (MaxTimestamp + 1) * NodeSpan * SequenceSpan
                      /\ lastID[g] >= 0 <=> lastTime[g] >= Epoch
    BY DEF ParseRecovers
  <2>1. /\ lastID[g] = ID(lastTime[g] - Epoch, NodeID[g], sequence[g])
        /\ lastTime[g] - Epoch <= MaxTimestamp
    BY DEF PositionInv, Position
  <2>2. /\ lastTime[g] - Epoch \in Int
        /\ NodeID[g] \in 0..MaxNodeID /\ sequence[g] \in 0..MaxSequence
        /\ lastTime[g] - Epoch + Epoch = lastTime[g]
        /\ lastTime[g] - Epoch >= 0 <=> lastTime[g] >= Epoch
    BY NodeAssumption, SizeAssumption DEF TypeOK
  <2>3. lastID[g] >= 0 <=> lastTime[g] >= Epoch
    BY <2>1, <2>2, IDSign
  <2> QED  BY <2>1, <2>2, <2>3, ParseID, IDBound
<1> QED  BY <1>1, <1>2, PositionInvNext, TypeCorrect, PTL DEF Spec
=============================================================================
