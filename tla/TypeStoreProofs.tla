-------------------------- MODULE TypeStoreProofs ---------------------------
(***************************************************************************)
(* The safety of type resolution, proved for any number of jobs, types and *)
(* attempts: what the caches may hold, what a lost race can cost, and what *)
(* the seeder can meet.                                                    *)
(***************************************************************************)
EXTENDS TypeStore, SequenceLemmas
-----------------------------------------------------------------------------
(* The types a job wants.                                                  *)
LEMMA WantedFacts ==
    ASSUME NEW j \in Jobs
    PROVE  /\ Wanted[j] \in Seq(Names)
           /\ Len(Wanted[j]) \in Nat \ {0}
           /\ DOMAIN Wanted[j] = 1..Len(Wanted[j])
           /\ \A i \in 1..Len(Wanted[j]) : Wanted[j][i] \in Names
           /\ j \in Fallbacks => Len(Wanted[j]) = 1
<1>1. Wanted[j] \in Seq(Names) /\ Wanted[j] # <<>>
  BY JobsAssumption
<1>2. j \in Fallbacks => Len(Wanted[j]) = 1
  BY JobsAssumption
<1> QED  BY <1>1, <1>2, EmptySeq, LenProperties, ElementOfSeq
-----------------------------------------------------------------------------
(* Types, and how many of its types a job has resolved at each place.       *)

Progress ==
    \A j \in Jobs :
        /\ Len(got[j]) <= Len(Wanted[j])
        /\ job[j] \in {"new", "called"} => got[j] = <<>>
        /\ job[j] \in {"warming", "filling", "lookup", "statement"} =>
               Len(got[j]) < Len(Wanted[j])
        /\ job[j] \in {"share", "insert"} => Len(got[j]) = Len(Wanted[j])

TypeInv == TypeOK /\ Progress

(* A job that still looks for a type looks for one of its own.              *)
LEMMA CurrentType ==
    ASSUME TypeInv, NEW j \in Jobs,
           job[j] \in {"called", "warming", "filling", "lookup", "statement"}
    PROVE  /\ Len(got[j]) \in Nat
           /\ Len(got[j]) + 1 \in 1..Len(Wanted[j])
           /\ Current(j) \in Names
<1>1. got[j] \in Seq(1..MaxID)
  BY DEF TypeInv, TypeOK
<1>2. Len(got[j]) \in Nat
  BY <1>1, LenProperties
<1>3. Len(got[j]) < Len(Wanted[j])
  <2>1. Len(<<>>) = 0
    BY EmptySeq
  <2> QED  BY <2>1, WantedFacts DEF TypeInv, Progress
<1> QED  BY <1>2, <1>3, WantedFacts DEF Current

(* Empty tables, empty caches, and no job begun.                            *)
LEMMA TypeInvInit == Init => TypeInv
<1> SUFFICES ASSUME Init PROVE TypeInv
  OBVIOUS
<1>0. MaxID \in Nat /\ Attempts \in Nat /\ <<>> \in Seq(1..MaxID) /\ Len(<<>>) = 0
  BY JobsAssumption, EmptySeq
<1>1. Empty \in [Names -> 0..MaxID]
  BY <1>0 DEF Empty, NoID
<1>2. /\ users \in BOOLEAN /\ cleaned \in BOOLEAN /\ intruded \in BOOLEAN
      /\ blamed \in [Jobs -> BOOLEAN]
  BY DEF Init
<1>3. /\ job \in [Jobs -> JobStates] /\ got \in [Jobs -> Seq(1..MaxID)]
      /\ seen \in [Jobs -> 0..MaxID] /\ tries \in [Jobs -> 0..Attempts]
      /\ nextID \in 1..(MaxID + 1) /\ taken \in [Jobs -> 0..MaxID]
      /\ largest \in 0..MaxID
  BY <1>0 DEF Init, JobStates, NoID
<1>4. TypeOK
  BY <1>1, <1>2, <1>3 DEF Init, TypeOK
<1>5. Progress
  BY <1>0, WantedFacts DEF Init, Progress
<1> QED  BY <1>4, <1>5 DEF TypeInv

(* Resolving one more type keeps the types and the progress of a job.       *)
LEMMA GotType ==
    ASSUME TypeInv, NEW j \in Jobs, job[j] \in {"lookup", "statement"},
           NEW id \in 1..MaxID, Got(j, id)
    PROVE  /\ got' \in [Jobs -> Seq(1..MaxID)]
           /\ job' \in [Jobs -> JobStates]
           /\ Progress'
<1>0. /\ got \in [Jobs -> Seq(1..MaxID)] /\ job \in [Jobs -> JobStates]
      /\ Len(got[j]) \in Nat /\ Len(got[j]) < Len(Wanted[j])
  BY CurrentType DEF TypeInv, TypeOK, Progress
<1>1. /\ Append(got[j], id) \in Seq(1..MaxID)
      /\ Len(Append(got[j], id)) = Len(got[j]) + 1
  BY <1>0, AppendProperties
<1>2. got' = [got EXCEPT ![j] = Append(got[j], id)]
  BY <1>0 DEF Got
<1>3. got' \in [Jobs -> Seq(1..MaxID)] /\ job' \in [Jobs -> JobStates]
  BY <1>0, <1>1, <1>2 DEF Got, Goto, JobStates
<1>4. /\ job'[j] \in {"lookup", "share", "insert"}
      /\ job'[j] = "lookup" <=> Len(got[j]) + 1 < Len(Wanted[j])
      /\ \A k \in Jobs \ {j} : job'[k] = job[k] /\ got'[k] = got[k]
      /\ got'[j] = Append(got[j], id)
  BY <1>0, <1>2 DEF Got, Goto
<1>5. Progress'
  BY <1>0, <1>1, <1>4, WantedFacts DEF Progress, TypeInv
<1> QED  BY <1>3, <1>5

(* Job j, at one of the places from, goes to one of the places to.          *)
Moved(j, from, to) ==
    /\ job[j] \in from
    /\ job' \in [Jobs -> JobStates]
    /\ job'[j] \in to
    /\ \A k \in Jobs \ {j} : job'[k] = job[k]

(* Moving on without resolving anything keeps the progress.                 *)
LEMMA MoveProgress ==
    ASSUME TypeInv, NEW j \in Jobs, UNCHANGED got,
           \/ Moved(j, JobStates, {"failed", "stored"})
           \/ Moved(j, {"called", "warming", "filling", "lookup"},
                       {"warming", "filling", "lookup", "statement"})
           \/ Moved(j, {"share"}, {"insert"})
    PROVE  Progress'
<1>1. job[j] \in {"called", "warming", "filling", "lookup"} =>
          Len(got[j]) < Len(Wanted[j])
  <2>1. job[j] \in {"called", "warming", "filling", "lookup"} =>
            Len(got[j]) \in Nat /\ Len(got[j]) + 1 \in 1..Len(Wanted[j])
    BY CurrentType
  <2> QED  BY <2>1, WantedFacts
<1> QED  BY <1>1 DEF Moved, TypeInv, Progress

(* An attempt that ends with an error.                                      *)
LEMMA FailType ==
    ASSUME TypeInv, NEW j \in Jobs, NEW blame \in BOOLEAN, Fail(j, blame),
           UNCHANGED got
    PROVE  /\ Progress'
           /\ blamed' \in [Jobs -> BOOLEAN]
           /\ job' \in [Jobs -> JobStates]
<1>1. Moved(j, JobStates, {"failed", "stored"})
  BY DEF Fail, Goto, Moved, JobStates, TypeInv, TypeOK
<1>2. Progress'
  BY <1>1, MoveProgress
<1>3. blamed' \in [Jobs -> BOOLEAN]
  BY DEF Fail, TypeInv, TypeOK
<1> QED  BY <1>1, <1>2, <1>3 DEF Moved

(* What a job inserts is well typed.                                        *)
LEMMA RowsType ==
    ASSUME TypeInv, NEW j \in Jobs, job[j] \in {"share", "insert"}
    PROVE  /\ DOMAIN got[j] = 1..Len(Wanted[j])
           /\ \A i \in 1..Len(Wanted[j]) : got[j][i] \in 1..MaxID
           /\ RowsOf(j) \subseteq [job : Jobs, name : Names, id : 1..MaxID]
<1>1. got[j] \in Seq(1..MaxID) /\ Len(got[j]) = Len(Wanted[j])
  BY DEF TypeInv, TypeOK, Progress
<1>2. /\ DOMAIN got[j] = 1..Len(Wanted[j])
      /\ \A i \in 1..Len(Wanted[j]) : got[j][i] \in 1..MaxID
  BY <1>1, LenProperties, ElementOfSeq
<1> QED  BY <1>2, WantedFacts DEF RowsOf

(* A new call.                                                             *)
LEMMA CallType ==
    ASSUME TypeInv, NEW j \in Jobs, NEW from \in {"new", "failed"}, Call(j, from),
           tries[j] < Attempts
    PROVE  TypeInv'
<1> USE DEF tableVars, cacheVars, jobVars, toolVars, NoID
<1>0. /\ TypeOK /\ Progress
      /\ MaxID \in Nat /\ Attempts \in Nat \ {0}
      /\ <<>> \in Seq(1..MaxID) /\ Len(<<>>) = 0
  BY JobsAssumption, EmptySeq DEF TypeInv
<1>1. /\ job' = [job EXCEPT ![j] = "called"]
      /\ got' = [got EXCEPT ![j] = <<>>]
      /\ seen' = [seen EXCEPT ![j] = 0]
      /\ tries' = [tries EXCEPT ![j] = tries[j] + 1]
  BY <1>0 DEF Call, Goto, TypeOK
<1>2. /\ job' \in [Jobs -> JobStates] /\ got' \in [Jobs -> Seq(1..MaxID)]
      /\ seen' \in [Jobs -> 0..MaxID] /\ tries' \in [Jobs -> 0..Attempts]
      /\ fresh' \subseteq Jobs
  BY <1>0, <1>1 DEF Call, TypeOK, JobStates
<1>3. TypeOK'
  BY <1>0, <1>2 DEF Call, TypeOK
<1>4. Progress'
  <2>1. /\ \A k \in Jobs \ {j} : job'[k] = job[k] /\ got'[k] = got[k]
        /\ job'[j] = "called" /\ got'[j] = <<>>
    BY <1>0, <1>1 DEF TypeOK
  <2>2. Len(<<>>) <= Len(Wanted[j])
    BY <1>0, WantedFacts
  <2> QED  BY <1>0, <2>1, <2>2 DEF Progress
<1> QED  BY <1>3, <1>4 DEF TypeInv

(* No step of a job leaves the types.                                       *)
LEMMA AttemptType ==
    ASSUME TypeInv, NEW j \in Jobs, AttemptStep(j)
    PROVE  TypeInv'
<1> USE DEF tableVars, cacheVars, jobVars, toolVars, NoID
<1>0. /\ TypeOK /\ Progress /\ MaxID \in Nat
      /\ Empty \in [Names -> 0..MaxID]
  BY JobsAssumption DEF TypeInv, Empty
<1>1. CASE OnceDo(j) \/ WarmQuery(j) \/ WarmDone(j)
  <2>1. Moved(j, {"called", "warming", "filling", "lookup"},
                 {"warming", "filling", "lookup", "statement"})
    BY <1>0, <1>1 DEF OnceDo, WarmQuery, WarmDone, Goto, Moved, JobStates, TypeOK
  <2>2. Progress'
    BY <1>1, <2>1, MoveProgress DEF OnceDo, WarmQuery, WarmDone
  <2> QED  BY <1>0, <1>1, <2>1, <2>2
           DEF OnceDo, WarmQuery, WarmDone, Moved, TypeInv, TypeOK
<1>2. ASSUME NEW n \in Names, WarmStore(j, n) PROVE TypeInv'
  <2>1. typeCache' \in [Names -> 0..MaxID] /\ warm' \in [Names -> 0..MaxID]
    BY <1>0, <1>2 DEF WarmStore, TypeOK
  <2> QED  BY <1>0, <1>2, <2>1 DEF WarmStore, TypeInv, TypeOK, Progress
<1>3. CASE WarmFails(j)
  <2>1. Progress' /\ blamed' \in [Jobs -> BOOLEAN] /\ job' \in [Jobs -> JobStates]
    BY <1>3, FailType DEF WarmFails
  <2> QED  BY <1>0, <1>3, <2>1 DEF WarmFails, TypeInv, TypeOK
<1>e. ASSUME StatementEnds(j)
      PROVE  taken' \in [Jobs -> 0..MaxID] /\ seen' \in [Jobs -> 0..MaxID]
  BY <1>0, <1>e DEF StatementEnds, TypeOK
<1>4. CASE StatementLosesRace(j)
  <2>1. Progress' /\ blamed' \in [Jobs -> BOOLEAN] /\ job' \in [Jobs -> JobStates]
    BY <1>4, FailType DEF StatementLosesRace
  <2> QED  BY <1>0, <1>4, <1>e, <2>1 DEF StatementLosesRace, TypeInv, TypeOK
<1>5. CASE StatementFails(j)
  <2>1. Progress' /\ blamed' \in [Jobs -> BOOLEAN] /\ job' \in [Jobs -> JobStates]
    BY <1>5, FailType DEF StatementFails
  <2> QED  BY <1>0, <1>5, <1>e, <2>1 DEF StatementFails, TypeInv, TypeOK
<1>6. CASE InsertFails(j)
  <2>1. Progress' /\ blamed' \in [Jobs -> BOOLEAN] /\ job' \in [Jobs -> JobStates]
    BY <1>6, FailType DEF InsertFails
  <2>2. rows' \subseteq [job : Jobs, name : Names, id : 1..MaxID]
    BY <1>0, <1>6, RowsType DEF InsertFails, TypeOK
  <2> QED  BY <1>0, <1>6, <2>1, <2>2 DEF InsertFails, TypeInv, TypeOK
<1>7. CASE InsertSucceeds(j)
  <2>1. Moved(j, JobStates, {"failed", "stored"})
    BY <1>0, <1>7 DEF InsertSucceeds, Goto, Moved, JobStates, TypeOK
  <2>2. Progress'
    BY <1>7, <2>1, MoveProgress DEF InsertSucceeds
  <2>3. rows' \subseteq [job : Jobs, name : Names, id : 1..MaxID]
    BY <1>0, <1>7, RowsType DEF InsertSucceeds, TypeOK
  <2> QED  BY <1>0, <1>7, <2>1, <2>2, <2>3 DEF InsertSucceeds, Moved, TypeInv, TypeOK
<1>8. CASE RedisGet(j)
  <2>1. job[j] = "called" /\ j \in Fallbacks /\ Current(j) \in Names
    BY <1>8, CurrentType DEF RedisGet
  <2>2. PICK id \in CacheGet(Current(j)) :
          IF id # NoID
          THEN got' = [got EXCEPT ![j] = <<id>>] /\ Goto(j, "insert")
          ELSE Goto(j, "lookup") /\ UNCHANGED got
    BY <1>8 DEF RedisGet
  <2>3. CASE id # NoID
    <3>1. id \in 1..MaxID
      BY <1>0, <2>1, <2>2, <2>3 DEF CacheGet, TypeOK
    <3>2. <<id>> \in Seq(1..MaxID) /\ Len(<<id>>) = 1
      BY <3>1
    <3>3. /\ job' = [job EXCEPT ![j] = "insert"]
          /\ got' = [got EXCEPT ![j] = <<id>>]
      BY <2>2, <2>3 DEF Goto
    <3>4. /\ job' \in [Jobs -> JobStates] /\ got' \in [Jobs -> Seq(1..MaxID)]
          /\ \A k \in Jobs \ {j} : job'[k] = job[k] /\ got'[k] = got[k]
          /\ job'[j] = "insert" /\ got'[j] = <<id>>
      BY <1>0, <3>2, <3>3 DEF TypeOK, JobStates
    <3>5. Len(Wanted[j]) = 1
      BY <2>1, WantedFacts
    <3>6. Progress'
      <4>1. Len(got'[j]) = 1 /\ job'[j] = "insert"
        BY <3>2, <3>4
      <4>2. \A k \in Jobs \ {j} : job'[k] = job[k] /\ got'[k] = got[k]
        BY <3>4
      <4> QED  BY <1>0, <3>5, <4>1, <4>2 DEF Progress
    <3> QED  BY <1>0, <1>8, <3>4, <3>6 DEF RedisGet, TypeInv, TypeOK
  <2>4. CASE id = NoID
    <3>1. Moved(j, {"called", "warming", "filling", "lookup"},
                   {"warming", "filling", "lookup", "statement"})
      BY <1>0, <2>1, <2>2, <2>4 DEF Goto, Moved, JobStates, TypeOK
    <3>2. Progress'
      BY <2>2, <2>4, <3>1, MoveProgress
    <3> QED  BY <1>0, <1>8, <2>2, <2>4, <3>1, <3>2 DEF RedisGet, Moved, TypeInv, TypeOK
  <2> QED  BY <2>3, <2>4
<1>9. CASE Lookup(j)
  <2>1. job[j] = "lookup" /\ Current(j) \in Names
    BY <1>9, CurrentType DEF Lookup
  <2>2. CASE typeCache[Current(j)] # NoID
    <3>1. typeCache[Current(j)] \in 1..MaxID
      BY <1>0, <2>1, <2>2 DEF TypeOK
    <3>2. Got(j, typeCache[Current(j)]) /\ UNCHANGED seen
      BY <1>9, <2>2 DEF Lookup
    <3>3. /\ got' \in [Jobs -> Seq(1..MaxID)]
          /\ job' \in [Jobs -> JobStates] /\ Progress'
      BY <2>1, <3>1, <3>2, GotType
    <3> QED  BY <1>0, <1>9, <3>2, <3>3 DEF Lookup, TypeInv, TypeOK
  <2>3. CASE typeCache[Current(j)] = NoID
    <3>1. /\ seen' = [seen EXCEPT ![j] = types[Current(j)]]
          /\ Goto(j, "statement") /\ UNCHANGED got
      BY <1>9, <2>3 DEF Lookup, Visible
    <3>2. Moved(j, {"called", "warming", "filling", "lookup"},
                   {"warming", "filling", "lookup", "statement"})
      BY <1>0, <2>1, <3>1 DEF Goto, Moved, JobStates, TypeOK
    <3>3. Progress'
      BY <3>1, <3>2, MoveProgress
    <3>4. seen' \in [Jobs -> 0..MaxID]
      BY <1>0, <2>1, <3>1 DEF TypeOK
    <3> QED  BY <1>0, <1>9, <3>1, <3>2, <3>3, <3>4 DEF Lookup, Moved, TypeInv, TypeOK
  <2> QED  BY <2>2, <2>3
<1>10. ASSUME NEW id \in 1..MaxID, StatementReturns(j, Current(j), id), job[j] = "statement"
       PROVE  /\ typeCache' \in [Names -> 0..MaxID] /\ got' \in [Jobs -> Seq(1..MaxID)]
              /\ job' \in [Jobs -> JobStates] /\ Progress' /\ UNCHANGED blamed
  <2>1. Current(j) \in Names
    BY <1>10, CurrentType
  <2>2. Got(j, id)
    BY <1>10 DEF StatementReturns
  <2>3. got' \in [Jobs -> Seq(1..MaxID)] /\ job' \in [Jobs -> JobStates] /\ Progress'
    BY <1>10, <2>2, GotType
  <2> QED  BY <1>0, <1>10, <2>1, <2>3 DEF StatementReturns, TypeOK
<1>11. CASE StatementFinds(j)
  <2>1. seen[j] \in 1..MaxID
    BY <1>0, <1>11 DEF StatementFinds, TypeOK
  <2>2. /\ typeCache' \in [Names -> 0..MaxID] /\ got' \in [Jobs -> Seq(1..MaxID)]
        /\ job' \in [Jobs -> JobStates] /\ Progress' /\ UNCHANGED blamed
    BY <1>10, <1>11, <2>1 DEF StatementFinds, HoldsNumber
  <2> QED  BY <1>0, <1>11, <1>e, <2>2 DEF StatementFinds, TypeInv, TypeOK
<1>12. CASE StatementCreates(j)
  <2>1. Current(j) \in Names /\ taken[j] \in 1..MaxID /\ job[j] = "statement"
    BY <1>0, <1>12, CurrentType DEF StatementCreates, HoldsNumber, TypeOK
  <2>2. /\ types' \in [Names -> 0..MaxID] /\ intruded' \in BOOLEAN
        /\ taken' \in [Jobs -> 0..MaxID] /\ seen' \in [Jobs -> 0..MaxID]
    BY <1>0, <1>12, <1>e, <2>1 DEF StatementCreates, TypeOK
  <2>3. CASE StatementReturns(j, Current(j), taken[j])
    <3>1. /\ typeCache' \in [Names -> 0..MaxID] /\ got' \in [Jobs -> Seq(1..MaxID)]
          /\ job' \in [Jobs -> JobStates] /\ Progress' /\ UNCHANGED blamed
      BY <1>10, <2>1, <2>3
    <3> QED  BY <1>0, <1>12, <2>2, <3>1 DEF StatementCreates, TypeInv, TypeOK
  <2>4. CASE Fail(j, TRUE) /\ UNCHANGED <<typeCache, got>>
    <3>1. Progress' /\ blamed' \in [Jobs -> BOOLEAN] /\ job' \in [Jobs -> JobStates]
      BY <2>4, FailType
    <3> QED  BY <1>0, <1>12, <2>2, <2>4, <3>1 DEF StatementCreates, TypeInv, TypeOK
  <2> QED  BY <1>12, <2>3, <2>4 DEF StatementCreates
<1>13. CASE RedisSet(j)
  <2>1. Moved(j, {"share"}, {"insert"})
    BY <1>0, <1>13 DEF RedisSet, Goto, Moved, JobStates, TypeOK
  <2>2. Progress'
    BY <1>13, <2>1, MoveProgress DEF RedisSet
  <2>3. got[j][1] \in 1..MaxID
    BY <1>13, RowsType, WantedFacts DEF RedisSet
  <2>4. redis' \in [Names -> 0..MaxID]
    <3>1. UNCHANGED redis \/ redis' = [redis EXCEPT ![Wanted[j][1]] = got[j][1]]
      BY <1>13 DEF RedisSet
    <3>2. redis \in [Names -> 0..MaxID] /\ got[j][1] \in 0..MaxID
      BY <1>0, <2>3 DEF TypeOK
    <3> QED  BY <3>1, <3>2
  <2> QED  BY <1>0, <1>13, <2>1, <2>2, <2>4 DEF RedisSet, Moved, TypeInv, TypeOK
<1>14. CASE TakeNumber(j)
  <2>1. Current(j) \in Names /\ nextID \in 1..MaxID
    BY <1>0, <1>14, CurrentType DEF TakeNumber, TypeOK
  <2>2. /\ taken' \in [Jobs -> 0..MaxID] /\ nextID' \in 1..(MaxID + 1)
        /\ late' \subseteq Names
    BY <1>0, <1>14, <2>1 DEF TakeNumber, TypeOK
  <2> QED  BY <1>0, <1>14, <2>2 DEF TakeNumber, TypeInv, TypeOK, Progress
<1> QED  BY <1>1, <1>2, <1>3, <1>4, <1>5, <1>6, <1>7, <1>8, <1>9, <1>11, <1>12, <1>13,
            <1>14
         DEF AttemptStep

(* A job that has not been called has no attempts.                          *)
Unbegun == \A j \in Jobs : job[j] = "new" => tries[j] = 0

(* A call counts, and no job becomes new again.                             *)
LEMMA UnbegunNext == TypeInv /\ Unbegun /\ [Next]_vars => Unbegun'
<1> SUFFICES ASSUME TypeInv, Unbegun, [Next]_vars PROVE Unbegun'
  OBVIOUS
<1> USE DEF tableVars, cacheVars, jobVars, toolVars, Goto, Fail
<1>0. job \in [Jobs -> JobStates] /\ tries \in [Jobs -> 0..Attempts]
  BY DEF TypeInv, TypeOK
<1>1. ASSUME NEW j \in Jobs, Begin(j) \/ Retry(j) PROVE Unbegun'
  BY <1>0, <1>1 DEF Begin, Retry, Call, Unbegun
<1>2. ASSUME NEW j \in Jobs, AttemptStep(j) PROVE Unbegun'
  <2>1. UNCHANGED tries
    BY <1>2 DEF AttemptStep, OnceDo, WarmQuery, WarmStore, WarmDone, WarmFails,
       RedisGet, Lookup, TakeNumber, StatementFinds, StatementCreates,
       StatementLosesRace, StatementFails, RedisSet, InsertSucceeds, InsertFails
  <2>2. \A k \in Jobs : job'[k] = "new" => job[k] = "new"
    <3>1. CASE OnceDo(j) \/ WarmQuery(j) \/ WarmDone(j) \/ WarmFails(j) \/ RedisSet(j)
               \/ TakeNumber(j) \/ \E n \in Names : WarmStore(j, n)
      BY <1>0, <3>1 DEF OnceDo, WarmQuery, WarmStore, WarmDone, WarmFails, RedisSet,
         TakeNumber
    <3>2. CASE StatementLosesRace(j) \/ StatementFails(j) \/ InsertSucceeds(j)
               \/ InsertFails(j)
      BY <1>0, <3>2 DEF StatementLosesRace, StatementFails, InsertSucceeds, InsertFails
    <3>3. CASE RedisGet(j) \/ Lookup(j) \/ StatementFinds(j) \/ StatementCreates(j)
      BY <1>0, <3>3 DEF RedisGet, Lookup, StatementFinds, StatementCreates,
         StatementReturns, Got
    <3> QED  BY <1>2, <3>1, <3>2, <3>3 DEF AttemptStep
  <2> QED  BY <2>1, <2>2 DEF Unbegun
<1>3. CASE UNCHANGED <<job, tries>>
  BY <1>3 DEF Unbegun
<1> QED  BY <1>1, <1>2, <1>3 DEF Next, vars, Expire, Truncate, SeederStep,
         SeedCleanEvents, SeedCleanTypes, SeedCleanUsers, SeedUsers, SeedTypes,
         SeedMax, SeedSetval, SeedSetvalRefused, SeedEvents

(* No step of a job, of a tool or of a TTL leaves the types.                *)
LEMMA TypeInvNext == TypeInv /\ Unbegun /\ [Next]_vars => TypeInv'
<1> SUFFICES ASSUME TypeInv, Unbegun, [Next]_vars PROVE TypeInv'
  OBVIOUS
<1> USE DEF tableVars, cacheVars, jobVars, toolVars, NoID
<1>0. /\ TypeOK /\ Progress
      /\ MaxID \in Nat /\ Attempts \in Nat \ {0}
      /\ Empty \in [Names -> 0..MaxID]
  BY JobsAssumption DEF TypeInv, Empty
<1>1. CASE UNCHANGED vars
  BY <1>0, <1>1 DEF vars, TypeInv, TypeOK, Progress
<1>2. ASSUME NEW j \in Jobs, Begin(j) \/ Retry(j) PROVE TypeInv'
  <2>1. CASE Begin(j)
    <3>1. Call(j, "new") /\ job[j] = "new"
      BY <2>1 DEF Begin, Call
    <3>2. tries[j] < Attempts
      BY <1>0, <3>1 DEF Unbegun
    <3> QED  BY <3>1, <3>2, CallType
  <2>2. CASE Retry(j)
    BY <2>2, CallType DEF Retry
  <2> QED  BY <1>2, <2>1, <2>2
<1>3. ASSUME NEW n \in Names, Expire(n) PROVE TypeInv'
  BY <1>0, <1>3 DEF Expire, TypeInv, TypeOK, Progress
<1>4. CASE Truncate \/ SeedCleanTypes
  <2>1. users' \in BOOLEAN /\ cleaned' \in BOOLEAN
    BY <1>0, <1>4 DEF Truncate, SeedCleanTypes, EmptyTypes, TypeOK
  <2>2. types' \in [Names -> 0..MaxID] /\ nextID' \in 1..(MaxID + 1)
    BY <1>0, <1>4 DEF Truncate, SeedCleanTypes, EmptyTypes
  <2> QED  BY <1>0, <1>4, <2>1, <2>2
           DEF Truncate, SeedCleanTypes, EmptyTypes, TypeInv, TypeOK, Progress
<1>5. CASE SeedCleanEvents \/ SeedCleanUsers \/ SeedUsers \/ SeedEvents
  <2>1. users' \in BOOLEAN
    BY <1>0, <1>5 DEF SeedCleanEvents, SeedCleanUsers, SeedUsers, SeedEvents, TypeOK
  <2> QED  BY <1>0, <1>5, <2>1 DEF SeedCleanEvents, SeedCleanUsers, SeedUsers,
       SeedEvents, TypeInv, TypeOK, Progress
<1>6. CASE SeedTypes
  <2>1. types' \in [Names -> 0..MaxID]
    <3>1. CASE UNCHANGED types
      BY <1>0, <3>1 DEF TypeOK
    <3>2. CASE types' = [n \in Names |->
                            IF n \in Range(SeedNames)
                            THEN CHOOSE i \in DOMAIN SeedNames : SeedNames[i] = n
                            ELSE types[n]]
      <4>1. DOMAIN SeedNames \subseteq 0..MaxID
        <5>1. SeedNames \in Seq(Names) /\ Len(SeedNames) <= MaxID
          BY JobsAssumption
        <5>2. DOMAIN SeedNames = 1..Len(SeedNames) /\ Len(SeedNames) \in Nat
          BY <5>1, LenProperties
        <5> QED  BY <1>0, <5>1, <5>2
      <4>2. \A n \in Range(SeedNames) :
                (CHOOSE i \in DOMAIN SeedNames : SeedNames[i] = n) \in DOMAIN SeedNames
        BY DEF Range
      <4> QED  BY <1>0, <3>2, <4>1, <4>2 DEF TypeOK
    <3> QED  BY <1>6, <3>1, <3>2 DEF SeedTypes
  <2> QED  BY <1>0, <1>6, <2>1 DEF SeedTypes, TypeInv, TypeOK, Progress
<1>7. CASE SeedMax
  <2>1. largest' \in 0..MaxID
    BY <1>0, <1>7 DEF SeedMax, Range, TypeOK
  <2>2. late' \subseteq Names
    BY <1>7, CurrentType DEF SeedMax, HoldsNumber
  <2> QED  BY <1>0, <1>7, <2>1, <2>2 DEF SeedMax, TypeInv, TypeOK, Progress
<1>8. CASE SeedSetval
  <2>1. nextID' \in 1..(MaxID + 1) /\ largest' \in 0..MaxID
    BY <1>0, <1>8 DEF SeedSetval, SequenceAfterSeed, TypeOK
  <2> QED  BY <1>0, <1>8, <2>1 DEF SeedSetval, TypeInv, TypeOK, Progress
<1>9. CASE SeedSetvalRefused
  BY <1>0, <1>9 DEF SeedSetvalRefused, TypeInv, TypeOK, Progress
<1> QED  BY <1>1, <1>2, <1>3, <1>4, <1>5, <1>6, <1>7, <1>8, <1>9, AttemptType
         DEF Next, SeederStep

(* In every reachable state.                                               *)
THEOREM TypeInvariant == Spec => [](TypeInv /\ Unbegun)
<1>1. Init => Unbegun
  BY DEF Init, Unbegun
<1> QED  BY <1>1, TypeInvInit, TypeInvNext, UnbegunNext, PTL DEF Spec

(* Types, IDs and attempts stay within their ranges.                        *)
THEOREM TypeCorrect == Spec => []TypeOK
<1>1. TypeInv => TypeOK
  BY DEF TypeInv
<1> QED  BY <1>1, TypeInvariant, PTL
-----------------------------------------------------------------------------
(* The sync.Once and the tools.                                            *)

(* Whoever is in the warm-up releases the Once when it leaves it, also when *)
(* the warm-up fails.                                                      *)
THEOREM OnceAlwaysReleased == Spec => []OnceIsReleased
<1>1. Init => OnceIsReleased
  BY DEF Init, OnceIsReleased
<1>2. TypeInv /\ OnceIsReleased /\ [Next]_vars => OnceIsReleased'
  <2> SUFFICES ASSUME TypeInv, OnceIsReleased, [Next]_vars PROVE OnceIsReleased'
    OBVIOUS
  <2> USE DEF tableVars, cacheVars, jobVars, toolVars, Goto, Fail
  <2>0. job \in [Jobs -> JobStates]
    BY DEF TypeInv, TypeOK
  <2>1. ASSUME NEW j \in Jobs, Begin(j) \/ Retry(j) PROVE OnceIsReleased'
    BY <2>0, <2>1 DEF Begin, Retry, Call, OnceIsReleased
  <2>2. ASSUME NEW j \in Jobs, AttemptStep(j) PROVE OnceIsReleased'
    <3>1. CASE OnceDo(j) \/ WarmQuery(j) \/ WarmDone(j) \/ WarmFails(j)
               \/ \E n \in Names : WarmStore(j, n)
      BY <2>0, <3>1 DEF OnceDo, WarmQuery, WarmDone, WarmFails, WarmStore, OnceIsReleased
    <3>2. CASE RedisGet(j) \/ Lookup(j) \/ StatementFinds(j) \/ StatementCreates(j)
      BY <2>0, <3>2 DEF RedisGet, Lookup, StatementFinds, StatementCreates,
         HoldsNumber, StatementReturns, Got, OnceIsReleased
    <3>3. CASE StatementLosesRace(j) \/ StatementFails(j) \/ RedisSet(j)
               \/ TakeNumber(j) \/ InsertSucceeds(j) \/ InsertFails(j)
      BY <2>0, <3>3 DEF StatementLosesRace, StatementFails, RedisSet, TakeNumber,
         HoldsNumber, InsertSucceeds, InsertFails, OnceIsReleased
    <3> QED  BY <2>2, <3>1, <3>2, <3>3 DEF AttemptStep
  <2>3. CASE UNCHANGED <<job, once>>
    BY <2>3 DEF OnceIsReleased
  <2> QED  BY <2>1, <2>2, <2>3 DEF Next, vars, Expire, Truncate, SeederStep,
       SeedCleanEvents, SeedCleanTypes, SeedCleanUsers, SeedUsers, SeedTypes,
       SeedMax, SeedSetval, SeedSetvalRefused, SeedEvents
<1> QED  BY <1>1, <1>2, TypeInvariant, PTL DEF Spec

(* What a step can do to event_types, to its sequence and to the histories  *)
(* about them: create one type, take a number, or be a step of a tool.      *)
CreatesType ==
    \E j \in Jobs :
        /\ HoldsNumber(j)
        /\ types[Current(j)] = NoID
        /\ types' = [types EXCEPT ![Current(j)] = taken[j]]
        /\ intruded' = cleaned
        /\ UNCHANGED <<nextID, tool, largest, cleaned, late>>

NumberTaken == \E j \in Jobs : TakeNumber(j)

ToolStep == Truncate \/ SeederStep

(* Every other step leaves the table and the sequence alone.                *)
LEMMA TypesStep ==
    ASSUME TypeInv, [Next]_vars
    PROVE  \/ CreatesType
           \/ NumberTaken
           \/ ToolStep
           \/ UNCHANGED <<types, nextID, tool, largest, cleaned, intruded, late>>
<1> USE DEF tableVars, cacheVars, jobVars, toolVars
<1>1. ASSUME NEW j \in Jobs, AttemptStep(j), ~StatementCreates(j), ~TakeNumber(j)
      PROVE  UNCHANGED <<types, nextID, tool, largest, cleaned, intruded, late>>
  BY <1>1 DEF AttemptStep, OnceDo, WarmQuery, WarmStore, WarmDone, WarmFails,
     RedisGet, Lookup, StatementFinds, StatementLosesRace, StatementFails,
     RedisSet, InsertSucceeds, InsertFails
<1>2. ASSUME NEW j \in Jobs, StatementCreates(j) PROVE CreatesType
  BY <1>2 DEF StatementCreates, CreatesType
<1>3. ASSUME NEW j \in Jobs, Begin(j) \/ Retry(j)
      PROVE  UNCHANGED <<types, nextID, tool, largest, cleaned, intruded, late>>
  BY <1>3 DEF Begin, Retry, Call
<1> QED  BY <1>1, <1>2, <1>3 DEF Next, vars, Expire, ToolStep, NumberTaken

(* A number is held by a statement in progress only.                        *)
Held == \A j \in Jobs : taken[j] # NoID => job[j] = "statement"

(* Whoever holds a number after a step held it before, for the same type,   *)
(* unless the step has taken it.                                           *)
HoldersKept ==
    \A k \in Jobs : HoldsNumber(k)' =>
        HoldsNumber(k) /\ taken'[k] = taken[k] /\ Current(k)' = Current(k)

(* It is so of every step.                                                  *)
LEMMA HoldersStep ==
    ASSUME TypeInv, Held, [Next]_vars
    PROVE  Held' /\ (NumberTaken \/ HoldersKept)
<1> USE DEF tableVars, cacheVars, jobVars, toolVars
<1>0. /\ job \in [Jobs -> JobStates] /\ got \in [Jobs -> Seq(1..MaxID)]
      /\ taken \in [Jobs -> 0..MaxID]
  BY DEF TypeInv, TypeOK
<1>a. ASSUME UNCHANGED <<job, got, taken>> PROVE Held' /\ HoldersKept
  BY <1>a DEF Held, HoldersKept, HoldsNumber, Current
<1>b. ASSUME NEW j \in Jobs, taken'[j] = NoID,
             \A k \in Jobs \ {j} :
                job'[k] = job[k] /\ got'[k] = got[k] /\ taken'[k] = taken[k]
      PROVE  Held' /\ HoldersKept
  BY <1>b DEF Held, HoldersKept, HoldsNumber, Current
<1>1. ASSUME NEW j \in Jobs, Begin(j) \/ Retry(j) PROVE Held' /\ HoldersKept
  <2>1. job[j] # "statement" /\ UNCHANGED taken
    BY <1>1 DEF Begin, Retry, Call
  <2>2. \A k \in Jobs \ {j} : job'[k] = job[k] /\ got'[k] = got[k]
    BY <1>0, <1>1 DEF Begin, Retry, Call, Goto
  <2> QED  BY <1>b, <2>1, <2>2 DEF Held
<1>2. ASSUME NEW j \in Jobs, TakeNumber(j) PROVE Held'
  BY <1>0, <1>2 DEF TakeNumber, Held
<1>3. ASSUME NEW j \in Jobs, NEW n \in Names, WarmStore(j, n) PROVE Held' /\ HoldersKept
  BY <1>3, <1>a DEF WarmStore
<1>4. ASSUME NEW j \in Jobs, AttemptStep(j), ~TakeNumber(j),
             ~\E n \in Names : WarmStore(j, n)
      PROVE  Held' /\ HoldersKept
  <2>1. \A k \in Jobs \ {j} : job'[k] = job[k]
    <3>1. PICK where : Goto(j, where)
      BY <1>4 DEF AttemptStep, OnceDo, WarmQuery, WarmDone, WarmFails, RedisGet, Lookup,
         StatementFinds, StatementCreates, StatementLosesRace, StatementFails, RedisSet,
         InsertSucceeds, InsertFails, Got, Fail, StatementReturns
    <3> QED  BY <1>0, <3>1 DEF Goto
  <2>2. \A k \in Jobs \ {j} : got'[k] = got[k]
    BY <1>0, <1>4 DEF AttemptStep, OnceDo, WarmQuery, WarmDone, WarmFails, RedisGet,
       Lookup, StatementFinds, StatementCreates, StatementLosesRace, StatementFails,
       RedisSet, InsertSucceeds, InsertFails, Got, StatementReturns
  <2>3. taken'[j] = NoID /\ \A k \in Jobs \ {j} : taken'[k] = taken[k]
    <3>1. CASE StatementEnds(j)
      BY <1>0, <3>1 DEF StatementEnds
    <3>2. CASE job[j] # "statement" /\ UNCHANGED taken
      BY <3>2 DEF Held
    <3> QED  BY <1>4, <3>1, <3>2 DEF AttemptStep, OnceDo, WarmQuery, WarmDone,
         WarmFails, RedisGet, Lookup, StatementFinds, StatementCreates,
         StatementLosesRace, StatementFails, RedisSet, InsertSucceeds, InsertFails
  <2> QED  BY <1>b, <2>1, <2>2, <2>3
<1>5. CASE UNCHANGED vars \/ (\E n \in Names : Expire(n)) \/ ToolStep
  <2>1. UNCHANGED <<job, got, taken>>
    BY <1>5 DEF vars, Expire, ToolStep, Truncate, SeederStep, SeedCleanEvents,
       SeedCleanTypes, EmptyTypes, SeedCleanUsers, SeedUsers, SeedTypes, SeedMax,
       SeedSetval, SeedSetvalRefused, SeedEvents
  <2> QED  BY <1>a, <2>1
<1> QED  BY <1>1, <1>2, <1>3, <1>4, <1>5 DEF Next, ToolStep, NumberTaken

(* The inductive invariant behind SequenceAhead: numbers that statements    *)
(* still hold count as type_ids in use, and between select max and setval   *)
(* what the seeder has read bounds every type that is not late.            *)
SequenceInv ==
    /\ Held
    /\ tool \notin {"types", "counted", "unnumbered"} =>
           /\ \A n \in Names : types[n] < nextID \/ n \in late
           /\ \A j \in Jobs : HoldsNumber(j) => taken[j] < nextID \/ Current(j) \in late
    /\ tool = "counted" =>
           /\ largest # 0 => \A n \in Names : types[n] <= largest \/ n \in late
           /\ \A j \in Jobs : HoldsNumber(j) => Current(j) \in late

(* Every step keeps it.                                                    *)
LEMMA SequenceInvNext == TypeInv /\ SequenceInv /\ [Next]_vars => SequenceInv'
<1> SUFFICES ASSUME TypeInv, SequenceInv, [Next]_vars PROVE SequenceInv'
  OBVIOUS
<1> USE DEF tableVars, cacheVars, jobVars, toolVars
<1>0. /\ types \in [Names -> 0..MaxID] /\ nextID \in 1..(MaxID + 1) /\ MaxID \in Nat
      /\ taken \in [Jobs -> 0..MaxID] /\ largest \in 0..MaxID
  BY JobsAssumption DEF TypeInv, TypeOK
<1>1. Held' /\ (NumberTaken \/ HoldersKept)
  BY HoldersStep DEF SequenceInv
<1>2. CASE NumberTaken
  <2>1. PICK j \in Jobs : TakeNumber(j)
    BY <1>2 DEF NumberTaken
  <2>2. /\ UNCHANGED <<types, tool, largest>> /\ nextID' = nextID + 1
        /\ taken'[j] = nextID /\ \A k \in Jobs \ {j} : taken'[k] = taken[k]
        /\ \A k \in Jobs : Current(k)' = Current(k)
        /\ \A k \in Jobs \ {j} : HoldsNumber(k)' => HoldsNumber(k)
        /\ late \subseteq late' /\ (tool = "counted" => Current(j) \in late')
    BY <1>0, <2>1 DEF TakeNumber, Current, HoldsNumber
  <2>3. tool' \notin {"types", "counted", "unnumbered"} =>
           /\ \A n \in Names : types'[n] < nextID' \/ n \in late'
           /\ \A k \in Jobs : HoldsNumber(k)' => taken'[k] < nextID' \/ Current(k)' \in late'
    BY <1>0, <2>2 DEF SequenceInv
  <2>4. tool' = "counted" =>
           /\ largest' # 0 => \A n \in Names : types'[n] <= largest' \/ n \in late'
           /\ \A k \in Jobs : HoldsNumber(k)' => Current(k)' \in late'
    BY <1>0, <2>2 DEF SequenceInv
  <2> QED  BY <1>1, <2>3, <2>4 DEF SequenceInv
<1> SUFFICES ASSUME HoldersKept PROVE SequenceInv'
  BY <1>1, <1>2
<1>3. CASE CreatesType
  <2>1. PICK j \in Jobs :
          /\ HoldsNumber(j)
          /\ types' = [types EXCEPT ![Current(j)] = taken[j]]
          /\ UNCHANGED <<nextID, tool, largest, cleaned, late>>
    BY <1>3 DEF CreatesType
  <2>2. \A n \in Names : types'[n] = types[n] \/ (n = Current(j) /\ types'[n] = taken[j])
    BY <1>0, <2>1
  <2> QED  BY <1>0, <1>1, <2>1, <2>2 DEF SequenceInv, HoldersKept
<1>4. CASE UNCHANGED <<types, nextID, tool, largest, cleaned, intruded, late>>
  BY <1>1, <1>4 DEF SequenceInv, HoldersKept
<1>5. CASE Truncate \/ SeedCleanTypes
  <2>1. /\ \A n \in Names : types'[n] = 0
        /\ nextID' = 1 /\ tool' \in {"done", "emptied"}
        /\ \A j \in Jobs : ~HoldsNumber(j)
    BY <1>5 DEF Truncate, SeedCleanTypes, EmptyTypes, Empty, NoID, NoStatement, HoldsNumber
  <2> QED  BY <1>1, <2>1 DEF SequenceInv, HoldersKept
<1>6. CASE SeedCleanEvents \/ SeedCleanUsers \/ SeedUsers \/ SeedEvents
  BY <1>1, <1>6 DEF SeedCleanEvents, SeedCleanUsers, SeedUsers, SeedEvents, SequenceInv,
     HoldersKept
<1>7. CASE SeedTypes \/ SeedSetvalRefused
  BY <1>1, <1>7 DEF SeedTypes, SeedSetvalRefused, SequenceInv, HoldersKept
<1>8. CASE SeedMax
  <2>1. PICK max \in Range(types) :
          (\A n \in Names : types[n] <= max) /\ largest' \in {max, 0}
    BY <1>8 DEF SeedMax
  <2>2. /\ UNCHANGED types /\ tool' = "counted"
        /\ \A j \in Jobs : HoldsNumber(j) => Current(j) \in late'
    BY <1>8 DEF SeedMax
  <2> QED  BY <1>1, <2>1, <2>2 DEF SequenceInv, HoldersKept
<1>9. CASE SeedSetval
  <2>1. /\ tool = "counted" /\ largest # 0 /\ nextID' = largest + 1
        /\ tool' = "numbered" /\ UNCHANGED <<types, late>>
    BY <1>9 DEF SeedSetval, SequenceAfterSeed
  <2> QED  BY <1>0, <1>1, <2>1 DEF SequenceInv, HoldersKept
<1> QED  BY <1>2, <1>3, <1>4, <1>5, <1>6, <1>7, <1>8, <1>9, TypesStep
         DEF ToolStep, SeederStep

(* However many servers create types while the seeder runs, once it has set *)
(* the sequence no type_id is at or past it, and none is committed there    *)
(* later, but those of statements that held a number between select max and *)
(* setval.                                                                 *)
THEOREM SequenceStaysAhead == Spec => []SequenceAhead
<1>1. Init => SequenceInv
  BY DEF Init, SequenceInv, Held, HoldsNumber, Empty, NoID
<1>2. SequenceInv => SequenceAhead
  BY DEF SequenceInv, SequenceAhead
<1> QED  BY <1>1, <1>2, SequenceInvNext, TypeInvariant, PTL DEF Spec

(* What the seeder finds after it has emptied the tables.                   *)
SeedInv ==
    /\ tool \notin {"idle", "begun"} => cleaned
    /\ intruded => cleaned
    /\ tool \in {"emptied", "clean", "users"} /\ ~intruded => types = Empty
    /\ SeedFailsOnlyByIntrusion

(* Only a job can create a type between TRUNCATE and the seeder's insert.   *)
LEMMA SeedInvNext == TypeInv /\ SeedInv /\ [Next]_vars => SeedInv'
<1> SUFFICES ASSUME TypeInv, SeedInv, [Next]_vars PROVE SeedInv'
  OBVIOUS
<1> USE DEF tableVars, cacheVars, jobVars, toolVars, SeedFailsOnlyByIntrusion
<1>1. CASE CreatesType
  BY <1>1 DEF CreatesType, SeedInv
<1>2. CASE UNCHANGED <<types, tool, cleaned, intruded>>
  BY <1>2 DEF SeedInv
<1>6. CASE NumberTaken
  BY <1>2, <1>6 DEF NumberTaken, TakeNumber
<1>3. CASE Truncate \/ SeedCleanTypes
  BY <1>3 DEF Truncate, SeedCleanTypes, EmptyTypes, SeedInv
<1>4. CASE \/ SeedCleanEvents \/ SeedCleanUsers \/ SeedUsers \/ SeedEvents
           \/ SeedMax \/ SeedSetval \/ SeedSetvalRefused
  BY <1>4 DEF SeedCleanEvents, SeedCleanUsers, SeedUsers, SeedEvents, SeedMax,
     SeedSetval, SeedSetvalRefused, SeedInv
<1>5. CASE SeedTypes
  <2>1. ~intruded => ~SeedConflict
    <3> SUFFICES ASSUME types = Empty PROVE ~SeedConflict
      BY <1>5 DEF SeedTypes, SeedInv
    <3>1. /\ SeedNames \in Seq(Names) /\ DOMAIN SeedNames = 1..Len(SeedNames)
          /\ \A i \in DOMAIN SeedNames : SeedNames[i] \in Names
      BY JobsAssumption, LenProperties, ElementOfSeq
    <3>2. \A i \in DOMAIN SeedNames : i \notin Range(Empty) /\ Empty[SeedNames[i]] = NoID
      BY <3>1 DEF Empty, NoID, Range
    <3> QED  BY <3>2 DEF SeedConflict
  <2> QED  BY <1>5, <2>1 DEF SeedTypes, SeedInv
<1> QED  BY <1>1, <1>2, <1>3, <1>4, <1>5, <1>6, TypesStep DEF ToolStep, SeederStep

(* In every reachable state.                                               *)
THEOREM SeedInvariant == Spec => []SeedInv
<1>1. Init => SeedInv
  BY DEF Init, SeedInv, SeedFailsOnlyByIntrusion
<1> QED  BY <1>1, SeedInvNext, TypeInvariant, PTL DEF Spec

(* The seeder's insert fails only when a server has created a type since    *)
(* the seeder emptied the tables.                                          *)
THEOREM SeederMeetsOnlyIntruders == Spec => []SeedFailsOnlyByIntrusion
<1>1. SeedInv => SeedFailsOnlyByIntrusion
  BY DEF SeedInv
<1> QED  BY <1>1, SeedInvariant, PTL
-----------------------------------------------------------------------------
(* The caches.  Until a tool empties event_types, types are only added: what *)
(* was ever read of the table (by the warm-up, by a statement, out of a      *)
(* cache) stays true.                                                      *)

AgreesWith(table) ==
    /\ \A n \in Names : {typeCache[n], redis[n], warm[n]} \subseteq {NoID, table[n]}
    /\ \A j \in Jobs : \A i \in 1..Len(got[j]) : got[j][i] = table[Wanted[j][i]]
    /\ \A j \in Jobs : job[j] = "statement" => seen[j] \in {NoID, table[Current(j)]}
    /\ \A r \in rows : r.id = table[r.name]

CacheInv == ~cleaned => AgreesWith(types)

(* Until then a type_id that is in the table stays.                         *)
LEMMA TypesKept ==
    ASSUME TypeInv, SeedInv, [Next]_vars, ~cleaned'
    PROVE  ~cleaned /\ \A n \in Names : types[n] # NoID => types'[n] = types[n]
<1> USE DEF tableVars, cacheVars, jobVars, toolVars
<1>0. types \in [Names -> 0..MaxID]
  BY DEF TypeInv, TypeOK
<1>1. CASE CreatesType
  BY <1>0, <1>1 DEF CreatesType
<1>2. CASE UNCHANGED <<types, cleaned>> \/ NumberTaken
  BY <1>2 DEF NumberTaken, TakeNumber
<1>3. CASE ToolStep
  BY <1>3 DEF ToolStep, SeederStep, Truncate, SeedCleanEvents, SeedCleanTypes,
     EmptyTypes, SeedCleanUsers, SeedUsers, SeedTypes, SeedMax, SeedSetval,
     SeedSetvalRefused, SeedEvents, SeedInv
<1> QED  BY <1>1, <1>2, <1>3, TypesStep

(* So whatever agreed with the table still does.                            *)
LEMMA AgreesStill ==
    ASSUME TypeInv, AgreesWith(types),
           \A n \in Names : types[n] # NoID => types'[n] = types[n]
    PROVE  /\ \A n \in Names : {typeCache[n], redis[n], warm[n]} \subseteq {NoID, types'[n]}
           /\ \A j \in Jobs : \A i \in 1..Len(got[j]) :
                  Wanted[j][i] \in Names /\ got[j][i] = types'[Wanted[j][i]]
           /\ \A j \in Jobs : job[j] = "statement" => seen[j] \in {NoID, types'[Current(j)]}
           /\ \A r \in rows : r.id = types'[r.name]
<1>1. \A n \in Names : {typeCache[n], redis[n], warm[n]} \subseteq {NoID, types'[n]}
  BY DEF AgreesWith
<1>2. ASSUME NEW j \in Jobs, NEW i \in 1..Len(got[j])
      PROVE  Wanted[j][i] \in Names /\ got[j][i] = types'[Wanted[j][i]]
  <2>1. got[j] \in Seq(1..MaxID) /\ Len(got[j]) <= Len(Wanted[j])
    BY DEF TypeInv, TypeOK, Progress
  <2>2. got[j][i] \in 1..MaxID
    BY <2>1, ElementOfSeq
  <2>3. Len(got[j]) \in Nat /\ Len(Wanted[j]) \in Nat
    BY <2>1, LenProperties, WantedFacts
  <2>4. i \in 1..Len(Wanted[j])
    BY <2>1, <2>3
  <2>5. Wanted[j][i] \in Names
    BY <2>4, WantedFacts
  <2>6. MaxID \in Nat /\ got[j][i] # NoID
    BY <2>2, JobsAssumption DEF NoID
  <2>7. got[j][i] = types[Wanted[j][i]]
    BY DEF AgreesWith
  <2> QED  BY <2>5, <2>6, <2>7
<1>3. ASSUME NEW j \in Jobs, job[j] = "statement"
      PROVE  seen[j] \in {NoID, types'[Current(j)]}
  BY <1>3, CurrentType DEF AgreesWith
<1>4. ASSUME NEW r \in rows PROVE r.id = types'[r.name]
  <2>1. r.name \in Names /\ r.id \in 1..MaxID /\ MaxID \in Nat
    BY JobsAssumption DEF TypeInv, TypeOK
  <2>2. r.id = types[r.name] /\ r.id # NoID
    BY <2>1 DEF AgreesWith, NoID
  <2> QED  BY <2>1, <2>2
<1> QED  BY <1>1, <1>2, <1>3, <1>4

(* Resolving a type with its ID in the table keeps got right.               *)
LEMMA GotAgrees ==
    ASSUME TypeInv, NEW j \in Jobs, job[j] \in {"lookup", "statement"},
           NEW table, NEW id \in 1..MaxID, Got(j, id), id = table[Current(j)],
           \A k \in Jobs : \A i \in 1..Len(got[k]) : got[k][i] = table[Wanted[k][i]]
    PROVE  /\ \A k \in Jobs : \A i \in 1..Len(got'[k]) : got'[k][i] = table[Wanted[k][i]]
           /\ \A k \in Jobs : job'[k] = "statement" =>
                  k # j /\ job[k] = "statement" /\ got'[k] = got[k]
<1>0. /\ got \in [Jobs -> Seq(1..MaxID)] /\ job \in [Jobs -> JobStates]
      /\ Len(got[j]) \in Nat
  BY CurrentType DEF TypeInv, TypeOK
<1>1. /\ got'[j] = Append(got[j], id)
      /\ \A k \in Jobs \ {j} : got'[k] = got[k] /\ job'[k] = job[k]
      /\ job'[j] # "statement"
  BY <1>0 DEF Got, Goto
<1>2. /\ Len(got'[j]) = Len(got[j]) + 1
      /\ \A i \in 1..Len(got[j]) : got'[j][i] = got[j][i]
      /\ got'[j][Len(got[j]) + 1] = id
  BY <1>0, <1>1, AppendProperties
<1>3. \A i \in 1..Len(got'[j]) : got'[j][i] = table[Wanted[j][i]]
  BY <1>0, <1>2 DEF Current
<1> QED  BY <1>1, <1>3

(* Every step keeps the agreement, by the statement about the old caches    *)
(* and the new table of AgreesStill.                                       *)
LEMMA CacheInvNext == TypeInv /\ SeedInv /\ CacheInv /\ [Next]_vars => CacheInv'
<1> SUFFICES ASSUME TypeInv, SeedInv, CacheInv, [Next]_vars, ~cleaned'
             PROVE  AgreesWith(types)'
  BY DEF CacheInv
<1> USE DEF tableVars, cacheVars, jobVars, toolVars
<1>0. /\ TypeOK /\ MaxID \in Nat /\ ~cleaned
      /\ \A n \in Names : types[n] # NoID => types'[n] = types[n]
  BY TypesKept, JobsAssumption DEF TypeInv
<1>a. /\ AgreesWith(types)
      /\ \A n \in Names : {typeCache[n], redis[n], warm[n]} \subseteq {NoID, types'[n]}
      /\ \A k \in Jobs : \A i \in 1..Len(got[k]) : got[k][i] = types'[Wanted[k][i]]
      /\ \A k \in Jobs : job[k] = "statement" => seen[k] \in {NoID, types'[Current(k)]}
      /\ \A r \in rows : r.id = types'[r.name]
  BY <1>0, AgreesStill DEF CacheInv
<1>b. ASSUME NEW j \in Jobs, UNCHANGED got, job \in [Jobs -> JobStates],
             \A k \in Jobs \ {j} : seen'[k] = seen[k],
             NEW where, Goto(j, where), where # "statement"
      PROVE  /\ \A k \in Jobs : \A i \in 1..Len(got'[k]) : got'[k][i] = types'[Wanted[k][i]]
             /\ \A k \in Jobs : job'[k] = "statement" => seen'[k] \in {NoID, types'[Current(k)']}
  BY <1>a, <1>b DEF Goto, Current
<1>c. ASSUME NEW j \in Jobs, job[j] \in {"lookup", "statement"}, NEW id \in 1..MaxID,
             Got(j, id), id = types'[Current(j)],
             \A k \in Jobs \ {j} : seen'[k] = seen[k]
      PROVE  /\ \A k \in Jobs : \A i \in 1..Len(got'[k]) : got'[k][i] = types'[Wanted[k][i]]
             /\ \A k \in Jobs : job'[k] = "statement" => seen'[k] \in {NoID, types'[Current(k)']}
  <2>1. /\ \A k \in Jobs : \A i \in 1..Len(got'[k]) : got'[k][i] = types'[Wanted[k][i]]
        /\ \A k \in Jobs : job'[k] = "statement" =>
               k # j /\ job[k] = "statement" /\ got'[k] = got[k]
    <3> HIDE <1>0
    <3> QED  BY <1>a, <1>c, GotAgrees
  <2> QED  BY <1>a, <1>c, <2>1 DEF Current
<1>1. CASE UNCHANGED vars
  BY <1>a, <1>1 DEF vars, AgreesWith, Current
<1>2. ASSUME NEW j \in Jobs, Begin(j) \/ Retry(j) PROVE AgreesWith(types)'
  <2>1. Call(j, "new") \/ Call(j, "failed")
    BY <1>2 DEF Begin, Retry
  <2>2. /\ job'[j] = "called" /\ got'[j] = <<>>
        /\ \A k \in Jobs \ {j} : job'[k] = job[k] /\ got'[k] = got[k] /\ seen'[k] = seen[k]
        /\ UNCHANGED <<types, typeCache, redis, warm, rows>>
    BY <1>0, <2>1 DEF Call, Goto, TypeOK
  <2>3. Len(<<>>) = 0
    BY EmptySeq
  <2>4. \A i \in 1..Len(got'[j]) : got'[j][i] = types'[Wanted[j][i]]
    BY <2>2, <2>3
  <2> QED  BY <1>a, <2>2, <2>4 DEF AgreesWith, Current
<1>3. ASSUME NEW n \in Names, Expire(n) PROVE AgreesWith(types)'
  BY <1>0, <1>a, <1>3 DEF Expire, AgreesWith, Current, TypeOK
<1>4. CASE ToolStep
  <2>1. /\ UNCHANGED <<typeCache, redis, warm, job, got, seen>>
        /\ rows' \subseteq rows
    BY <1>4 DEF ToolStep, SeederStep, Truncate, SeedCleanEvents, SeedCleanTypes,
       EmptyTypes, SeedCleanUsers, SeedUsers, SeedTypes, SeedMax, SeedSetval,
       SeedSetvalRefused, SeedEvents
  <2> QED  BY <1>a, <2>1 DEF AgreesWith, Current
<1>5. ASSUME NEW j \in Jobs, AttemptStep(j) PROVE AgreesWith(types)'
  <2>1. CASE OnceDo(j) \/ WarmDone(j)
    <3>1. PICK where \in {"warming", "lookup"} : Goto(j, where)
      BY <2>1 DEF OnceDo, WarmDone
    <3>2. UNCHANGED <<types, typeCache, redis, warm, rows, got, seen>>
      BY <2>1 DEF OnceDo, WarmDone
    <3> QED  BY <1>0, <1>a, <1>b, <3>1, <3>2 DEF AgreesWith, TypeOK
  <2>2. CASE WarmQuery(j)
    <3>1. Goto(j, "filling") /\ UNCHANGED <<types, typeCache, redis, rows, got, seen>>
      BY <2>2 DEF WarmQuery
    <3>2. warm' = types
      BY <2>2 DEF WarmQuery
    <3> QED  BY <1>0, <1>a, <1>b, <3>1, <3>2 DEF AgreesWith, TypeOK
  <2>3. ASSUME NEW n \in Names, WarmStore(j, n) PROVE AgreesWith(types)'
    BY <1>0, <1>a, <2>3 DEF WarmStore, AgreesWith, Current, TypeOK
  <2>4. CASE WarmFails(j)
    <3>1. Goto(j, "failed") /\ UNCHANGED <<types, typeCache, redis, rows, got, seen>>
      BY <2>4 DEF WarmFails, Fail
    <3>2. \A n \in Names : warm'[n] = NoID
      BY <2>4 DEF WarmFails, Empty
    <3> QED  BY <1>0, <1>a, <1>b, <3>1, <3>2 DEF AgreesWith, TypeOK
  <2>5. CASE StatementLosesRace(j) \/ StatementFails(j)
    <3>1. Goto(j, "failed") /\ UNCHANGED <<types, typeCache, redis, warm, rows, got>>
      BY <2>5 DEF StatementLosesRace, StatementFails, Fail
    <3>2. \A k \in Jobs \ {j} : seen'[k] = seen[k]
      BY <1>0, <2>5 DEF StatementLosesRace, StatementFails, StatementEnds, TypeOK
    <3> QED  BY <1>0, <1>a, <1>b, <3>1, <3>2 DEF AgreesWith, TypeOK
  <2>6. CASE RedisSet(j)
    <3>1. Goto(j, "insert") /\ UNCHANGED <<types, typeCache, warm, rows, got, seen>>
      BY <2>6 DEF RedisSet
    <3>2. Wanted[j][1] \in Names /\ 1 \in 1..Len(got[j])
      BY <2>6, WantedFacts DEF RedisSet, TypeInv, Progress
    <3>3. got[j][1] = types'[Wanted[j][1]]
      BY <1>a, <3>2
    <3>4. \A n \in Names : redis'[n] = redis[n] \/ (n = Wanted[j][1] /\ redis'[n] = got[j][1])
      BY <1>0, <2>6, <3>2 DEF RedisSet, TypeOK
    <3>5. \A n \in Names : {typeCache'[n], redis'[n], warm'[n]} \subseteq {NoID, types'[n]}
      BY <1>a, <3>1, <3>3, <3>4
    <3> QED  BY <1>0, <1>a, <1>b, <3>1, <3>5 DEF AgreesWith, TypeOK
  <2>7. CASE InsertSucceeds(j) \/ InsertFails(j)
    <3>1. PICK where \in {"stored", "failed"} : Goto(j, where)
      BY <2>7 DEF InsertSucceeds, InsertFails, Fail
    <3>2. UNCHANGED <<types, typeCache, redis, warm, got, seen>>
      BY <2>7 DEF InsertSucceeds, InsertFails
    <3>3. rows' \subseteq rows \cup RowsOf(j)
      BY <2>7 DEF InsertSucceeds, InsertFails
    <3>4. \A r \in RowsOf(j) : r.id = types'[r.name]
      <4>1. Len(got[j]) = Len(Wanted[j]) /\ DOMAIN Wanted[j] = 1..Len(Wanted[j])
        BY <2>7, WantedFacts DEF InsertSucceeds, InsertFails, TypeInv, Progress
      <4> QED  BY <1>a, <4>1 DEF RowsOf
    <3>5. \A r \in rows' : r.id = types'[r.name]
      BY <1>a, <3>3, <3>4
    <3> QED  BY <1>0, <1>a, <1>b, <3>1, <3>2, <3>5 DEF AgreesWith, TypeOK
  <2>8. CASE RedisGet(j)
    <3>1. job[j] = "called" /\ Current(j) \in Names /\ got[j] = <<>>
      BY <2>8, CurrentType DEF RedisGet, TypeInv, Progress
    <3>2. PICK id \in CacheGet(Current(j)) :
            IF id # NoID
            THEN got' = [got EXCEPT ![j] = <<id>>] /\ Goto(j, "insert")
            ELSE Goto(j, "lookup") /\ UNCHANGED got
      BY <2>8 DEF RedisGet
    <3>3. UNCHANGED <<types, typeCache, redis, warm, rows, seen>>
      BY <2>8 DEF RedisGet
    <3>4. CASE id = NoID
      BY <1>0, <1>a, <1>b, <3>2, <3>3, <3>4 DEF AgreesWith, TypeOK
    <3>5. CASE id # NoID
      <4>1. Len(<<>>) = 0 /\ Current(j) = Wanted[j][1]
        BY <3>1, EmptySeq DEF Current
      <4>2. id = types'[Wanted[j][1]]
        BY <1>a, <3>1, <3>2, <3>5, <4>1 DEF CacheGet
      <4>3. /\ got'[j] = <<id>> /\ job'[j] = "insert"
            /\ \A k \in Jobs \ {j} : got'[k] = got[k] /\ job'[k] = job[k]
        BY <1>0, <3>2, <3>5 DEF TypeOK, Goto
      <4>4. \A i \in 1..Len(got'[j]) : got'[j][i] = types'[Wanted[j][i]]
        BY <4>2, <4>3
      <4>5. \A k \in Jobs : job'[k] = "statement" => seen'[k] \in {NoID, types'[Current(k)']}
        BY <1>a, <3>3, <4>3 DEF Current
      <4>6. \A k \in Jobs : \A i \in 1..Len(got'[k]) : got'[k][i] = types'[Wanted[k][i]]
        BY <1>a, <4>3, <4>4
      <4> QED  BY <1>a, <3>3, <4>5, <4>6 DEF AgreesWith
    <3> QED  BY <3>4, <3>5
  <2>9. CASE Lookup(j)
    <3>1. /\ job[j] = "lookup" /\ Current(j) \in Names
          /\ UNCHANGED <<types, typeCache, redis, warm, rows>>
      BY <2>9, CurrentType DEF Lookup
    <3>2. CASE typeCache[Current(j)] # NoID
      <4>1. Got(j, typeCache[Current(j)]) /\ UNCHANGED seen
        BY <2>9, <3>2 DEF Lookup
      <4>2. typeCache[Current(j)] \in 1..MaxID /\ typeCache[Current(j)] = types'[Current(j)]
        BY <1>0, <1>a, <3>1, <3>2 DEF TypeOK, NoID
      <4> QED  BY <1>a, <1>c, <3>1, <4>1, <4>2 DEF AgreesWith
    <3>3. CASE typeCache[Current(j)] = NoID
      <4>1. /\ seen' = [seen EXCEPT ![j] = types[Current(j)]]
            /\ job' = [job EXCEPT ![j] = "statement"] /\ UNCHANGED got
        BY <2>9, <3>3 DEF Lookup, Visible, Goto
      <4>2. /\ seen'[j] = types'[Current(j)']
            /\ \A k \in Jobs \ {j} : seen'[k] = seen[k] /\ job'[k] = job[k]
        BY <1>0, <3>1, <4>1 DEF Current, TypeOK
      <4>3. \A k \in Jobs : job'[k] = "statement" => seen'[k] \in {NoID, types'[Current(k)']}
        BY <1>a, <4>1, <4>2 DEF Current
      <4> QED  BY <1>a, <3>1, <4>1, <4>3 DEF AgreesWith
    <3> QED  BY <3>2, <3>3
  <2>10. ASSUME NEW id \in 1..MaxID, job[j] = "statement", id = types'[Current(j)],
                StatementReturns(j, Current(j), id), UNCHANGED <<redis, warm, rows>>,
                \A k \in Jobs \ {j} : seen'[k] = seen[k]
         PROVE  AgreesWith(types)'
    <3>1. Current(j) \in Names /\ Got(j, id)
      BY <2>10, CurrentType DEF StatementReturns
    <3>2. \A n \in Names : {typeCache'[n], redis'[n], warm'[n]} \subseteq {NoID, types'[n]}
      BY <1>0, <1>a, <2>10, <3>1 DEF StatementReturns, TypeOK
    <3> QED  BY <1>a, <1>c, <2>10, <3>1, <3>2 DEF AgreesWith
  <2>e. ASSUME StatementEnds(j) PROVE \A k \in Jobs \ {j} : seen'[k] = seen[k]
    BY <1>0, <2>e DEF StatementEnds, TypeOK
  <2>11. CASE StatementFinds(j)
    <3>1. job[j] = "statement" /\ seen[j] \in 1..MaxID /\ seen[j] = types'[Current(j)]
      BY <1>0, <1>a, <2>11 DEF StatementFinds, HoldsNumber, TypeOK, NoID
    <3> QED  BY <2>10, <2>11, <2>e, <3>1 DEF StatementFinds
  <2>12. CASE StatementCreates(j)
    <3>1. /\ job[j] = "statement" /\ taken[j] \in 1..MaxID /\ Current(j) \in Names
          /\ UNCHANGED <<redis, warm, rows>>
          /\ \A k \in Jobs \ {j} : seen'[k] = seen[k]
      BY <1>0, <2>12, <2>e, CurrentType DEF StatementCreates, HoldsNumber, TypeOK, NoID
    <3>2. taken[j] = types'[Current(j)]
      BY <1>0, <2>12, <3>1 DEF StatementCreates, TypeOK
    <3>3. CASE StatementReturns(j, Current(j), taken[j])
      BY <2>10, <3>1, <3>2, <3>3
    <3>4. CASE Fail(j, TRUE) /\ UNCHANGED <<typeCache, got>>
      <4>1. Goto(j, "failed")
        BY <3>4 DEF Fail
      <4> QED  BY <1>0, <1>a, <1>b, <3>1, <3>4, <4>1 DEF AgreesWith, TypeOK
    <3> QED  BY <2>12, <3>3, <3>4 DEF StatementCreates
  <2>13. CASE TakeNumber(j)
    BY <1>a, <2>13 DEF TakeNumber, AgreesWith, Current
  <2> QED  BY <1>5, <2>1, <2>2, <2>3, <2>4, <2>5, <2>6, <2>7, <2>8, <2>9, <2>11, <2>12,
              <2>13
           DEF AttemptStep
<1> QED  BY <1>1, <1>2, <1>3, <1>4, <1>5 DEF Next, ToolStep

(* In every reachable state.                                               *)
THEOREM CacheInvariant == Spec => []CacheInv
<1>1. Init => CacheInv
  <2>1. Len(<<>>) = 0
    BY EmptySeq
  <2> QED  BY <2>1 DEF Init, CacheInv, AgreesWith, Empty
<1> QED  BY <1>1, CacheInvNext, TypeInvariant, SeedInvariant, PTL DEF Spec

(* Until a tool empties event_types, no cache and no job holds a type_id    *)
(* that is not the table's.                                                *)
THEOREM CachesAlwaysAgree == Spec => []CachesAgree
<1>1. TypeInv /\ CacheInv => CachesAgree
  <2>1. TypeInv => \A j \in Jobs : DOMAIN got[j] = 1..Len(got[j])
    BY LenProperties DEF TypeInv, TypeOK
  <2> QED  BY <2>1 DEF CacheInv, AgreesWith, CachesAgree
<1> QED  BY <1>1, CacheInvariant, TypeInvariant, PTL

(* And every stored event has the type its client gave it.                  *)
THEOREM EventsKeepTheirType == Spec => []StoredAsOwnTypeUntilCleaned
<1>1. CacheInv => StoredAsOwnTypeUntilCleaned
  BY DEF CacheInv, AgreesWith, StoredAsOwnTypeUntilCleaned
<1> QED  BY <1>1, CacheInvariant, PTL
-----------------------------------------------------------------------------
(* Lost races.  A job that nothing else has failed has failed at most once  *)
(* for each of its types that is in the table.                             *)

Known(j) == {i \in 1..Len(Wanted[j]) : types[Wanted[j][i]] # NoID}
Failures(j) == IF job[j] = "failed" THEN tries[j] ELSE tries[j] - 1

(* The type it is about to lose a race for has not cost it an attempt yet.  *)
Losing(j) ==
    job[j] = "statement" /\ seen[j] = NoID /\ types[Current(j)] # NoID

RaceInv ==
    ~cleaned => \A j \in Jobs : ~blamed[j] =>
        /\ Failures(j) <= Cardinality(Known(j))
        /\ Losing(j) => Failures(j) + 1 <= Cardinality(Known(j))

(* What one step does to a job, as far as its failures are concerned.       *)
JobKept(j) ==
    /\ job'[j] = job[j] /\ tries'[j] = tries[j] /\ blamed'[j] = blamed[j]
    /\ seen'[j] = seen[j] /\ got'[j] = got[j]
JobCalled(j) ==
    /\ job[j] \in {"new", "failed"} /\ job'[j] = "called"
    /\ tries'[j] = tries[j] + 1 /\ blamed'[j] = blamed[j]
    /\ job[j] = "new" => tries[j] = 0
JobGoesOn(j) ==
    /\ job[j] # "failed" /\ job'[j] \notin {"failed", "statement"}
    /\ tries'[j] = tries[j] /\ blamed'[j] = blamed[j]
JobLooks(j) ==
    /\ job[j] = "lookup" /\ job'[j] = "statement" /\ UNCHANGED types
    /\ tries'[j] = tries[j] /\ blamed'[j] = blamed[j] /\ got'[j] = got[j]
    /\ seen'[j] = types[Current(j)]
JobLoses(j) ==
    /\ Losing(j) /\ job'[j] = "failed"
    /\ tries'[j] = tries[j] /\ blamed'[j] = blamed[j]

(* These are all the cases.                                                *)
LEMMA JobCases ==
    ASSUME TypeInv, Unbegun, [Next]_vars, NEW k \in Jobs
    PROVE  \/ JobKept(k) \/ JobCalled(k) \/ JobGoesOn(k) \/ JobLooks(k)
           \/ JobLoses(k) \/ blamed'[k]
<1> USE DEF tableVars, cacheVars, jobVars, toolVars
<1>0. /\ job \in [Jobs -> JobStates] /\ got \in [Jobs -> Seq(1..MaxID)]
      /\ seen \in [Jobs -> 0..MaxID] /\ tries \in [Jobs -> 0..Attempts]
      /\ blamed \in [Jobs -> BOOLEAN]
  BY DEF TypeInv, TypeOK
<1>1. CASE UNCHANGED vars
  BY <1>1 DEF vars, JobKept
<1>2. ASSUME NEW j \in Jobs, Begin(j) \/ Retry(j) PROVE JobKept(k) \/ JobCalled(k)
  <2>1. Call(j, "new") \/ Call(j, "failed")
    BY <1>2 DEF Begin, Retry
  <2>2. CASE k = j
    BY <1>0, <2>1, <2>2 DEF Call, Goto, JobCalled, Unbegun
  <2>3. CASE k # j
    BY <1>0, <2>1, <2>3 DEF Call, Goto, JobKept
  <2> QED  BY <2>2, <2>3
<1>3. CASE (\E n \in Names : Expire(n)) \/ Truncate \/ SeederStep
  BY <1>3 DEF Expire, Truncate, SeederStep, SeedCleanEvents, SeedCleanTypes,
     EmptyTypes, SeedCleanUsers, SeedUsers, SeedTypes, SeedMax, SeedSetval,
     SeedSetvalRefused, SeedEvents, JobKept
<1>a. ASSUME NEW j \in Jobs, Fail(j, TRUE), UNCHANGED <<tries, got>>,
             UNCHANGED seen \/ StatementEnds(j)
      PROVE  JobKept(k) \/ blamed'[k]
  BY <1>0, <1>a DEF Fail, Goto, JobKept, StatementEnds
<1>b. ASSUME NEW j \in Jobs, NEW where, where \notin {"failed", "statement"},
             Goto(j, where), job[j] # "failed", UNCHANGED <<tries, blamed>>,
             UNCHANGED seen \/ StatementEnds(j),
             \A i \in Jobs \ {j} : got'[i] = got[i]
      PROVE  JobKept(k) \/ JobGoesOn(k)
  <2>1. CASE k = j
    BY <1>0, <1>b, <2>1 DEF Goto, JobGoesOn
  <2>2. CASE k # j
    BY <1>0, <1>b, <2>2 DEF Goto, JobKept, StatementEnds
  <2> QED  BY <2>1, <2>2
<1>c. ASSUME NEW j \in Jobs, NEW id, Got(j, id), job[j] # "failed",
             UNCHANGED <<tries, blamed>>, UNCHANGED seen \/ StatementEnds(j)
      PROVE  JobKept(k) \/ JobGoesOn(k)
  <2>1. PICK where \in {"lookup", "share", "insert"} : Goto(j, where)
    BY <1>c DEF Got
  <2>2. \A i \in Jobs \ {j} : got'[i] = got[i]
    BY <1>0, <1>c DEF Got
  <2> QED  BY <1>b, <1>c, <2>1, <2>2
<1>4. ASSUME NEW j \in Jobs, AttemptStep(j)
      PROVE  \/ JobKept(k) \/ JobGoesOn(k) \/ JobLooks(k) \/ JobLoses(k) \/ blamed'[k]
  <2>1. CASE OnceDo(j) \/ WarmQuery(j) \/ WarmDone(j) \/ RedisSet(j) \/ InsertSucceeds(j)
    <3>1. PICK where \in {"warming", "filling", "lookup", "insert", "stored"} : Goto(j, where)
      BY <2>1 DEF OnceDo, WarmQuery, WarmDone, RedisSet, InsertSucceeds
    <3>2. job[j] # "failed" /\ UNCHANGED <<tries, blamed, seen, got>>
      BY <2>1 DEF OnceDo, WarmQuery, WarmDone, RedisSet, InsertSucceeds
    <3> QED  BY <1>b, <3>1, <3>2
  <2>2. CASE \E n \in Names : WarmStore(j, n)
    BY <2>2 DEF WarmStore, JobKept
  <2>3. CASE WarmFails(j) \/ StatementFails(j) \/ InsertFails(j)
    BY <1>a, <2>3 DEF WarmFails, StatementFails, InsertFails
  <2>4. CASE RedisGet(j)
    <3>1. PICK where \in {"insert", "lookup"} : Goto(j, where)
      BY <2>4 DEF RedisGet
    <3>2. \A i \in Jobs \ {j} : got'[i] = got[i]
      BY <1>0, <2>4 DEF RedisGet
    <3> QED  BY <1>b, <2>4, <3>1, <3>2 DEF RedisGet
  <2>5. CASE Lookup(j)
    <3>1. CASE typeCache[Current(j)] # NoID
      BY <1>c, <2>5, <3>1 DEF Lookup
    <3>2. CASE typeCache[Current(j)] = NoID
      <4>1. /\ seen' = [seen EXCEPT ![j] = types[Current(j)]]
            /\ job' = [job EXCEPT ![j] = "statement"]
            /\ UNCHANGED <<got, tries, blamed, types>> /\ job[j] = "lookup"
        BY <2>5, <3>2 DEF Lookup, Visible, Goto
      <4> QED  BY <1>0, <4>1 DEF JobKept, JobLooks
    <3> QED  BY <3>1, <3>2
  <2>6. CASE StatementFinds(j)
    BY <1>c, <2>6 DEF StatementFinds, HoldsNumber, StatementReturns
  <2>7. CASE StatementCreates(j)
    <3>1. CASE StatementReturns(j, Current(j), taken[j])
      BY <1>c, <2>7, <3>1 DEF StatementCreates, HoldsNumber, StatementReturns
    <3>2. CASE Fail(j, TRUE) /\ UNCHANGED <<typeCache, got>>
      BY <1>a, <2>7, <3>2 DEF StatementCreates
    <3> QED  BY <2>7, <3>1, <3>2 DEF StatementCreates
  <2>8. CASE StatementLosesRace(j)
    <3>1. /\ job' = [job EXCEPT ![j] = "failed"] /\ UNCHANGED <<tries, got>>
          /\ seen' = [seen EXCEPT ![j] = NoID]
          /\ blamed' = [blamed EXCEPT ![j] = blamed[j]] /\ Losing(j)
      BY <1>0, <2>8 DEF StatementLosesRace, StatementEnds, HoldsNumber, Fail, Goto, Losing
    <3> QED  BY <1>0, <3>1 DEF JobKept, JobLoses
  <2>9. CASE TakeNumber(j)
    BY <2>9 DEF TakeNumber, JobKept
  <2> QED  BY <1>4, <2>1, <2>2, <2>3, <2>4, <2>5, <2>6, <2>7, <2>8, <2>9 DEF AttemptStep
<1> QED  BY <1>1, <1>2, <1>3, <1>4 DEF Next

(* The known types of a job: a finite set, at most all its types.           *)
LEMMA KnownFacts ==
    ASSUME NEW j \in Jobs
    PROVE  /\ IsFiniteSet(Known(j)) /\ Cardinality(Known(j)) \in Nat
           /\ Cardinality(Known(j)) <= Len(Wanted[j])
<1>1. /\ IsFiniteSet(1..Len(Wanted[j]))
      /\ Cardinality(1..Len(Wanted[j])) = Len(Wanted[j])
  BY WantedFacts, FS_Interval
<1>2. Known(j) \subseteq 1..Len(Wanted[j])
  BY DEF Known
<1> QED  BY <1>1, <1>2, FS_Subset, FS_CardinalityType

(* A lost race uses up the attempt that the new type has made room for.     *)
LEMMA RaceInvNext ==
    TypeInv /\ Unbegun /\ SeedInv /\ RaceInv /\ [Next]_vars => RaceInv'
<1> SUFFICES ASSUME TypeInv, Unbegun, SeedInv, RaceInv, [Next]_vars, ~cleaned',
                    NEW j \in Jobs, ~blamed'[j]
             PROVE  /\ Failures(j)' <= Cardinality(Known(j)')
                    /\ Losing(j)' => Failures(j)' + 1 <= Cardinality(Known(j)')
  BY DEF RaceInv
<1>1. /\ ~cleaned
      /\ \A n \in Names : types[n] # NoID => types'[n] = types[n]
  BY TypesKept
<1>2. Known(j) \subseteq Known(j)'
  BY <1>1, WantedFacts DEF Known
<1>3. /\ IsFiniteSet(Known(j)') /\ Cardinality(Known(j)') \in Nat
      /\ IsFiniteSet(Known(j)) /\ Cardinality(Known(j)) \in Nat
  <2>1. ASSUME NEW T, T \subseteq 1..Len(Wanted[j])
        PROVE  IsFiniteSet(T) /\ Cardinality(T) \in Nat
    <3>1. IsFiniteSet(1..Len(Wanted[j]))
      BY WantedFacts, FS_Interval
    <3> QED  BY <2>1, <3>1, FS_Subset, FS_CardinalityType
  <2>2. Known(j) \subseteq 1..Len(Wanted[j]) /\ Known(j)' \subseteq 1..Len(Wanted[j])
    BY DEF Known
  <2> QED  BY <2>1, <2>2
<1>4. Cardinality(Known(j)) <= Cardinality(Known(j)')
  BY <1>2, <1>3, FS_Subset
<1>5. tries[j] \in Nat
  BY JobsAssumption DEF TypeInv, TypeOK
<1>6. ~blamed[j] =>
        /\ Failures(j) <= Cardinality(Known(j))
        /\ Losing(j) => Failures(j) + 1 <= Cardinality(Known(j))
  BY <1>1 DEF RaceInv
<1>7. CASE JobKept(j)
  <2>1. ~blamed[j] /\ Failures(j)' = Failures(j) /\ Failures(j) \in Int
    BY <1>5, <1>7 DEF JobKept, Failures
  <2>2. ASSUME Losing(j)', ~Losing(j)
        PROVE  Cardinality(Known(j)) + 1 <= Cardinality(Known(j)')
    <3> DEFINE i == Len(got[j]) + 1
    <3>1. /\ job[j] = "statement" /\ Current(j)' = Current(j)
          /\ types[Current(j)] = NoID /\ types'[Current(j)] # NoID
      BY <1>7, <2>2 DEF JobKept, Losing, Current
    <3>2. i \in 1..Len(Wanted[j]) /\ Wanted[j][i] = Current(j)
      BY <3>1, CurrentType DEF Current
    <3>3. i \notin Known(j) /\ i \in Known(j)'
      BY <3>1, <3>2 DEF Known
    <3> HIDE DEF i
    <3>4. /\ IsFiniteSet(Known(j) \cup {i})
          /\ Cardinality(Known(j) \cup {i}) = Cardinality(Known(j)) + 1
      BY <1>3, <3>3, FS_AddElement
    <3>5. Known(j) \cup {i} \subseteq Known(j)'
      BY <1>2, <3>3
    <3> QED  BY <1>3, <3>4, <3>5, FS_Subset
  <2> QED  BY <1>3, <1>4, <1>6, <2>1, <2>2
<1>8. CASE JobCalled(j)
  <2>1. ~blamed[j] /\ Failures(j)' = tries[j] /\ ~Losing(j)'
    BY <1>5, <1>8 DEF JobCalled, Failures, Losing
  <2>2. tries[j] = 0 \/ Failures(j) = tries[j]
    BY <1>8 DEF JobCalled, Failures
  <2> QED  BY <1>3, <1>4, <1>5, <1>6, <2>1, <2>2
<1>9. CASE JobGoesOn(j)
  <2>1. ~blamed[j] /\ Failures(j)' = Failures(j) /\ ~Losing(j)' /\ Failures(j) \in Int
    BY <1>5, <1>9 DEF JobGoesOn, Failures, Losing
  <2> QED  BY <1>3, <1>4, <1>6, <2>1
<1>10. CASE JobLooks(j)
  <2>1. ~blamed[j] /\ Failures(j)' = Failures(j) /\ Failures(j) \in Int
    BY <1>5, <1>10 DEF JobLooks, Failures
  <2>2. ~Losing(j)'
    BY <1>10 DEF JobLooks, Losing, Current
  <2> QED  BY <1>3, <1>4, <1>6, <2>1, <2>2
<1>11. CASE JobLoses(j)
  <2>1. /\ ~blamed[j] /\ Losing(j) /\ ~Losing(j)' /\ Failures(j)' = Failures(j) + 1
        /\ Failures(j) \in Int
    BY <1>5, <1>11 DEF JobLoses, Failures, Losing
  <2> QED  BY <1>3, <1>4, <1>6, <2>1
<1> QED  BY <1>7, <1>8, <1>9, <1>10, <1>11, JobCases

(* A batch of fewer types than attempts is never given up because of lost   *)
(* races alone.                                                            *)
THEOREM RacesNeverExhaust == Spec => []RacesAloneNeverFail
<1>1. Init => RaceInv
  <2> SUFFICES ASSUME Init, NEW j \in Jobs
               PROVE  /\ Failures(j) <= Cardinality(Known(j))
                      /\ ~Losing(j)
    BY DEF RaceInv
  <2>1. Failures(j) = 0 - 1 /\ ~Losing(j)
    BY DEF Init, Failures, Losing
  <2> QED  BY <2>1, KnownFacts
<1>2. TypeInv /\ RaceInv => RacesAloneNeverFail
  <2> SUFFICES ASSUME TypeInv, RaceInv, NEW j \in Batches, job[j] = "failed",
                      tries[j] = Attempts, Len(Wanted[j]) < Attempts, ~blamed[j], ~cleaned
               PROVE  FALSE
    BY DEF RacesAloneNeverFail
  <2>1. j \in Jobs /\ Attempts \in Nat
    BY JobsAssumption DEF Jobs
  <2>2. Attempts <= Cardinality(Known(j))
    BY <2>1 DEF RaceInv, Failures
  <2> QED  BY <2>1, <2>2, KnownFacts, WantedFacts
<1> QED  BY <1>1, <1>2, RaceInvNext, TypeInvariant, SeedInvariant, PTL DEF Spec
=============================================================================
