----------------------------- MODULE TypeStore ------------------------------
(***************************************************************************)
(* Event types: how EventStore and CachedEventRepository turn the name of  *)
(* an event type into its type_id, through the table event_types, the      *)
(* process-wide typeCache that one caller warms up under a sync.Once, and  *)
(* the Redis keys "event_type_id:...", while the command line tools        *)
(* (cmd/truncate, cmd/seed) empty and refill the tables underneath.        *)
(*                                                                         *)
(* A job is one call that stores events: a flushed batch                   *)
(* (BatchInsertEventsContext, tried again by BatchRetry), a synchronous    *)
(* create (CreateEventWithType), or the fallback of a full queue           *)
(* (GetOrCreateTypeID of the repository, then InsertEventWithID).          *)
(***************************************************************************)
EXTENDS Integers, Sequences, Functions

CONSTANTS
    Names,      \* names of event types
    SeedNames,  \* the names the seeder inserts, by their fixed type_id
    Batches,    \* jobs of flushLoop
    Creates,    \* jobs of createEventSync
    Fallbacks,  \* jobs of insertEventSyncAndRespond
    Wanted,     \* the distinct types of the events of each job, in order
    Attempts,   \* RetryConfig.MaxAttempts of a batch
    ToolsMayRun,\* bound: whether a tool is started, once
    MaxID       \* bound: values the sequence of event_types may reach

Jobs == Batches \cup Creates \cup Fallbacks
NoID == 0

ASSUME JobsAssumption ==
    /\ Batches \cap Creates = {} /\ Jobs \cap Names = {}
    /\ (Batches \cup Creates) \cap Fallbacks = {}
    /\ Wanted \in [Jobs -> Seq(Names) \ {<<>>}]
    /\ \A j \in Jobs : IsInjective(Wanted[j])
    /\ \A j \in Creates \cup Fallbacks : Len(Wanted[j]) = 1
    /\ SeedNames \in Seq(Names) /\ IsInjective(SeedNames)
    /\ Attempts \in Nat \ {0}
    /\ ToolsMayRun \in BOOLEAN
    /\ MaxID \in Nat /\ Len(SeedNames) <= MaxID

VARIABLES
    types,     \* event_types: the type_id of each name, or NoID
    nextID,    \* the sequence event_types_type_id_seq
    users,     \* whether the table users holds the users of the events
    rows,      \* events: [job, name, id], the stored event's name and type_id
    taken,     \* the sequence number each statement in progress holds, or NoID
    typeCache, \* EventStore.typeCache
    redis,     \* the keys event_type_id:...
    once,      \* cacheWarmupOnce
    warm,      \* rows of the warm-up query that are still to be cached
    job,       \* where each job is
    got,       \* the type_ids it has, in the order of Wanted
    seen,      \* the row of event_types its statement sees
    tries,     \* attempts it has begun
    blamed,    \* history: an attempt failed otherwise than by a lost race
    tool,      \* where the tool is
    largest,   \* maxID of the seeder
    cleaned,   \* history: event_types has been truncated
    intruded,  \* history: a job has created a type since then
    late,      \* history: types whose statement held a number between the
               \* seeder's select max and its setval
    fresh      \* history: jobs whose last call began after the tool ended

tableVars == <<types, nextID, users, rows, taken>>
cacheVars == <<typeCache, redis, once, warm>>
jobVars   == <<job, got, seen, tries, blamed>>
toolVars  == <<tool, largest, cleaned, intruded, late, fresh>>
vars == <<tableVars, cacheVars, jobVars, toolVars>>

Empty == [n \in Names |-> NoID]
Goto(j, where) == job' = [job EXCEPT ![j] = where]

(* The type a job resolves next.                                           *)
CurrentFirst(j) == Wanted[j][1]
Current(j) == Wanted[j][Len(got[j]) + 1]

(* An attempt ends with an error.                                          *)
Fail(j, blame) ==
    /\ Goto(j, "failed")
    /\ blamed' = [blamed EXCEPT ![j] = @ \/ blame]

(* typeMap[eventType] = typeID, or the result of GetOrCreateTypeID.         *)
Got(j, id) ==
    /\ got' = [got EXCEPT ![j] = Append(@, id)]
    /\ Goto(j, IF Len(got[j]) + 1 < Len(Wanted[j]) THEN "lookup"
               ELSE IF j \in Fallbacks THEN "share" ELSE "insert")
-----------------------------------------------------------------------------
(* A call begins, and counts as an attempt.                                 *)
Call(j, from) ==
    /\ job[j] = from
    /\ Goto(j, "called")
    /\ tries' = [tries EXCEPT ![j] = @ + 1]
    /\ got' = [got EXCEPT ![j] = <<>>]
    /\ seen' = [seen EXCEPT ![j] = NoID]
    /\ fresh' = IF tool = "done" THEN fresh \cup {j} ELSE fresh
    /\ UNCHANGED <<tableVars, cacheVars, blamed, tool, largest, cleaned, intruded,
                   late>>

Begin(j) == Call(j, "new")

(* WithRetry calls a failed batch again; a handler answers with the error.  *)
RetryOnceMore(j) ==
    /\ j \in Batches
    /\ tries[j] <= Attempts
    /\ Call(j, "failed")

Retry(j) ==
    /\ j \in Batches
    /\ tries[j] < Attempts
    /\ Call(j, "failed")
-----------------------------------------------------------------------------
(* The warm-up, by the first caller; the others wait for it in Once.Do.     *)
(* The repository's GetOrCreateTypeID, of a fallback, does without.         *)

OnceDo(j) ==
    /\ job[j] = "called"
    /\ j \notin Fallbacks
    /\ once # "running"
    /\ once' = IF once = "none" THEN "running" ELSE "done"
    /\ Goto(j, IF once = "none" THEN "warming" ELSE "lookup")
    /\ UNCHANGED <<tableVars, typeCache, redis, warm, got, seen, tries, blamed,
                   toolVars>>

WarmQuery(j) ==
    /\ job[j] = "warming"
    /\ warm' = types
    /\ Goto(j, "filling")
    /\ UNCHANGED <<tableVars, typeCache, redis, once, got, seen, tries, blamed,
                   toolVars>>

WarmStore(j, n) ==
    /\ job[j] = "filling"
    /\ warm[n] # NoID
    /\ typeCache' = [typeCache EXCEPT ![n] = warm[n]]
    /\ warm' = [warm EXCEPT ![n] = NoID]
    /\ UNCHANGED <<tableVars, redis, once, jobVars, toolVars>>

WarmDone(j) ==
    /\ job[j] = "filling"
    /\ warm = Empty
    /\ once' = "done"
    /\ Goto(j, "lookup")
    /\ UNCHANGED <<tableVars, typeCache, redis, warm, got, seen, tries, blamed,
                   toolVars>>

(* The query or a Scan fails: this caller fails, and the Once is done.      *)
WarmFailsOnceOpen(j) ==
    /\ job[j] \in {"warming", "filling"}
    /\ warm' = Empty
    /\ Fail(j, TRUE)
    /\ UNCHANGED <<tableVars, typeCache, redis, once, got, seen, tries, toolVars>>

WarmFails(j) ==
    /\ job[j] \in {"warming", "filling"}
    /\ once' = "done"
    /\ warm' = Empty
    /\ Fail(j, TRUE)
    /\ UNCHANGED <<tableVars, typeCache, redis, got, seen, tries, toolVars>>
-----------------------------------------------------------------------------
(* GetOrCreateTypeID.                                                      *)

(* The repository's looks into Redis first; an error counts as a miss.      *)
CacheGet(n) == {redis[n], NoID}

RedisGet(j) ==
    /\ job[j] = "called"
    /\ j \in Fallbacks
    /\ \E id \in CacheGet(Current(j)) :
        IF id # NoID
        THEN got' = [got EXCEPT ![j] = <<id>>] /\ Goto(j, "insert")
        ELSE Goto(j, "lookup") /\ UNCHANGED got
    /\ UNCHANGED <<tableVars, cacheVars, seen, tries, blamed, toolVars>>

(* typeCache, then the statement, which sees the rows committed by now.     *)
VisibleNever(n) == NoID
Visible(n) == types[n]

Lookup(j) ==
    /\ job[j] = "lookup"
    /\ LET id == typeCache[Current(j)] IN
       IF id # NoID
       THEN Got(j, id) /\ UNCHANGED seen
       ELSE /\ seen' = [seen EXCEPT ![j] = Visible(Current(j))]
            /\ Goto(j, "statement")
            /\ UNCHANGED got
    /\ UNCHANGED <<tableVars, cacheVars, tries, blamed, toolVars>>

(* insert ... on conflict (name) do nothing returning type_id, united with  *)
(* the select.  The insert begins by taking a number of the sequence, in    *)
(* any case, which no transaction and no lock protects.                     *)
HoldsNumber(j) == job[j] = "statement" /\ taken[j] # NoID

TakeNumber(j) ==
    /\ job[j] = "statement"
    /\ taken[j] = NoID
    /\ nextID <= MaxID
    /\ taken' = [taken EXCEPT ![j] = nextID]
    /\ nextID' = nextID + 1
    /\ late' = IF tool = "counted" THEN late \cup {Current(j)} ELSE late
    /\ UNCHANGED <<types, users, rows, cacheVars, jobVars, tool, largest, cleaned,
                   intruded, fresh>>

(* Its number and what it saw end with the statement.                       *)
StatementEnds(j) ==
    /\ taken' = [taken EXCEPT ![j] = NoID]
    /\ seen' = [seen EXCEPT ![j] = NoID]

StatementReturnsNumber(j, n, id) ==
    /\ typeCache' = [typeCache EXCEPT ![n] = taken[j]]
    /\ Got(j, taken[j])
    /\ UNCHANGED blamed

StatementReturns(j, n, id) ==
    /\ typeCache' = [typeCache EXCEPT ![n] = id]
    /\ Got(j, id)
    /\ UNCHANGED blamed

(* The name is there: the insert does nothing, the select returns the row.  *)
StatementFinds(j) ==
    /\ HoldsNumber(j)
    /\ seen[j] # NoID
    /\ StatementEnds(j)
    /\ StatementReturns(j, Current(j), seen[j])
    /\ UNCHANGED <<types, nextID, users, rows, redis, once, warm, tries,
                   toolVars>>

(* It is not: the row is committed under the number taken, and returned.    *)
(* The connection may break after the commit.                              *)
StatementCreates(j) ==
    /\ HoldsNumber(j)
    /\ seen[j] = NoID
    /\ types[Current(j)] = NoID
    /\ taken[j] \notin Range(types)
    /\ StatementEnds(j)
    /\ types' = [types EXCEPT ![Current(j)] = taken[j]]
    /\ intruded' = cleaned
    /\ \/ StatementReturns(j, Current(j), taken[j])
       \/ Fail(j, TRUE) /\ UNCHANGED <<typeCache, got>>
    /\ UNCHANGED <<nextID, users, rows, redis, once, warm, tries, tool, largest,
                   cleaned, late, fresh>>

(* Another transaction has created it since the statement began: the insert *)
(* does nothing, the select does not see the row, and Get finds no row.     *)
StatementLosesRace(j) ==
    /\ HoldsNumber(j)
    /\ seen[j] = NoID
    /\ types[Current(j)] # NoID
    /\ StatementEnds(j)
    /\ Fail(j, FALSE)
    /\ UNCHANGED <<types, nextID, users, rows, cacheVars, got, tries, toolVars>>

(* Any other error, at any point: the connection, or a number already used. *)
StatementFails(j) ==
    /\ job[j] = "statement"
    /\ StatementEnds(j)
    /\ Fail(j, TRUE)
    /\ UNCHANGED <<types, nextID, users, rows, cacheVars, got, tries, toolVars>>

(* The repository keeps the result in Redis, if it can.                     *)
RedisSet(j) ==
    /\ job[j] = "share"
    /\ \/ redis' = [redis EXCEPT ![Wanted[j][1]] = got[j][1]]
       \/ UNCHANGED redis
    /\ Goto(j, "insert")
    /\ UNCHANGED <<tableVars, typeCache, once, warm, got, seen, tries, blamed,
                   toolVars>>
-----------------------------------------------------------------------------
(* The insert into events: one statement, with its foreign keys.            *)

RowsOf(j) ==
    {[job |-> j, name |-> Wanted[j][i], id |-> got[j][i]]
       : i \in DOMAIN Wanted[j]}

Insertable(j) ==
    /\ users
    /\ Range(got[j]) \subseteq Range(types)
    /\ \A r \in rows : r.job # j

InsertSucceeds(j) ==
    /\ job[j] = "insert"
    /\ Insertable(j)
    /\ rows' = rows \cup RowsOf(j)
    /\ Goto(j, "stored")
    /\ UNCHANGED <<types, nextID, users, taken, cacheVars, got, seen, tries, blamed,
                   toolVars>>

InsertFails(j) ==
    /\ job[j] = "insert"
    /\ \/ UNCHANGED rows
       \/ Insertable(j) /\ rows' = rows \cup RowsOf(j)
    /\ Fail(j, TRUE)
    /\ UNCHANGED <<types, nextID, users, taken, cacheVars, got, seen, tries, toolVars>>

(* The TTL of a Redis key, TTLEventTypeId.                                  *)
Expire(n) ==
    /\ redis[n] # NoID
    /\ redis' = [redis EXCEPT ![n] = NoID]
    /\ UNCHANGED <<tableVars, typeCache, once, warm, jobVars, toolVars>>
-----------------------------------------------------------------------------
(* The tools.  TRUNCATE waits for statements that use the table; restart    *)
(* identity makes the sequence begin again at 1.  Neither tool touches the  *)
(* typeCache of a running server or the event_type_id keys: they delete     *)
(* "events:*" and "stats:*" only.                                          *)

NoStatement == \A j \in Jobs : job[j] # "statement"

EmptyTypes ==
    /\ NoStatement
    /\ types' = Empty
    /\ nextID' = 1
    /\ rows' = {}
    /\ cleaned' = TRUE

Truncate ==
    /\ tool = "idle"
    /\ ToolsMayRun
    /\ EmptyTypes
    /\ users' = FALSE
    /\ tool' = "done"
    /\ UNCHANGED <<taken, cacheVars, jobVars, largest, intruded, late, fresh>>

(* cleanDatabase of the seeder: events, event_types, users.  Any of its      *)
(* statements may be its last: MustExec panics when the database fails.     *)
SeedCleanEvents ==
    /\ tool = "idle"
    /\ ToolsMayRun
    /\ rows' = {}
    /\ tool' = "begun"
    /\ UNCHANGED <<types, nextID, users, taken, cacheVars, jobVars, largest, cleaned,
                   intruded, late, fresh>>

SeedCleanTypesNot ==
    /\ tool = "begun"
    /\ rows' = {}
    /\ cleaned' = TRUE
    /\ tool' = "emptied"
    /\ UNCHANGED <<types, nextID, users, taken, cacheVars, jobVars, largest, intruded,
                   late, fresh>>

SeedCleanTypes ==
    /\ tool = "begun"
    /\ EmptyTypes
    /\ tool' = "emptied"
    /\ UNCHANGED <<users, taken, cacheVars, jobVars, largest, intruded, late, fresh>>

SeedCleanUsers ==
    /\ tool = "emptied"
    /\ users' = FALSE
    /\ rows' = {}
    /\ tool' = "clean"
    /\ UNCHANGED <<types, nextID, taken, cacheVars, jobVars, largest, cleaned,
                   intruded, late, fresh>>

SeedUsers ==
    /\ tool = "clean"
    /\ users' = TRUE
    /\ tool' = "users"
    /\ UNCHANGED <<types, nextID, rows, taken, cacheVars, jobVars, largest, cleaned,
                   intruded, late, fresh>>

(* One insert of all types with their fixed IDs; MustExec panics on a       *)
(* conflict with a type that a running server has created.                 *)
SeedConflict ==
    \E i \in DOMAIN SeedNames :
        types[SeedNames[i]] # NoID \/ i \in Range(types)

SeedTypes ==
    /\ tool = "users"
    /\ IF SeedConflict
       THEN tool' = "panicked" /\ UNCHANGED types
       ELSE /\ tool' = "types"
            /\ types' = [n \in Names |->
                            IF n \in Range(SeedNames)
                            THEN CHOOSE i \in DOMAIN SeedNames : SeedNames[i] = n
                            ELSE types[n]]
    /\ UNCHANGED <<nextID, users, rows, taken, cacheVars, jobVars, largest, cleaned,
                   intruded, late, fresh>>

(* select max(type_id), whose error is ignored: maxID is then 0.            *)
SeedMax ==
    /\ tool = "types"
    /\ \E max \in Range(types) :
        /\ \A n \in Names : types[n] <= max
        /\ largest' \in {max, 0}
    /\ late' = {Current(j) : j \in {k \in Jobs : HoldsNumber(k)}}
    /\ tool' = "counted"
    /\ UNCHANGED <<tableVars, cacheVars, jobVars, cleaned, intruded, fresh>>

(* setval, a statement of its own, after which the sequence goes on from    *)
(* what select max has read; it refuses 0, and MustExec panics.             *)
SequenceAfterSeedUntouched == nextID
SequenceAfterSeed == largest + 1

SeedSetval ==
    /\ tool = "counted"
    /\ largest # 0
    /\ nextID' = SequenceAfterSeed
    /\ largest' = 0
    /\ tool' = "numbered"
    /\ UNCHANGED <<types, users, rows, taken, cacheVars, jobVars, cleaned, intruded,
                   late, fresh>>

SeedSetvalRefused ==
    /\ tool = "counted"
    /\ largest = 0
    /\ tool' = "unnumbered"
    /\ UNCHANGED <<tableVars, cacheVars, jobVars, largest, cleaned, intruded, late,
                   fresh>>

(* seedEvents, whose rows carry the seeder's own IDs and types, the         *)
(* indexes, and invalidateCaches.                                          *)
SeedEvents ==
    /\ tool = "numbered"
    /\ tool' = "done"
    /\ UNCHANGED <<tableVars, cacheVars, jobVars, largest, cleaned, intruded, late,
                   fresh>>
-----------------------------------------------------------------------------
Init ==
    /\ types = Empty
    /\ nextID = 1
    /\ users = TRUE
    /\ rows = {}
    /\ taken = [j \in Jobs |-> NoID]
    /\ typeCache = Empty
    /\ redis = Empty
    /\ once = "none"
    /\ warm = Empty
    /\ job = [j \in Jobs |-> "new"]
    /\ got = [j \in Jobs |-> <<>>]
    /\ seen = [j \in Jobs |-> NoID]
    /\ tries = [j \in Jobs |-> 0]
    /\ blamed = [j \in Jobs |-> FALSE]
    /\ tool = "idle"
    /\ largest = 0
    /\ cleaned = FALSE
    /\ intruded = FALSE
    /\ late = {}
    /\ fresh = {}

AttemptStep(j) ==
    \/ OnceDo(j)
    \/ WarmQuery(j)
    \/ \E n \in Names : WarmStore(j, n)
    \/ WarmDone(j)
    \/ WarmFails(j)
    \/ RedisGet(j)
    \/ Lookup(j)
    \/ TakeNumber(j)
    \/ StatementFinds(j)
    \/ StatementCreates(j)
    \/ StatementLosesRace(j)
    \/ StatementFails(j)
    \/ RedisSet(j)
    \/ InsertSucceeds(j)
    \/ InsertFails(j)

SeederStep ==
    \/ SeedCleanEvents
    \/ SeedCleanTypes
    \/ SeedCleanUsers
    \/ SeedUsers
    \/ SeedTypes
    \/ SeedMax
    \/ SeedSetval
    \/ SeedSetvalRefused
    \/ SeedEvents

Next ==
    \/ \E j \in Jobs : Begin(j) \/ AttemptStep(j) \/ Retry(j)
    \/ \E n \in Names : Expire(n)
    \/ Truncate
    \/ SeederStep

Spec == Init /\ [][Next]_vars
-----------------------------------------------------------------------------
JobStates == {"new", "called", "warming", "filling", "lookup", "statement",
              "share", "insert", "stored", "failed"}

(* Types; a sequence number is never used up past the bound.                *)
TypeOK ==
    /\ types \in [Names -> 0..MaxID]
    /\ nextID \in 1..(MaxID + 1)
    /\ users \in BOOLEAN
    /\ rows \subseteq [job : Jobs, name : Names, id : 1..MaxID]
    /\ taken \in [Jobs -> 0..MaxID]
    /\ typeCache \in [Names -> 0..MaxID]
    /\ redis \in [Names -> 0..MaxID]
    /\ once \in {"none", "running", "done"}
    /\ warm \in [Names -> 0..MaxID]
    /\ job \in [Jobs -> JobStates]
    /\ got \in [Jobs -> Seq(1..MaxID)]
    /\ seen \in [Jobs -> 0..MaxID]
    /\ tries \in [Jobs -> 0..Attempts]
    /\ blamed \in [Jobs -> BOOLEAN]
    /\ tool \in {"idle", "begun", "emptied", "clean", "users", "types", "counted",
                 "unnumbered", "numbered", "panicked", "done"}
    /\ largest \in 0..MaxID
    /\ cleaned \in BOOLEAN
    /\ intruded \in BOOLEAN
    /\ late \subseteq Names
    /\ fresh \subseteq Jobs

(* Until a tool empties event_types, both caches, the warm-up in progress   *)
(* and every job agree with the table, whoever created the type.            *)
CachesAgree ==
    ~cleaned =>
        /\ \A n \in Names : {typeCache[n], redis[n], warm[n]} \subseteq {NoID, types[n]}
        /\ \A j \in Jobs : \A i \in DOMAIN got[j] : got[j][i] = types[Wanted[j][i]]

(* Until then every stored event has the type its client gave it.           *)
StoredAsOwnTypeUntilCleaned ==
    ~cleaned => \A r \in rows : r.id = types[r.name]

(* A batch of fewer types than attempts is never given up because other     *)
(* transactions create its types at the same time: each type can cost it    *)
(* one attempt, since the next one sees the row.                           *)
RacesAloneNeverFail ==
    \A j \in Batches :
        job[j] = "failed" /\ tries[j] = Attempts /\ Len(Wanted[j]) < Attempts
            => blamed[j] \/ cleaned

(* Unless the seeder is between its insert of fixed IDs and setval, or has  *)
(* died there, the sequence is ahead of every type_id in use, those a       *)
(* running server commits later included.  The only exception is a type     *)
(* whose statement held a number between select max and setval, which takes *)
(* the sequence back behind it.                                            *)
SequenceAhead ==
    tool \notin {"types", "counted", "unnumbered"} =>
        \A n \in Names : types[n] < nextID \/ n \in late

(* The seeder's insert of the types conflicts only with a type that a       *)
(* running server has created since the tables were emptied.               *)
SeedFailsOnlyByIntrusion == tool = "panicked" => intruded

(* Callers wait in Once.Do only while one of them is warming up the cache:  *)
(* when the warm-up fails they go on without it.                           *)
OnceIsReleased ==
    once = "running" => \E j \in Jobs : job[j] \in {"warming", "filling"}

(* What the repository says and the code does not do.  "Invalidate all      *)
(* caches" (cmd/seed and cmd/truncate): a call that begins after that       *)
(* stores its events under their own types.  Not so: typeCache and the      *)
(* event_type_id keys survive, and restart identity gives their IDs to      *)
(* other types.                                                            *)
StoredAsOwnType == \A r \in rows : r.job \in fresh => r.id = types[r.name]
=============================================================================
