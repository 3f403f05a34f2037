----------------------------- MODULE ReadCache ------------------------------
(***************************************************************************)
(* The read path of collider: CachedEventRepository and                    *)
(* CachedStatsRepository over Redis and PostgreSQL, as the GET handlers    *)
(* use them, against the writers that insert events and invalidate the     *)
(* cache.  A Redis command is one atomic step, and may fail: Cache then    *)
(* degrades to a miss, a lost Set or keys that are not deleted.            *)
(*                                                                         *)
(* A page or a statistic is determined by the rows its query sees, so the  *)
(* model keeps these rows instead.                                         *)
(***************************************************************************)
EXTENDS Integers, FiniteSets

CONSTANTS
    Readers,     \* clients, each with one GET request at a time
    EventKeys,   \* cache keys "events:...", read through singleflight
    StatsKeys,   \* cache keys "stats:...", read without it
    SyncEvents,  \* events inserted before their handler invalidates
    AsyncEvents, \* events queued: the handler invalidates, flush inserts
    ScanBatch,   \* DeleteByPattern deletes this many keys at a time (100)
    NoReader, NoPage

Keys == EventKeys \cup StatsKeys
Events == SyncEvents \cup AsyncEvents

ASSUME CacheAssumption ==
    /\ EventKeys \cap StatsKeys = {}
    /\ SyncEvents \cap AsyncEvents = {}
    /\ IsFiniteSet(Keys)
    /\ IsFiniteSet(Events)
    /\ ScanBatch \in Nat \ {0}
    /\ NoReader \notin Readers

VARIABLES
    rows,       \* the table events
    cache,      \* what Redis holds for each key, or NoPage
    reader,     \* where the GET request of each client is
    key,        \* the key it reads
    page,       \* the page it has fetched, until it is answered
    flight,     \* singleflight: the reader that fetches each key, or NoReader
    writer,     \* where the request that creates each event is
    toScan,     \* keys the SCAN of each writer has still to visit
    found,      \* keysToDelete
    clean       \* history: no Redis command of this writer has failed

readVars  == <<reader, key, page, flight>>
writeVars == <<writer, toScan, found, clean>>
vars == <<rows, cache, readVars, writeVars>>

(* missed: history, the events stored while a reader held the page.         *)
Page == [data : SUBSET Events, total : 0..Cardinality(Events), missed : SUBSET Events]

Init ==
    /\ rows = {}
    /\ cache = [k \in Keys |-> NoPage]
    /\ reader = [r \in Readers |-> "new"]
    /\ key \in [Readers -> Keys]
    /\ page = [r \in Readers |-> NoPage]
    /\ flight = [k \in EventKeys |-> NoReader]
    /\ writer = [e \in Events |-> "new"]
    /\ toScan = [e \in Events |-> {}]
    /\ found = [e \in Events |-> {}]
    /\ clean = [e \in Events |-> TRUE]
-----------------------------------------------------------------------------
(* Readers: GetPaginatedCached, and GetStatsRaw followed by GetStats.       *)

readUnchanged == UNCHANGED <<rows, writeVars>>

Leads(r) == key[r] \in EventKeys /\ flight[key[r]] = r

(* The readers a result is returned to: the one that has it and, from a     *)
(* singleflight call, those that wait for it.                              *)
AnsweredAlone(r) == {r}
AnsweredWith(r) ==
    {r} \cup {q \in Readers : Leads(r) /\ reader[q] = "waiting" /\ key[q] = key[r]}

Answer(r, outcome) ==
    /\ reader' = [q \in Readers |-> IF q \in AnsweredWith(r) THEN outcome
                                    ELSE reader[q]]
    /\ page' = [page EXCEPT ![r] = NoPage]
    /\ flight' = [k \in EventKeys |-> IF flight[k] = r THEN NoReader
                                      ELSE flight[k]]
    /\ UNCHANGED key

ReaderGoesTo(r, state) == reader' = [reader EXCEPT ![r] = state]

(* The next request of a client, for any page or statistic.                *)
Request(r) ==
    /\ reader[r] \in {"answered", "failed"}
    /\ ReaderGoesTo(r, "new")
    /\ \E k \in Keys : key' = [key EXCEPT ![r] = k]
    /\ UNCHANGED <<cache, page, flight>>
    /\ readUnchanged

(* GetBytes: a miss when the key is not there or Redis fails.               *)
CacheGet(r, missed) ==
    /\ \/ cache[key[r]] # NoPage /\ Answer(r, "answered")
       \/ ReaderGoesTo(r, missed) /\ UNCHANGED <<key, page, flight>>
    /\ UNCHANGED cache
    /\ readUnchanged

ReadCheck(r) == reader[r] = "new" /\ CacheGet(r, "missed")

(* GetStats resolves the name of an event type first, past every cache: an  *)
(* unknown type, or a failing query, is refused before the cache is read.   *)
StatsRefused(r) ==
    /\ reader[r] = "new"
    /\ key[r] \in StatsKeys
    /\ Answer(r, "failed")
    /\ UNCHANGED cache
    /\ readUnchanged

(* sfGroup.Do: the first caller of a key leads, later ones wait for it.     *)
(* A statistics reader goes on alone.                                      *)
JoinFlightAlways(r) ==
    /\ reader[r] = "missed"
    /\ ReaderGoesTo(r, "leading")
    /\ flight' = [k \in EventKeys |-> IF k = key[r] THEN r ELSE flight[k]]
    /\ UNCHANGED <<cache, key, page>>
    /\ readUnchanged

JoinFlight(r) ==
    /\ reader[r] = "missed"
    /\ IF key[r] \in EventKeys /\ flight[key[r]] # NoReader
       THEN ReaderGoesTo(r, "waiting") /\ UNCHANGED flight
       ELSE /\ ReaderGoesTo(r, "leading")
            /\ flight' = [k \in EventKeys |-> IF k = key[r] THEN r ELSE flight[k]]
    /\ UNCHANGED <<cache, key, page>>
    /\ readUnchanged

(* The second look at the cache, in both repositories.                     *)
ReadRecheck(r) == reader[r] = "leading" /\ CacheGet(r, "querying")

(* store.GetPaginated, or the single query of store.GetStats.               *)
QueryPage(r) ==
    /\ reader[r] = "querying"
    /\ page' = [page EXCEPT ![r] = [data |-> rows, total |-> Cardinality(rows),
                                    missed |-> {}]]
    /\ ReaderGoesTo(r, IF key[r] \in EventKeys THEN "counting" ELSE "storing")
    /\ UNCHANGED <<cache, key, flight>>
    /\ readUnchanged

(* store.GetTotal, a query of its own, after the one for the page.          *)
CountBeforeList(p) == [p EXCEPT !.data = rows]
WithTotal(p) == [p EXCEPT !.total = Cardinality(rows)]

QueryTotal(r) ==
    /\ reader[r] = "counting"
    /\ page' = [page EXCEPT ![r] = WithTotal(@)]
    /\ ReaderGoesTo(r, "storing")
    /\ UNCHANGED <<cache, key, flight>>
    /\ readUnchanged

QueryFailsStored(r) ==
    /\ reader[r] \in {"querying", "counting"}
    /\ ReaderGoesTo(r, "storing")
    /\ UNCHANGED <<cache, key, page, flight>>
    /\ readUnchanged

(* An error is answered to every waiting reader and is never cached.        *)
QueryFails(r) ==
    /\ reader[r] \in {"querying", "counting"}
    /\ Answer(r, "failed")
    /\ UNCHANGED cache
    /\ readUnchanged

(* Cache.Set, which may be lost, then the answer.                          *)
CacheSet(r) ==
    /\ reader[r] = "storing"
    /\ cache' \in {cache, [cache EXCEPT ![key[r]] = page[r]]}
    /\ Answer(r, "answered")
    /\ readUnchanged

(* Redis removes an entry when its TTL is over.                            *)
ExpireEventsOnly(k) ==
    /\ k \in EventKeys
    /\ cache[k] # NoPage
    /\ cache' = [cache EXCEPT ![k] = NoPage]
    /\ UNCHANGED <<rows, readVars, writeVars>>

Expire(k) ==
    /\ cache[k] # NoPage
    /\ cache' = [cache EXCEPT ![k] = NoPage]
    /\ UNCHANGED <<rows, readVars, writeVars>>
-----------------------------------------------------------------------------
(* Writers: CreateEventWithType and InsertEventWithID, createEventAsync and *)
(* the flush of its event.                                                 *)

writeUnchanged == UNCHANGED <<reader, key, flight>>

(* Readers whose page lacks the event that is stored now.                   *)
HaveQueried == {r \in Readers : reader[r] \in {"counting", "storing"}}

Store(e) ==
    /\ rows' = rows \cup {e}
    /\ page' = [r \in Readers |->
                   IF r \in HaveQueried
                   THEN [page[r] EXCEPT !.missed = @ \cup {e}] ELSE page[r]]

StoreNothing == UNCHANGED <<rows, page>>

(* InvalidateEvents, then InvalidateStats: a SCAN of each prefix.           *)
BeginInvalidateEvents(e) ==
    /\ writer' = [writer EXCEPT ![e] = "events"]
    /\ toScan' = [toScan EXCEPT ![e] = EventKeys]
    /\ UNCHANGED <<found, clean>>

WriteSync(e) ==
    /\ e \in SyncEvents
    /\ writer[e] = "new"
    /\ \/ Store(e) /\ BeginInvalidateEvents(e)
       \/ /\ Store(e) \/ StoreNothing
          /\ writer' = [writer EXCEPT ![e] = "refused"]
          /\ UNCHANGED <<toScan, found, clean>>
    /\ UNCHANGED cache
    /\ writeUnchanged

WriteAsync(e) ==
    /\ e \in AsyncEvents
    /\ writer[e] = "new"
    /\ BeginInvalidateEvents(e)
    /\ StoreNothing
    /\ UNCHANGED cache
    /\ writeUnchanged

(* BatchInsertEventsContext invalidates nothing.                           *)
FlushAsync(e) ==
    /\ e \in AsyncEvents \ rows
    /\ writer[e] # "new"
    /\ Store(e)
    /\ UNCHANGED <<cache, writeVars>>
    /\ writeUnchanged

(* The iterator visits the keys in its own order, while others are set.     *)
ScanKey(e) ==
    /\ writer[e] \in {"events", "stats"}
    /\ Cardinality(found[e]) < ScanBatch
    /\ \E k \in toScan[e] :
         /\ toScan' = [toScan EXCEPT ![e] = @ \ {k}]
         /\ found' = [found EXCEPT ![e] = IF cache[k] = NoPage THEN @ ELSE @ \cup {k}]
    /\ StoreNothing
    /\ UNCHANGED <<cache, writer, clean>>
    /\ writeUnchanged

(* An error ends the iterator; the keys found so far are still deleted.     *)
ScanFails(e) ==
    /\ writer[e] \in {"events", "stats"}
    /\ toScan[e] # {}
    /\ toScan' = [toScan EXCEPT ![e] = {}]
    /\ clean' = [clean EXCEPT ![e] = FALSE]
    /\ StoreNothing
    /\ UNCHANGED <<cache, writer, found>>
    /\ writeUnchanged

(* DEL of a full batch, or of the remaining keys once the scan is over.     *)
DeleteDueOnlyFull(e) == Cardinality(found[e]) >= ScanBatch
DeleteDue(e) ==
    Cardinality(found[e]) >= ScanBatch \/ (toScan[e] = {} /\ found[e] # {})

DeleteFound(e) ==
    /\ DeleteDue(e)
    /\ found' = [found EXCEPT ![e] = {}]
    /\ \/ /\ cache' = [k \in Keys |-> IF k \in found[e] THEN NoPage ELSE cache[k]]
          /\ UNCHANGED clean
       \/ /\ clean' = [clean EXCEPT ![e] = FALSE]
          /\ UNCHANGED cache
    /\ StoreNothing
    /\ UNCHANGED <<writer, toScan>>
    /\ writeUnchanged

PatternDone(e) == toScan[e] = {} /\ ~DeleteDue(e)

InvalidateStats(e) ==
    /\ writer[e] = "events"
    /\ PatternDone(e)
    /\ writer' = [writer EXCEPT ![e] = "stats"]
    /\ toScan' = [toScan EXCEPT ![e] = StatsKeys]
    /\ found' = [found EXCEPT ![e] = {}]
    /\ StoreNothing
    /\ UNCHANGED <<cache, clean>>
    /\ writeUnchanged

WriteAnswered(e) ==
    /\ writer[e] = "stats"
    /\ PatternDone(e)
    /\ writer' = [writer EXCEPT ![e] = "answered"]
    /\ found' = [found EXCEPT ![e] = {}]
    /\ StoreNothing
    /\ UNCHANGED <<cache, toScan, clean>>
    /\ writeUnchanged
-----------------------------------------------------------------------------
ReaderStep(r) ==
    \/ ReadCheck(r)
    \/ StatsRefused(r)
    \/ JoinFlight(r)
    \/ ReadRecheck(r)
    \/ QueryPage(r)
    \/ QueryTotal(r)
    \/ QueryFails(r)
    \/ CacheSet(r)

InvalidateStep(e) ==
    \/ ScanKey(e)
    \/ ScanFails(e)
    \/ DeleteFound(e)
    \/ InvalidateStats(e)
    \/ WriteAnswered(e)

Next ==
    \/ \E r \in Readers : Request(r) \/ ReaderStep(r)
    \/ \E e \in Events : WriteSync(e) \/ WriteAsync(e) \/ FlushAsync(e)
    \/ \E e \in Events : InvalidateStep(e)
    \/ \E k \in Keys : Expire(k)

Spec == Init /\ [][Next]_vars

(* Goroutines run, Redis and PostgreSQL answer every command, if only with  *)
(* an error, and TTLs run out.  Requests need not arrive.                  *)
FairSpec ==
    /\ Spec
    /\ \A r \in Readers : WF_vars(reader[r] # "new" /\ ReaderStep(r))
    /\ \A e \in Events : WF_vars(InvalidateStep(e))
    /\ \A k \in Keys : WF_vars(Expire(k))
-----------------------------------------------------------------------------
(* Types; a reader that stores a page holds one that its queries returned:  *)
(* a failed query is never cached.                                         *)
TypeOK ==
    /\ rows \subseteq Events
    /\ cache \in [Keys -> Page \cup {NoPage}]
    /\ reader \in [Readers -> {"new", "missed", "waiting", "leading", "querying",
                               "counting", "storing", "answered", "failed"}]
    /\ key \in [Readers -> Keys]
    /\ page \in [Readers -> Page \cup {NoPage}]
    /\ flight \in [EventKeys -> Readers \cup {NoReader}]
    /\ writer \in [Events -> {"new", "refused", "events", "stats", "answered"}]
    /\ toScan \in [Events -> SUBSET Keys]
    /\ found \in [Events -> SUBSET Keys]
    /\ clean \in [Events -> BOOLEAN]
    /\ \A r \in Readers : reader[r] \in {"counting", "storing"} => page[r] \in Page

(* "only one goroutine fetches from DB": two readers never query PostgreSQL *)
(* for the same page at the same time, whoever leads, fails or has just     *)
(* been answered.                                                          *)
NoStampede ==
    \A k \in EventKeys :
        Cardinality({r \in Readers : key[r] = k /\
            reader[r] \in {"leading", "querying", "counting", "storing"}}) <= 1

(* A page never shows more events than the total next to it, although the   *)
(* two come from two queries with inserts in between: the count is last.   *)
TotalCoversPage ==
    \A k \in EventKeys : cache[k] # NoPage =>
        Cardinality(cache[k].data) <= cache[k].total

(* Once a synchronous create is answered and its invalidation met no Redis  *)
(* error, a cached page without the event can only come from a reader that  *)
(* held that very page when the event was inserted, and stored it after the *)
(* scan.                                                                   *)
StaleOnlyByOverlap ==
    \A e \in SyncEvents : writer[e] = "answered" /\ clean[e] =>
        \A k \in Keys : cache[k] # NoPage /\ e \notin cache[k].data =>
            e \in cache[k].missed

(* "invalidates all relevant caches after an event is created"              *)
(* (event_repository.go): when the event of an answered request is stored,  *)
(* no page cached from then on lacks it.  Not so for a queued event:        *)
(* the caches are invalidated before the flush stores it.                  *)
StoredIsVisible ==
    \A e \in AsyncEvents : writer[e] = "answered" /\ clean[e] /\ e \in rows =>
        \A k \in Keys : cache[k] # NoPage =>
            e \in cache[k].data \/ e \in cache[k].missed

(* Stale pages die out: although clients keep asking and their answers are  *)
(* cached again and again, once the last event is stored every cached page  *)
(* comes to show every stored event, for good.  What a failed or an early   *)
(* invalidation and the readers that overlap an insert have left behind     *)
(* expires, and no reader brings it back.                                  *)
CacheCatchesUp ==
    <>[](\A k \in Keys : cache[k] # NoPage => rows \subseteq cache[k].data)

(* Every request that has begun is answered, also those that wait for a     *)
(* leader whose query fails, and while other clients keep asking.          *)
ReadersAnswered ==
    \A r \in Readers : []<>(reader[r] \in {"new", "answered", "failed"})
=============================================================================
