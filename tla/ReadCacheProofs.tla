-------------------------- MODULE ReadCacheProofs --------------------------
(***************************************************************************)
(* The read cache proved for any number of requests, keys and events:      *)
(* singleflight lets one reader per page through, a cached page is never   *)
(* larger than its total, and after a clean invalidation only a reader     *)
(* that overlapped the insert can have left a stale page.                  *)
(***************************************************************************)
EXTENDS ReadCache, FiniteSetTheorems, TLAPS
-----------------------------------------------------------------------------
(* The inductive invariant, in named parts.                                *)

Fetching == {"leading", "querying", "counting", "storing"}
Queried  == {"counting", "storing"}

(* The flight of a key names the one reader that fetches it.                *)
FlightInv ==
    /\ \A r \in Readers :
         key[r] \in EventKeys /\ reader[r] \in Fetching => flight[key[r]] = r
    /\ \A k \in EventKeys : flight[k] # NoReader =>
         key[flight[k]] = k /\ reader[flight[k]] \in Fetching

(* The page of a reader shows the rows its query saw, and lacks only rows   *)
(* that were stored after it.                                              *)
PageOf(r) ==
    /\ page[r] \in Page
    /\ page[r].data \subseteq rows
    /\ reader[r] = "storing" => Cardinality(page[r].data) <= page[r].total
    /\ \A e \in rows : e \in page[r].data \/ e \in page[r].missed

PageInv == \A r \in Readers : reader[r] \in Queried => PageOf(r)

(* The same of a page once it is cached.                                    *)
CachedInv ==
    \A k \in Keys : cache[k] # NoPage =>
        Cardinality(cache[k].data) <= cache[k].total

(* A cached page that lacks e although its reader did not hold it when e    *)
(* was inserted is still ahead of the scan, or about to be deleted.         *)
Stale(e, k) ==
    cache[k] # NoPage /\ e \notin cache[k].data /\ e \notin cache[k].missed

Pending(e, k) ==
    \/ writer[e] \in {"events", "stats"} /\ k \in toScan[e] \cup found[e]
    \/ writer[e] = "events" /\ k \in StatsKeys

Inserted(e) == writer[e] \in {"events", "stats", "answered"}

ScanOf(e) ==
    Inserted(e) =>
        /\ e \in rows
        /\ clean[e] => \A k \in Keys : Stale(e, k) => Pending(e, k)

ScanInv == \A e \in SyncEvents : ScanOf(e)

Inv == TypeOK /\ FlightInv /\ PageInv /\ CachedInv /\ ScanInv
-----------------------------------------------------------------------------
(* The operators.                                                          *)

ReaderState == {"new", "missed", "waiting", "leading", "querying", "counting",
                "storing", "answered", "failed"}

(* The number of rows is a total that a page can show.                      *)
LEMMA RowCount ==
    ASSUME NEW S \in SUBSET Events
    PROVE  IsFiniteSet(S) /\ Cardinality(S) \in 0..Cardinality(Events)
<1>1. IsFiniteSet(Events) /\ Cardinality(Events) \in Nat
  BY CacheAssumption, FS_CardinalityType
<1>2. IsFiniteSet(S) /\ Cardinality(S) <= Cardinality(Events) /\ Cardinality(S) \in Nat
  BY <1>1, FS_Subset, FS_CardinalityType
<1> QED  BY <1>1, <1>2

(* An answer reaches the reader and those that wait for it, frees the key   *)
(* and leaves every reader that still fetches alone.                       *)
LEMMA AnswerFacts ==
    ASSUME TypeOK, NEW r \in Readers, NEW outcome \in {"answered", "failed"},
           Answer(r, outcome)
    PROVE  /\ reader' \in [Readers -> ReaderState]
           /\ page' \in [Readers -> Page \cup {NoPage}]
           /\ flight' \in [EventKeys -> Readers \cup {NoReader}]
           /\ key' = key
           /\ \A q \in Readers : reader'[q] \in Fetching =>
                 q # r /\ reader'[q] = reader[q] /\ page'[q] = page[q]
           /\ \A q \in Readers : q # r /\ reader[q] \in Fetching =>
                 reader'[q] = reader[q]
           /\ \A k \in EventKeys : flight'[k] =
                 IF flight[k] = r THEN NoReader ELSE flight[k]
<1>1. reader' = [q \in Readers |-> IF q \in AnsweredWith(r) THEN outcome ELSE reader[q]]
  BY DEF Answer
<1>2. reader \in [Readers -> ReaderState]
  BY DEF TypeOK, ReaderState
<1>3. reader' \in [Readers -> ReaderState]
  BY <1>1, <1>2 DEF ReaderState
<1>4. r \in AnsweredWith(r) /\ \A q \in Readers : q # r /\ q \in AnsweredWith(r) => reader[q] = "waiting"
  BY DEF AnsweredWith
<1>5. page' \in [Readers -> Page \cup {NoPage}] /\ \A q \in Readers : q # r => page'[q] = page[q]
  BY DEF Answer, TypeOK
<1>6. /\ flight' \in [EventKeys -> Readers \cup {NoReader}]
      /\ \A k \in EventKeys : flight'[k] = IF flight[k] = r THEN NoReader ELSE flight[k]
  BY DEF Answer, TypeOK
<1>7. \A q \in Readers : reader'[q] \in Fetching =>
         q # r /\ reader'[q] = reader[q] /\ page'[q] = page[q]
  BY <1>1, <1>4, <1>5 DEF Fetching
<1>8. \A q \in Readers : q # r /\ reader[q] \in Fetching => reader'[q] = reader[q]
  BY <1>1, <1>4 DEF Fetching
<1> QED  BY <1>3, <1>5, <1>6, <1>7, <1>8 DEF Answer

(* A reader that has not been answered goes on; its page and key stay.      *)
LEMMA ReaderGoesFacts ==
    ASSUME TypeOK, NEW r \in Readers, NEW s \in ReaderState, ReaderGoesTo(r, s)
    PROVE  /\ reader' \in [Readers -> ReaderState]
           /\ reader'[r] = s
           /\ \A q \in Readers : q # r => reader'[q] = reader[q]
BY DEF ReaderGoesTo, TypeOK, ReaderState
-----------------------------------------------------------------------------
(* Flights.                                                                *)

(* Readers take and free the flight of a page in turn.                      *)
LEMMA FlightStep ==
    ASSUME TypeOK, FlightInv, NEW r \in Readers, ReaderStep(r)
    PROVE  FlightInv'
<1>0. NoReader \notin Readers
  BY CacheAssumption
<1>1. ASSUME NEW o \in {"answered", "failed"}, Answer(r, o) PROVE FlightInv'
  <2>1. /\ key' = key
        /\ \A q \in Readers : reader'[q] \in Fetching => q # r /\ reader'[q] = reader[q]
        /\ \A q \in Readers : q # r /\ reader[q] \in Fetching => reader'[q] = reader[q]
        /\ \A k \in EventKeys : flight'[k] = IF flight[k] = r THEN NoReader ELSE flight[k]
    BY <1>1, AnswerFacts
  <2>2. flight \in [EventKeys -> Readers \cup {NoReader}]
    BY DEF TypeOK
  <2> QED  BY <2>1, <2>2 DEF FlightInv
<1>2. ASSUME NEW s \in ReaderState, ReaderGoesTo(r, s), UNCHANGED <<key, flight>>,
             reader[r] \in Fetching <=> s \in Fetching
      PROVE  FlightInv'
  <2>1. reader'[r] = s /\ \A q \in Readers : q # r => reader'[q] = reader[q]
    BY <1>2, ReaderGoesFacts
  <2>2. flight \in [EventKeys -> Readers \cup {NoReader}]
    BY DEF TypeOK
  <2> QED  BY <1>2, <2>1, <2>2 DEF FlightInv
<1>3. CASE ReadCheck(r)
  BY <1>1, <1>2, <1>3 DEF ReadCheck, CacheGet, ReaderState, Fetching
<1>4. CASE StatsRefused(r)
  BY <1>1, <1>4 DEF StatsRefused
<1>5. CASE JoinFlight(r)
  <2>1. CASE key[r] \in EventKeys /\ flight[key[r]] # NoReader
    BY <1>2, <1>5, <2>1 DEF JoinFlight, ReaderState, Fetching
  <2>2. CASE ~(key[r] \in EventKeys /\ flight[key[r]] # NoReader)
    <3>1. /\ reader[r] = "missed" /\ key' = key
          /\ ReaderGoesTo(r, "leading")
          /\ flight' = [k \in EventKeys |-> IF k = key[r] THEN r ELSE flight[k]]
      BY <1>5, <2>2 DEF JoinFlight
    <3>2. reader'[r] = "leading" /\ \A q \in Readers : q # r => reader'[q] = reader[q]
      BY <3>1, ReaderGoesFacts DEF ReaderState
    <3>3. \A q \in Readers : key'[q] \in EventKeys /\ reader'[q] \in Fetching =>
             flight'[key'[q]] = q
      BY <1>0, <2>2, <3>1, <3>2 DEF FlightInv
    <3>4. \A k \in EventKeys : flight'[k] # NoReader =>
             key'[flight'[k]] = k /\ reader'[flight'[k]] \in Fetching
      <4> SUFFICES ASSUME NEW k \in EventKeys, flight'[k] # NoReader
                   PROVE  key[flight'[k]] = k /\ reader'[flight'[k]] \in Fetching
        BY <3>1
      <4>1. CASE k = key[r]
        BY <3>1, <3>2, <4>1 DEF Fetching
      <4>2. CASE k # key[r]
        <5>1. flight'[k] = flight[k] /\ flight[k] \in Readers
          BY <3>1, <4>2 DEF TypeOK
        <5>2. key[flight[k]] = k /\ reader[flight[k]] \in Fetching
          BY <5>1 DEF FlightInv
        <5>3. flight[k] # r
          BY <3>1, <5>2 DEF Fetching
        <5> QED  BY <3>2, <5>1, <5>2, <5>3
      <4> QED  BY <4>1, <4>2
    <3> QED  BY <3>3, <3>4 DEF FlightInv
  <2> QED  BY <2>1, <2>2
<1>6. CASE ReadRecheck(r)
  BY <1>1, <1>2, <1>6 DEF ReadRecheck, CacheGet, ReaderState, Fetching
<1>7. CASE QueryPage(r)
  BY <1>2, <1>7 DEF QueryPage, ReaderState, Fetching
<1>8. CASE QueryTotal(r)
  BY <1>2, <1>8 DEF QueryTotal, ReaderState, Fetching
<1>9. CASE QueryFails(r)
  BY <1>1, <1>9 DEF QueryFails
<1>10. CASE CacheSet(r)
  BY <1>1, <1>10 DEF CacheSet
<1> QED  BY <1>3, <1>4, <1>5, <1>6, <1>7, <1>8, <1>9, <1>10 DEF ReaderStep
-----------------------------------------------------------------------------
(* Pages: what a reader holds between its query and its answer.            *)

(* A page that nobody touches stays what it was when nothing is stored.     *)
LEMMA PageKept ==
    ASSUME NEW q \in Readers, PageOf(q),
           UNCHANGED <<reader[q], page[q], rows>>
    PROVE  PageOf(q)'
BY DEF PageOf

(* An insert is noted in every page that was read before it.                *)
LEMMA PageSurvivesStore ==
    ASSUME TypeOK, PageInv, NEW e \in Events, Store(e), UNCHANGED reader
    PROVE  PageInv' /\ page' \in [Readers -> Page \cup {NoPage}]
<1>1. rows' = rows \cup {e}
  BY DEF Store
<1>2. ASSUME NEW q \in Readers, reader[q] \in Queried PROVE PageOf(q)'
  <2>1. PageOf(q) /\ q \in HaveQueried
    BY <1>2 DEF PageInv, HaveQueried, Queried
  <2>2. page'[q] = [page[q] EXCEPT !.missed = @ \cup {e}]
    BY <2>1 DEF Store
  <2>3. /\ page'[q] \in Page /\ page'[q].data = page[q].data
        /\ page'[q].total = page[q].total /\ page'[q].missed = page[q].missed \cup {e}
    BY <2>1, <2>2 DEF PageOf, Page
  <2> QED  BY <1>1, <2>1, <2>3 DEF PageOf
<1>3. ASSUME NEW q \in Readers PROVE page'[q] \in Page \cup {NoPage}
  <2>1. CASE reader[q] \in Queried
    BY <1>2, <2>1 DEF PageOf
  <2>2. CASE reader[q] \notin Queried
    BY <2>2 DEF Store, HaveQueried, Queried, TypeOK
  <2> QED  BY <2>1, <2>2
<1>4. page' \in [Readers -> Page \cup {NoPage}]
  <2>1. page' = [q \in Readers |-> page'[q]]
    BY DEF Store
  <2> QED  BY <1>3, <2>1
<1> QED  BY <1>2, <1>4 DEF PageInv

(* The steps of a reader: its page lacks nothing that was stored before.    *)
LEMMA PageStep ==
    ASSUME TypeOK, PageInv, NEW r \in Readers, ReaderStep(r)
    PROVE  PageInv'
<1>0. UNCHANGED rows
  BY DEF ReaderStep, ReadCheck, StatsRefused, JoinFlight, ReadRecheck, QueryPage,
         QueryTotal, QueryFails, CacheSet, CacheGet, readUnchanged
<1>1. ASSUME NEW o \in {"answered", "failed"}, Answer(r, o) PROVE PageInv'
  <2>1. \A q \in Readers : reader'[q] \in Fetching =>
           q # r /\ reader'[q] = reader[q] /\ page'[q] = page[q]
    BY <1>1, AnswerFacts
  <2> SUFFICES ASSUME NEW q \in Readers, reader'[q] \in Queried PROVE PageOf(q)'
    BY DEF PageInv
  <2>2. reader'[q] = reader[q] /\ page'[q] = page[q]
    BY <2>1 DEF Fetching, Queried
  <2> QED  BY <1>0, <2>2, PageKept DEF PageInv
<1>2. ASSUME NEW s \in ReaderState, ReaderGoesTo(r, s),
             \A q \in Readers : q # r => page'[q] = page[q],
             s \in Queried => PageOf(r)'
      PROVE  PageInv'
  <2>1. reader'[r] = s /\ \A q \in Readers : q # r => reader'[q] = reader[q]
    BY <1>2, ReaderGoesFacts
  <2> SUFFICES ASSUME NEW q \in Readers, reader'[q] \in Queried PROVE PageOf(q)'
    BY DEF PageInv
  <2>2. CASE q = r
    BY <1>2, <2>1, <2>2
  <2>3. CASE q # r
    BY <1>0, <1>2, <2>1, <2>3, PageKept DEF PageInv
  <2> QED  BY <2>2, <2>3
<1>3. CASE ReadCheck(r)
  BY <1>1, <1>2, <1>3 DEF ReadCheck, CacheGet, ReaderState, Queried
<1>4. CASE StatsRefused(r)
  BY <1>1, <1>4 DEF StatsRefused
<1>5. CASE JoinFlight(r)
  BY <1>2, <1>5 DEF JoinFlight, ReaderState, Queried
<1>6. CASE ReadRecheck(r)
  BY <1>1, <1>2, <1>6 DEF ReadRecheck, CacheGet, ReaderState, Queried
<1>7. CASE QueryPage(r)
  <2> DEFINE s == IF key[r] \in EventKeys THEN "counting" ELSE "storing"
             p == [data |-> rows, total |-> Cardinality(rows), missed |-> {}]
  <2>1. /\ page' = [page EXCEPT ![r] = p] /\ ReaderGoesTo(r, s) /\ s \in ReaderState
    BY <1>7 DEF QueryPage, ReaderState
  <2>2. page'[r] = p /\ \A q \in Readers : q # r => page'[q] = page[q]
    BY <2>1 DEF TypeOK
  <2>3. Cardinality(rows) \in 0..Cardinality(Events) /\ rows \subseteq Events
    BY RowCount DEF TypeOK
  <2>4. p \in Page /\ p.data = rows /\ Cardinality(p.data) <= p.total
    BY <2>3 DEF Page
  <2> HIDE DEF p, s
  <2>5. PageOf(r)'
    BY <1>0, <2>2, <2>4 DEF PageOf
  <2> QED  BY <1>2, <2>1, <2>2, <2>5
<1>8. CASE QueryTotal(r)
  <2> DEFINE p == WithTotal(page[r])
  <2>1. page' = [page EXCEPT ![r] = p] /\ ReaderGoesTo(r, "storing")
    BY <1>8 DEF QueryTotal
  <2>2. page'[r] = p /\ \A q \in Readers : q # r => page'[q] = page[q]
    BY <2>1 DEF TypeOK
  <2>3. PageOf(r)
    BY <1>8 DEF QueryTotal, PageInv, Queried
  <2>4. /\ Cardinality(rows) \in 0..Cardinality(Events) /\ IsFiniteSet(rows)
        /\ Cardinality(page[r].data) <= Cardinality(rows)
    BY <2>3, RowCount, FS_Subset DEF TypeOK, PageOf
  <2>5. /\ p \in Page /\ p.data = page[r].data
        /\ p.missed = page[r].missed /\ p.total = Cardinality(rows)
    BY <2>3, <2>4 DEF WithTotal, PageOf, Page
  <2> HIDE DEF p
  <2>6. PageOf(r)'
    BY <1>0, <2>2, <2>3, <2>4, <2>5 DEF PageOf
  <2> QED  BY <1>2, <2>1, <2>2, <2>6 DEF ReaderState
<1>9. CASE QueryFails(r)
  BY <1>1, <1>9 DEF QueryFails
<1>10. CASE CacheSet(r)
  BY <1>1, <1>10 DEF CacheSet
<1> QED  BY <1>3, <1>4, <1>5, <1>6, <1>7, <1>8, <1>9, <1>10 DEF ReaderStep
-----------------------------------------------------------------------------
(* Types.                                                                  *)

(* Reading preserves the types.                                            *)
LEMMA ReaderType ==
    ASSUME TypeOK, PageInv, NEW r \in Readers, ReaderStep(r)
    PROVE  TypeOK'
<1> SUFFICES /\ cache' \in [Keys -> Page \cup {NoPage}]
             /\ reader' \in [Readers -> ReaderState]
             /\ key' = key
             /\ page' \in [Readers -> Page \cup {NoPage}]
             /\ flight' \in [EventKeys -> Readers \cup {NoReader}]
             /\ readUnchanged
  <2>1. \A q \in Readers : reader'[q] \in Queried => page'[q] \in Page
    BY PageStep DEF PageInv, PageOf
  <2> QED  BY <2>1 DEF TypeOK, ReaderState, Queried, readUnchanged, writeVars
<1>1. ASSUME NEW o \in {"answered", "failed"}, Answer(r, o), UNCHANGED cache, readUnchanged
      PROVE  /\ cache' \in [Keys -> Page \cup {NoPage}]
             /\ reader' \in [Readers -> ReaderState]
             /\ key' = key
             /\ page' \in [Readers -> Page \cup {NoPage}]
             /\ flight' \in [EventKeys -> Readers \cup {NoReader}]
             /\ readUnchanged
  <2>1. /\ reader' \in [Readers -> ReaderState] /\ key' = key
        /\ page' \in [Readers -> Page \cup {NoPage}]
        /\ flight' \in [EventKeys -> Readers \cup {NoReader}]
    BY <1>1, AnswerFacts
  <2> QED  BY <1>1, <2>1 DEF TypeOK
<1>2. CASE ReadCheck(r)
  <2>1. CASE ReaderGoesTo(r, "missed") /\ UNCHANGED <<key, page, flight, cache>> /\ readUnchanged
    BY <2>1, ReaderGoesFacts DEF ReaderState, TypeOK
  <2> QED  BY <1>1, <1>2, <2>1 DEF ReadCheck, CacheGet
<1>3. CASE StatsRefused(r)
  BY <1>1, <1>3 DEF StatsRefused
<1>4. CASE JoinFlight(r)
  <2>1. ReaderGoesTo(r, "waiting") \/ ReaderGoesTo(r, "leading")
    BY <1>4 DEF JoinFlight
  <2>2. reader' \in [Readers -> ReaderState]
    BY <2>1, ReaderGoesFacts DEF ReaderState
  <2>3. flight' \in [EventKeys -> Readers \cup {NoReader}]
    BY <1>4 DEF JoinFlight, TypeOK
  <2> QED  BY <1>4, <2>2, <2>3 DEF JoinFlight, TypeOK
<1>5. CASE ReadRecheck(r)
  <2>1. CASE ReaderGoesTo(r, "querying") /\ UNCHANGED <<key, page, flight, cache>> /\ readUnchanged
    BY <2>1, ReaderGoesFacts DEF ReaderState, TypeOK
  <2> QED  BY <1>1, <1>5, <2>1 DEF ReadRecheck, CacheGet
<1>6. CASE QueryPage(r)
  <2>1. Cardinality(rows) \in 0..Cardinality(Events) /\ rows \subseteq Events
    BY RowCount DEF TypeOK
  <2>2. [data |-> rows, total |-> Cardinality(rows), missed |-> {}] \in Page
    BY <2>1 DEF Page
  <2>3. reader' \in [Readers -> ReaderState]
    BY <1>6 DEF QueryPage, ReaderGoesTo, ReaderState, TypeOK
  <2> QED  BY <1>6, <2>2, <2>3 DEF QueryPage, TypeOK
<1>7. CASE QueryTotal(r)
  <2>1. Cardinality(rows) \in 0..Cardinality(Events)
    BY RowCount DEF TypeOK
  <2>2. page[r] \in Page
    BY <1>7 DEF QueryTotal, PageInv, PageOf, Queried
  <2>3. WithTotal(page[r]) \in Page
    BY <2>1, <2>2 DEF WithTotal, Page
  <2>4. reader' \in [Readers -> ReaderState]
    BY <1>7, ReaderGoesFacts DEF QueryTotal, ReaderState
  <2> QED  BY <1>7, <2>3, <2>4 DEF QueryTotal, TypeOK
<1>8. CASE QueryFails(r)
  BY <1>1, <1>8 DEF QueryFails
<1>9. CASE CacheSet(r)
  <2>1. /\ reader' \in [Readers -> ReaderState] /\ key' = key
        /\ page' \in [Readers -> Page \cup {NoPage}]
        /\ flight' \in [EventKeys -> Readers \cup {NoReader}]
    BY <1>9, AnswerFacts DEF CacheSet
  <2>2. cache' \in [Keys -> Page \cup {NoPage}]
    BY <1>9 DEF CacheSet, TypeOK
  <2> QED  BY <1>9, <2>1, <2>2 DEF CacheSet
<1> QED  BY <1>2, <1>3, <1>4, <1>5, <1>6, <1>7, <1>8, <1>9 DEF ReaderStep

(* So do writing and invalidating, in the state of the writer.              *)
LEMMA WriterStateType ==
    ASSUME TypeOK, NEW e \in Events,
           WriteSync(e) \/ WriteAsync(e) \/ FlushAsync(e) \/ InvalidateStep(e)
    PROVE  /\ writer' \in [Events -> {"new", "refused", "events", "stats", "answered"}]
           /\ toScan' \in [Events -> SUBSET Keys] /\ found' \in [Events -> SUBSET Keys]
           /\ clean' \in [Events -> BOOLEAN] /\ cache' \in [Keys -> Page \cup {NoPage}]
<1>0. EventKeys \subseteq Keys /\ StatsKeys \subseteq Keys
  BY DEF Keys
<1>1. CASE WriteSync(e)
  BY <1>0, <1>1 DEF WriteSync, BeginInvalidateEvents, TypeOK
<1>2. CASE WriteAsync(e)
  BY <1>0, <1>2 DEF WriteAsync, BeginInvalidateEvents, TypeOK
<1>3. CASE FlushAsync(e)
  BY <1>3 DEF FlushAsync, writeVars, TypeOK
<1>4. CASE ScanKey(e)
  <2>1. PICK k \in toScan[e] :
         /\ toScan' = [toScan EXCEPT ![e] = @ \ {k}]
         /\ found' = [found EXCEPT ![e] = IF cache[k] = NoPage THEN @ ELSE @ \cup {k}]
    BY <1>4 DEF ScanKey
  <2>2. k \in Keys
    BY DEF TypeOK
  <2>3. toScan' \in [Events -> SUBSET Keys] /\ found' \in [Events -> SUBSET Keys]
    BY <2>1, <2>2 DEF TypeOK
  <2> QED  BY <1>4, <2>3 DEF ScanKey, TypeOK
<1>5. CASE ScanFails(e)
  BY <1>5 DEF ScanFails, TypeOK
<1>6. CASE DeleteFound(e)
  <2>1. cache' \in [Keys -> Page \cup {NoPage}]
    BY <1>6 DEF DeleteFound, TypeOK
  <2>2. clean' \in [Events -> BOOLEAN]
    BY <1>6 DEF DeleteFound, TypeOK
  <2> QED  BY <1>6, <2>1, <2>2 DEF DeleteFound, TypeOK
<1>7. CASE InvalidateStats(e)
  BY <1>0, <1>7 DEF InvalidateStats, TypeOK
<1>8. CASE WriteAnswered(e)
  BY <1>8 DEF WriteAnswered, TypeOK
<1> QED  BY <1>1, <1>2, <1>3, <1>4, <1>5, <1>6, <1>7, <1>8 DEF InvalidateStep

(* Writing and invalidating preserve the types, and the pages of readers.   *)
LEMMA WriterType ==
    ASSUME TypeOK, PageInv, NEW e \in Events,
           WriteSync(e) \/ WriteAsync(e) \/ FlushAsync(e) \/ InvalidateStep(e)
    PROVE  TypeOK' /\ PageInv'
<1>1. UNCHANGED <<reader, key, flight>>
  BY DEF WriteSync, WriteAsync, FlushAsync, InvalidateStep, ScanKey, ScanFails,
         DeleteFound, InvalidateStats, WriteAnswered, writeUnchanged
<1>2. Store(e) \/ StoreNothing
  BY DEF WriteSync, WriteAsync, FlushAsync, InvalidateStep, ScanKey, ScanFails,
         DeleteFound, InvalidateStats, WriteAnswered
<1>3. PageInv' /\ page' \in [Readers -> Page \cup {NoPage}]
  <2>1. CASE StoreNothing
    BY <1>1, <2>1, PageKept DEF StoreNothing, PageInv, TypeOK
  <2> QED  BY <1>1, <1>2, <2>1, PageSurvivesStore
<1>4. rows' \subseteq Events
  BY <1>2 DEF Store, StoreNothing, TypeOK
<1>5. /\ writer' \in [Events -> {"new", "refused", "events", "stats", "answered"}]
      /\ toScan' \in [Events -> SUBSET Keys] /\ found' \in [Events -> SUBSET Keys]
      /\ clean' \in [Events -> BOOLEAN] /\ cache' \in [Keys -> Page \cup {NoPage}]
  BY WriterStateType
<1>6. \A q \in Readers : reader'[q] \in {"counting", "storing"} => page'[q] \in Page
  BY <1>3 DEF PageInv, PageOf, Queried
<1> QED  BY <1>1, <1>3, <1>4, <1>5, <1>6 DEF TypeOK
-----------------------------------------------------------------------------
(* Cached pages.                                                           *)

(* What a reader does to the cache: nothing, or it stores its page.         *)
LEMMA ReaderCache ==
    ASSUME TypeOK, PageInv, NEW r \in Readers, ReaderStep(r)
    PROVE  \A k \in Keys : \/ cache'[k] = cache[k]
                           \/ /\ cache'[k] = page[r] /\ PageOf(r)
                              /\ reader[r] = "storing"
<1>1. CASE CacheSet(r)
  <2>1. PageOf(r) /\ reader[r] = "storing"
    BY <1>1 DEF CacheSet, PageInv, Queried
  <2>2. cache' = cache \/ cache' = [cache EXCEPT ![key[r]] = page[r]]
    BY <1>1 DEF CacheSet
  <2> QED  BY <2>1, <2>2 DEF TypeOK
<1>2. CASE ~CacheSet(r)
  BY <1>2 DEF ReaderStep, ReadCheck, StatsRefused, JoinFlight, ReadRecheck,
              QueryPage, QueryTotal, QueryFails, CacheGet
<1> QED  BY <1>1, <1>2

(* What the other steps do to it: they remove entries.                      *)
LEMMA WriterCache ==
    ASSUME TypeOK, NEW e \in Events,
           WriteSync(e) \/ WriteAsync(e) \/ FlushAsync(e) \/ InvalidateStep(e)
    PROVE  \A k \in Keys : cache'[k] \in {cache[k], NoPage}
<1>1. CASE DeleteFound(e)
  BY <1>1 DEF DeleteFound
<1>2. CASE ~DeleteFound(e)
  BY <1>2 DEF WriteSync, WriteAsync, FlushAsync, InvalidateStep, ScanKey, ScanFails,
              InvalidateStats, WriteAnswered
<1> QED  BY <1>1, <1>2

(* An entry that expires is removed and nothing else changes.               *)
LEMMA ExpireCache ==
    ASSUME TypeOK, NEW k \in Keys, Expire(k)
    PROVE  /\ \A j \in Keys : cache'[j] \in {cache[j], NoPage}
           /\ cache' \in [Keys -> Page \cup {NoPage}]
           /\ UNCHANGED <<rows, readVars, writeVars>>
BY DEF Expire, TypeOK

(* Only a full page of a reader enters the cache.                           *)
LEMMA CachedStep ==
    ASSUME TypeOK, PageInv, CachedInv, [Next]_vars
    PROVE  CachedInv'
<1> SUFFICES ASSUME NEW k \in Keys
             PROVE  \/ cache'[k] \in {cache[k], NoPage}
                    \/ Cardinality(cache'[k].data) <= cache'[k].total
  BY DEF CachedInv
<1>1. CASE UNCHANGED vars
  BY <1>1 DEF vars
<1>2. ASSUME NEW r \in Readers, ReaderStep(r)
      PROVE  \/ cache'[k] = cache[k]
             \/ Cardinality(cache'[k].data) <= cache'[k].total
  BY <1>2, ReaderCache DEF PageOf
<1>3. ASSUME NEW r \in Readers, Request(r) PROVE cache'[k] = cache[k]
  BY <1>3 DEF Request
<1> QED  BY <1>1, <1>2, <1>3, WriterCache, ExpireCache DEF Next
-----------------------------------------------------------------------------
(* The invalidation.                                                       *)

(* The scan of one writer is not disturbed by what leaves its own state and *)
(* the pages without its event alone.                                      *)
LEMMA ScanKept ==
    ASSUME NEW e \in SyncEvents, ScanOf(e), rows \subseteq rows',
           UNCHANGED <<writer[e], toScan[e], found[e], clean[e]>>,
           \A k \in Keys : Inserted(e) =>
               \/ cache'[k] \in {cache[k], NoPage}
               \/ e \in cache'[k].data \/ e \in cache'[k].missed
    PROVE  ScanOf(e)'
BY DEF ScanOf, Inserted, Stale, Pending

(* Readers store pages that have every event stored before their query.     *)
LEMMA ScanReader ==
    ASSUME TypeOK, PageInv, ScanInv, NEW r \in Readers, ReaderStep(r)
    PROVE  ScanInv'
<1> SUFFICES ASSUME NEW e \in SyncEvents PROVE ScanOf(e)'
  BY DEF ScanInv
<1>1. ScanOf(e)
  BY DEF ScanInv
<1>2. UNCHANGED <<rows, writer, toScan, found, clean>>
  BY DEF ReaderStep, ReadCheck, StatsRefused, JoinFlight, ReadRecheck, QueryPage,
         QueryTotal, QueryFails, CacheSet, CacheGet, readUnchanged, writeVars
<1>3. ASSUME NEW k \in Keys, Inserted(e)
      PROVE  \/ cache'[k] = cache[k]
             \/ e \in cache'[k].data \/ e \in cache'[k].missed
  <2>1. e \in rows
    BY <1>1, <1>3 DEF ScanOf
  <2> QED  BY <2>1, ReaderCache DEF PageOf
<1> QED  BY <1>1, <1>2, <1>3, ScanKept

(* One writer does not disturb the scan of another.                         *)
LEMMA ScanOther ==
    ASSUME TypeOK, ScanInv, NEW e \in SyncEvents, NEW f \in Events, e # f,
           WriteSync(f) \/ WriteAsync(f) \/ FlushAsync(f) \/ InvalidateStep(f)
    PROVE  ScanOf(e)'
<1>0. e \in Events /\ ScanOf(e)
  BY DEF Events, ScanInv
<1>1. rows \subseteq rows'
  BY <1>0 DEF WriteSync, WriteAsync, FlushAsync, InvalidateStep, ScanKey, ScanFails,
              DeleteFound, InvalidateStats, WriteAnswered, Store, StoreNothing
<1>2. UNCHANGED <<writer[e], toScan[e]>>
  BY <1>0 DEF WriteSync, WriteAsync, FlushAsync, InvalidateStep, ScanKey, ScanFails,
              DeleteFound, InvalidateStats, WriteAnswered, BeginInvalidateEvents,
              writeVars, TypeOK
<1>3. UNCHANGED <<found[e], clean[e]>>
  BY <1>0 DEF WriteSync, WriteAsync, FlushAsync, InvalidateStep, ScanKey, ScanFails,
              DeleteFound, InvalidateStats, WriteAnswered, BeginInvalidateEvents,
              writeVars, TypeOK
<1> QED  BY <1>0, <1>1, <1>2, <1>3, WriterCache, ScanKept

(* A pattern is done when nothing is left to scan or to delete.             *)
LEMMA PatternDoneEmpty ==
    ASSUME NEW e \in Events, PatternDone(e)
    PROVE  toScan[e] = {} /\ found[e] = {}
BY DEF PatternDone, DeleteDue

(* The steps of a writer: the scan passes no page without deleting it.      *)
LEMMA ScanOwn ==
    ASSUME TypeOK, ScanInv, NEW e \in SyncEvents,
           WriteSync(e) \/ WriteAsync(e) \/ FlushAsync(e) \/ InvalidateStep(e)
    PROVE  ScanOf(e)'
<1>0. e \in Events /\ e \notin AsyncEvents /\ ScanOf(e)
  BY CacheAssumption DEF Events, ScanInv
<1>1. CASE WriteSync(e)
  <2>1. CASE Store(e) /\ BeginInvalidateEvents(e)
    <3>1. writer'[e] = "events" /\ toScan'[e] = EventKeys /\ e \in rows'
      BY <1>0, <2>1 DEF Store, BeginInvalidateEvents, TypeOK
    <3>2. \A k \in Keys : Pending(e, k)'
      BY <3>1 DEF Pending, Keys
    <3> QED  BY <3>1, <3>2 DEF ScanOf
  <2>2. CASE writer' = [writer EXCEPT ![e] = "refused"]
    BY <1>0, <2>2 DEF ScanOf, Inserted, TypeOK
  <2> QED  BY <1>1, <2>1, <2>2 DEF WriteSync
<1>2. CASE ScanKey(e)
  <2>1. PICK j \in toScan[e] :
         /\ toScan' = [toScan EXCEPT ![e] = @ \ {j}]
         /\ found' = [found EXCEPT ![e] = IF cache[j] = NoPage THEN @ ELSE @ \cup {j}]
    BY <1>2 DEF ScanKey
  <2>2. /\ toScan'[e] = toScan[e] \ {j}
        /\ found'[e] = IF cache[j] = NoPage THEN found[e] ELSE found[e] \cup {j}
    BY <1>0, <2>1 DEF TypeOK
  <2>3. UNCHANGED <<rows, cache, writer, clean>> /\ writer[e] \in {"events", "stats"}
    BY <1>2 DEF ScanKey, StoreNothing
  <2>4. ASSUME NEW k \in Keys, Stale(e, k), Pending(e, k) PROVE Pending(e, k)'
    BY <2>2, <2>3, <2>4 DEF Stale, Pending
  <2>5. ASSUME NEW k \in Keys, Stale(e, k)' PROVE Stale(e, k)
    BY <2>3, <2>5 DEF Stale
  <2> QED  BY <1>0, <2>3, <2>4, <2>5 DEF ScanOf, Inserted
<1>3. CASE ScanFails(e)
  <2>1. clean'[e] = FALSE /\ UNCHANGED <<rows, writer>>
    BY <1>0, <1>3 DEF ScanFails, StoreNothing, TypeOK
  <2> QED  BY <1>0, <2>1 DEF ScanOf, Inserted
<1>4. CASE DeleteFound(e)
  <2>1. UNCHANGED <<rows, writer, toScan>>
    BY <1>4 DEF DeleteFound, StoreNothing
  <2>2. CASE clean' = [clean EXCEPT ![e] = FALSE]
    <3>1. clean'[e] = FALSE
      BY <1>0, <2>2 DEF TypeOK
    <3> QED  BY <1>0, <2>1, <3>1 DEF ScanOf, Inserted
  <2>3. CASE /\ cache' = [k \in Keys |-> IF k \in found[e] THEN NoPage ELSE cache[k]]
             /\ UNCHANGED clean
    <3>1. ASSUME NEW k \in Keys, Stale(e, k)' PROVE Stale(e, k) /\ k \notin found[e]
      BY <2>1, <2>3, <3>1 DEF Stale
    <3>2. ASSUME NEW k \in Keys, Pending(e, k), k \notin found[e] PROVE Pending(e, k)'
      BY <2>1, <3>2 DEF Pending
    <3> QED  BY <1>0, <2>1, <2>3, <3>1, <3>2 DEF ScanOf, Inserted
  <2> QED  BY <1>4, <2>2, <2>3 DEF DeleteFound
<1>5. CASE InvalidateStats(e)
  <2>1. /\ writer[e] = "events" /\ writer'[e] = "stats" /\ toScan'[e] = StatsKeys
        /\ UNCHANGED <<rows, cache, clean>>
    BY <1>0, <1>5 DEF InvalidateStats, StoreNothing, TypeOK
  <2>2. toScan[e] = {} /\ found[e] = {}
    BY <1>0, <1>5, PatternDoneEmpty DEF InvalidateStats
  <2>3. ASSUME NEW k \in Keys, Pending(e, k) PROVE Pending(e, k)'
    BY <2>1, <2>2, <2>3 DEF Pending
  <2>4. ASSUME NEW k \in Keys, Stale(e, k)' PROVE Stale(e, k)
    BY <2>1, <2>4 DEF Stale
  <2> QED  BY <1>0, <2>1, <2>3, <2>4 DEF ScanOf, Inserted
<1>6. CASE WriteAnswered(e)
  <2>1. /\ writer[e] = "stats" /\ UNCHANGED <<rows, cache, clean>>
    BY <1>6 DEF WriteAnswered, StoreNothing
  <2>2. \A k \in Keys : ~Pending(e, k)
    BY <1>0, <1>6, <2>1, PatternDoneEmpty DEF WriteAnswered, Pending
  <2>3. ASSUME NEW k \in Keys, Stale(e, k)' PROVE Stale(e, k)
    BY <2>1, <2>3 DEF Stale
  <2> QED  BY <1>0, <2>1, <2>2, <2>3 DEF ScanOf, Inserted
<1> QED  BY <1>0, <1>1, <1>2, <1>3, <1>4, <1>5, <1>6
           DEF WriteAsync, FlushAsync, InvalidateStep
-----------------------------------------------------------------------------
(* The invariant.                                                          *)

(* Nothing is cached, queried or written at first.                         *)
LEMMA InvInit == Init => Inv
<1> SUFFICES ASSUME Init PROVE Inv
  OBVIOUS
<1>1. TypeOK
  BY DEF Init, TypeOK
<1>2. FlightInv /\ PageInv
  BY DEF Init, FlightInv, PageInv, Fetching, Queried
<1>3. CachedInv /\ ScanInv
  BY DEF Init, CachedInv, ScanInv, ScanOf, Inserted, Events
<1> QED  BY <1>1, <1>2, <1>3 DEF Inv

(* A new request touches neither the flights nor what others have read.     *)
LEMMA RequestKeeps ==
    ASSUME TypeOK, FlightInv, PageInv, ScanInv, NEW r \in Readers, Request(r)
    PROVE  TypeOK' /\ FlightInv' /\ PageInv' /\ ScanInv'
<1>1. /\ reader[r] \notin Fetching /\ reader'[r] = "new" /\ reader' \in [Readers -> ReaderState]
      /\ \A q \in Readers : q # r => reader'[q] = reader[q]
  BY ReaderGoesFacts DEF Request, ReaderState, Fetching
<1>2. key' \in [Readers -> Keys] /\ \A q \in Readers : q # r => key'[q] = key[q]
  BY DEF Request, TypeOK
<1>3. UNCHANGED <<rows, cache, page, flight, writer, toScan, found, clean>>
  BY DEF Request, readUnchanged, writeVars
<1>4. PageInv'
  <2> SUFFICES ASSUME NEW q \in Readers, reader'[q] \in Queried PROVE PageOf(q)'
    BY DEF PageInv
  <2>1. q # r
    BY <1>1 DEF Queried
  <2> QED  BY <1>1, <1>3, <2>1, PageKept DEF PageInv
<1>5. TypeOK'
  <2>1. \A q \in Readers : reader'[q] \in Queried => page'[q] \in Page
    BY <1>4 DEF PageInv, PageOf
  <2> QED  BY <1>1, <1>2, <1>3, <2>1 DEF TypeOK, ReaderState, Queried
<1>6. FlightInv'
  <2>1. \A k \in EventKeys : flight[k] # NoReader => flight[k] \in Readers \ {r}
    BY <1>1 DEF TypeOK, FlightInv
  <2> QED  BY <1>1, <1>2, <1>3, <2>1 DEF FlightInv, Fetching
<1>7. ScanInv'
  BY <1>3 DEF ScanInv, ScanOf, Inserted, Stale, Pending
<1> QED  BY <1>4, <1>5, <1>6, <1>7

(* Every step of a reader, a writer or the TTL of a key preserves it.       *)
LEMMA InvNext == Inv /\ [Next]_vars => Inv'
<1> SUFFICES ASSUME Inv, [Next]_vars PROVE Inv'
  OBVIOUS
<1>0. TypeOK /\ FlightInv /\ PageInv /\ CachedInv /\ ScanInv /\ CachedInv'
  BY CachedStep DEF Inv
<1>1. CASE UNCHANGED vars
  <2>1. TypeOK' /\ FlightInv'
    BY <1>0, <1>1 DEF vars, readVars, writeVars, TypeOK, FlightInv
  <2>2. PageInv' /\ ScanInv'
    BY <1>0, <1>1 DEF vars, readVars, writeVars, PageInv, PageOf, ScanInv, ScanOf,
                      Inserted, Stale, Pending
  <2> QED  BY <1>0, <2>1, <2>2 DEF Inv
<1>2. ASSUME NEW r \in Readers, ReaderStep(r) PROVE Inv'
  BY <1>0, <1>2, ReaderType, FlightStep, PageStep, ScanReader DEF Inv
<1>3. ASSUME NEW f \in Events,
             WriteSync(f) \/ WriteAsync(f) \/ FlushAsync(f) \/ InvalidateStep(f)
      PROVE  Inv'
  <2>1. TypeOK' /\ PageInv'
    BY <1>0, <1>3, WriterType
  <2>2. UNCHANGED <<reader, key, flight>>
    BY <1>3 DEF WriteSync, WriteAsync, FlushAsync, InvalidateStep, ScanKey, ScanFails,
                DeleteFound, InvalidateStats, WriteAnswered, writeUnchanged
  <2>3. FlightInv'
    BY <1>0, <2>2 DEF FlightInv
  <2>4. ScanInv'
    BY <1>0, <1>3, ScanOwn, ScanOther DEF ScanInv
  <2> QED  BY <1>0, <2>1, <2>3, <2>4 DEF Inv
<1>4. ASSUME NEW k \in Keys, Expire(k) PROVE Inv'
  <2>1. /\ \A j \in Keys : cache'[j] \in {cache[j], NoPage}
        /\ cache' \in [Keys -> Page \cup {NoPage}]
        /\ UNCHANGED <<rows, readVars, writeVars>>
    BY <1>0, <1>4, ExpireCache
  <2>2. TypeOK' /\ FlightInv'
    BY <1>0, <2>1 DEF readVars, writeVars, TypeOK, FlightInv
  <2>3. PageInv'
    BY <1>0, <2>1, PageKept DEF readVars, PageInv
  <2>4. ScanInv'
    BY <1>0, <2>1, ScanKept DEF writeVars, ScanInv
  <2> QED  BY <1>0, <2>2, <2>3, <2>4 DEF Inv
<1>5. ASSUME NEW r \in Readers, Request(r) PROVE Inv'
  BY <1>0, <1>5, RequestKeeps DEF Inv
<1> QED  BY <1>1, <1>2, <1>3, <1>4, <1>5 DEF Next

(* The invariant holds in every reachable state.                           *)
LEMMA Invariant == Spec => []Inv
BY InvInit, InvNext, PTL DEF Spec

(* The read path keeps its types: a failed query never enters the cache.    *)
THEOREM TypeCorrect == Spec => []TypeOK
<1>1. Inv => TypeOK
  BY DEF Inv
<1> QED  BY <1>1, Invariant, PTL

(* Of any number of requests for a page, one at a time is past sfGroup.Do   *)
(* and reads the cache or the database for it, whatever fails or expires.  *)
THEOREM StampedesNeverHappen == Spec => []NoStampede
<1>1. Inv => NoStampede
  <2> SUFFICES ASSUME FlightInv, NEW k \in EventKeys
               PROVE  Cardinality({r \in Readers : key[r] = k /\ reader[r] \in Fetching}) <= 1
    BY DEF Inv, NoStampede, Fetching
  <2> DEFINE S == {r \in Readers : key[r] = k /\ reader[r] \in Fetching}
  <2>1. S \in SUBSET {flight[k]}
    BY DEF FlightInv
  <2>2. IsFiniteSet({flight[k]}) /\ Cardinality({flight[k]}) = 1
    BY FS_Singleton
  <2>3. Cardinality(S) <= Cardinality({flight[k]})
    <3> HIDE DEF S
    <3> QED  BY <2>1, <2>2, FS_Subset
  <2> QED  BY <2>2, <2>3
<1> QED  BY <1>1, Invariant, PTL

(* No cached page shows more events than the total next to it, although     *)
(* any number of inserts may fall between its two queries.                 *)
THEOREM TotalsCoverPages == Spec => []TotalCoversPage
<1>1. Inv => TotalCoversPage
  BY DEF Inv, CachedInv, TotalCoversPage, Keys
<1> QED  BY <1>1, Invariant, PTL

(* After a synchronous create whose invalidation met no Redis error, a      *)
(* cached page can lack the event only if a reader held it at the insert:   *)
(* for any number of readers and writers, any order of the scan, any batch  *)
(* size of its deletions.                                                  *)
THEOREM StaleNeedsOverlap == Spec => []StaleOnlyByOverlap
<1>1. Inv => StaleOnlyByOverlap
  <2> SUFFICES ASSUME ScanInv, NEW e \in SyncEvents, writer[e] = "answered", clean[e],
                      NEW k \in Keys, cache[k] # NoPage, e \notin cache[k].data
               PROVE  e \in cache[k].missed
    BY DEF Inv, StaleOnlyByOverlap
  <2>1. ~Pending(e, k)
    BY DEF Pending
  <2>2. Stale(e, k) => Pending(e, k)
    BY DEF ScanInv, ScanOf, Inserted
  <2> QED  BY <2>1, <2>2 DEF Stale
<1> QED  BY <1>1, Invariant, PTL
-----------------------------------------------------------------------------
(* What ReadersAnswered needs besides fairness.                            *)

(* Whoever waits in sfGroup.Do waits for a key that is in flight.           *)
WaitInv ==
    \A q \in Readers : reader[q] = "waiting" =>
        key[q] \in EventKeys /\ flight[key[q]] # NoReader

(* An answer leaves nobody behind that waited for it.                       *)
LEMMA WaitAnswer ==
    ASSUME TypeOK, FlightInv, WaitInv, NEW r \in Readers,
           NEW o \in {"answered", "failed"}, Answer(r, o)
    PROVE  WaitInv'
<1> SUFFICES ASSUME NEW q \in Readers, reader'[q] = "waiting"
             PROVE  key'[q] \in EventKeys /\ flight'[key'[q]] # NoReader
  BY DEF WaitInv
<1>1. q \notin AnsweredWith(r) /\ reader[q] = "waiting" /\ key' = key
  BY DEF Answer
<1>2. key[q] \in EventKeys /\ flight[key[q]] # NoReader
  BY <1>1 DEF WaitInv
<1>3. flight[key[q]] # r
  <2>1. flight[key[q]] = r => key[r] = key[q] /\ Leads(r)
    BY <1>2 DEF FlightInv, Leads
  <2> QED  BY <1>1, <2>1 DEF AnsweredWith
<1>4. flight'[key[q]] = flight[key[q]]
  BY <1>2, <1>3, AnswerFacts
<1> QED  BY <1>1, <1>2, <1>4

(* Readers wait for a flight, which lasts until they are answered.          *)
LEMMA WaitStep ==
    ASSUME TypeOK, FlightInv, WaitInv, NEW r \in Readers, ReaderStep(r)
    PROVE  WaitInv'
<1>1. ASSUME NEW s \in ReaderState \ {"waiting"}, ReaderGoesTo(r, s),
             UNCHANGED <<key, flight>>
      PROVE  WaitInv'
  <2>1. reader'[r] = s /\ \A q \in Readers : q # r => reader'[q] = reader[q]
    BY <1>1, ReaderGoesFacts
  <2> QED  BY <1>1, <2>1 DEF WaitInv
<1>2. CASE JoinFlight(r)
  <2>0. key' = key /\ key[r] \in Keys /\ NoReader \notin Readers
    BY <1>2, CacheAssumption DEF JoinFlight, TypeOK
  <2>1. CASE key[r] \in EventKeys /\ flight[key[r]] # NoReader
    <3>1. ReaderGoesTo(r, "waiting") /\ flight' = flight
      BY <1>2, <2>1 DEF JoinFlight
    <3>2. \A q \in Readers : q # r => reader'[q] = reader[q]
      BY <3>1, ReaderGoesFacts DEF ReaderState
    <3> QED  BY <2>0, <2>1, <3>1, <3>2 DEF WaitInv
  <2>2. CASE ~(key[r] \in EventKeys /\ flight[key[r]] # NoReader)
    <3>1. /\ ReaderGoesTo(r, "leading")
          /\ flight' = [k \in EventKeys |-> IF k = key[r] THEN r ELSE flight[k]]
      BY <1>2, <2>2 DEF JoinFlight
    <3>2. reader'[r] = "leading" /\ \A q \in Readers : q # r => reader'[q] = reader[q]
      BY <3>1, ReaderGoesFacts DEF ReaderState
    <3> QED  BY <2>0, <3>1, <3>2 DEF WaitInv
  <2> QED  BY <2>1, <2>2
<1>3. CASE QueryPage(r)
  BY <1>1, <1>3 DEF QueryPage, ReaderState
<1>4. CASE QueryTotal(r)
  BY <1>1, <1>4 DEF QueryTotal, ReaderState
<1>5. CASE ReadCheck(r) \/ ReadRecheck(r)
  BY <1>1, <1>5, WaitAnswer DEF ReadCheck, ReadRecheck, CacheGet, ReaderState
<1>6. CASE StatsRefused(r) \/ QueryFails(r) \/ CacheSet(r)
  BY <1>6, WaitAnswer DEF StatsRefused, QueryFails, CacheSet
<1> QED  BY <1>2, <1>3, <1>4, <1>5, <1>6 DEF ReaderStep

(* No wake-up is lost: every reader that waits in sfGroup.Do has a leader    *)
(* for its own key that is still fetching, and whose next answer or error   *)
(* therefore reaches it.  With fairness this is ReadersAnswered.            *)
WaitersServed ==
    \A q \in Readers : reader[q] = "waiting" =>
        \E r \in Readers : Leads(r) /\ key[r] = key[q] /\ reader[r] \in Fetching

(* However many readers wait for a page, none is left without its leader.   *)
THEOREM WaitersHaveALeader == Spec => []WaitersServed
<1>1. Init => WaitInv
  BY DEF Init, WaitInv
<1>2. Inv /\ WaitInv /\ [Next]_vars => WaitInv'
  <2> SUFFICES ASSUME Inv, WaitInv, [Next]_vars PROVE WaitInv'
    OBVIOUS
  <2>1. ASSUME NEW r \in Readers, ReaderStep(r) PROVE WaitInv'
    BY <2>1, WaitStep DEF Inv
  <2>2. ASSUME NEW r \in Readers, Request(r) PROVE WaitInv'
    <3>1. /\ reader'[r] = "new" /\ \A q \in Readers : q # r => reader'[q] = reader[q]
          /\ \A q \in Readers : q # r => key'[q] = key[q]
          /\ flight' = flight
      BY <2>2, ReaderGoesFacts DEF Request, ReaderState, Inv, TypeOK
    <3> QED  BY <3>1 DEF WaitInv
  <2>3. CASE UNCHANGED <<reader, key, flight>>
    BY <2>3 DEF WaitInv
  <2>4. \/ \E r \in Readers : Request(r) \/ ReaderStep(r)
        \/ UNCHANGED <<reader, key, flight>>
    BY DEF Next, vars, readVars, Expire, WriteSync, WriteAsync, FlushAsync,
           InvalidateStep, ScanKey, ScanFails, DeleteFound, InvalidateStats,
           WriteAnswered, writeUnchanged
  <2> QED  BY <2>1, <2>2, <2>3, <2>4
<1>3. Inv /\ WaitInv => WaitersServed
  <2> SUFFICES ASSUME Inv, WaitInv, NEW q \in Readers, reader[q] = "waiting"
               PROVE  \E r \in Readers : /\ Leads(r) /\ key[r] = key[q]
                                         /\ reader[r] \in Fetching
    BY DEF WaitersServed
  <2>1. key[q] \in EventKeys /\ flight[key[q]] \in Readers
    BY DEF Inv, TypeOK, WaitInv
  <2>2. /\ Leads(flight[key[q]]) /\ key[flight[key[q]]] = key[q]
        /\ reader[flight[key[q]]] \in Fetching
    BY <2>1, CacheAssumption DEF Inv, FlightInv, Leads
  <2> QED  BY <2>1, <2>2
<1> QED  BY <1>1, <1>2, <1>3, Invariant, PTL DEF Spec

(* A page lacks a stored event only if its reader held it at the insert:     *)
(* this is so of every page at the moment Cache.Set stores it, for queued    *)
(* events too, and whether or not an invalidation has failed.              *)
PageEntersFresh ==
    \A k \in Keys : cache'[k] \notin {cache[k], NoPage} =>
        \A e \in rows' : e \in cache'[k].data \/ e \in cache'[k].missed

(* Cache.Set never puts in a page that was out of date when it was read.    *)
THEOREM PagesEnterFresh == Spec => [][PageEntersFresh]_vars
<1>1. Inv /\ [Next]_vars => [PageEntersFresh]_vars
  <2> SUFFICES ASSUME Inv, [Next]_vars, NEW k \in Keys,
                      cache'[k] \notin {cache[k], NoPage}, NEW e \in rows'
               PROVE  e \in cache'[k].data \/ e \in cache'[k].missed
    BY DEF PageEntersFresh
  <2>1. PICK r \in Readers : ReaderStep(r)
    BY WriterCache, ExpireCache DEF Inv, Next, Request, vars
  <2>2. cache'[k] = page[r] /\ PageOf(r)
    BY <2>1, ReaderCache DEF Inv
  <2>3. UNCHANGED rows
    BY <2>1 DEF ReaderStep, ReadCheck, StatsRefused, JoinFlight, ReadRecheck,
                QueryPage, QueryTotal, QueryFails, CacheSet, CacheGet, readUnchanged
  <2> QED  BY <2>2, <2>3 DEF PageOf
<1> QED  BY <1>1, Invariant, PTL DEF Spec
=============================================================================
