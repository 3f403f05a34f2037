---------------------------- MODULE MCReadCache -----------------------------
(* Model-checking instance of ReadCache.                                   *)
EXTENDS ReadCache, TLC

(* GET requests are interchangeable; so are pages.                          *)
Symmetry == Permutations(Readers) \cup Permutations(EventKeys)

(* The histories of queued events, which nothing in the run cache_safe      *)
(* reads, are left out.                                                    *)
SyncOnly(p) == IF p = NoPage THEN p ELSE [p EXCEPT !.missed = @ \cap SyncEvents]

SafeView ==
    <<rows, [k \in Keys |-> SyncOnly(cache[k])], reader, key,
      [r \in Readers |-> SyncOnly(page[r])], flight, writer, toScan, found,
      [e \in SyncEvents |-> clean[e]]>>
=============================================================================
