---------------------------- MODULE MCTypeStore -----------------------------
(* Model checking of TypeStore: one batch of two types, a synchronous       *)
(* create and a fallback that compete for them.                            *)
EXTENDS TypeStore, TLC

CONSTANTS n1, n2, b, c, f

MCWanted == (b :> <<n1, n2>>) @@ (c :> <<n2>>) @@ (f :> <<n1>>)
MCSeedNames == <<n2>>

(* The histories that nothing in the run types reads are left out.          *)
TypesView ==
    <<tableVars, cacheVars, job, got, seen, tries, [j \in Batches |-> blamed[j]],
      tool, largest, cleaned, intruded, late>>
=============================================================================
