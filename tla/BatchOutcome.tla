---------------------------- MODULE BatchOutcome ----------------------------
(***************************************************************************)
(* What retry.BatchRetry promises the flush that calls it, without         *)
(* attempts, delays or goroutines: the batch is stored whole, or each item *)
(* is stored or dead-lettered on its own, in any order.  EventQueue takes  *)
(* exactly these steps (BatchInsert, ItemInsert); Retry implements them.   *)
(***************************************************************************)
EXTENDS Integers, Sequences, Functions

CONSTANTS
    Items,      \* the events of the batch
    BadItems    \* those PostgreSQL refuses

VARIABLES db, phase, pending, dlq, cancelled

vars == <<db, phase, pending, dlq, cancelled>>

Init ==
    /\ db \in SUBSET (Items \ BadItems)
    /\ phase = "batch"
    /\ pending = {}
    /\ dlq = <<>>
    /\ cancelled \in BOOLEAN

Stored(S) == S \cap (db \cup BadItems) = {} /\ db' = db \cup S

(* The batch succeeds, or fails, whether or not it was committed.          *)
BatchInsert ==
    /\ phase = "batch"
    /\ \/ /\ ~cancelled
          /\ Stored(Items)
          /\ phase' = "done"
          /\ UNCHANGED pending
       \/ /\ db' = db \/ Stored(Items)
          /\ phase' = "items"
          /\ pending' = Items
    /\ UNCHANGED <<dlq, cancelled>>

ItemInsert(i) ==
    /\ phase = "items"
    /\ i \in pending
    /\ \/ ~cancelled /\ Stored({i}) /\ UNCHANGED dlq
       \/ (db' = db \/ Stored({i})) /\ dlq' = Append(dlq, i)
    /\ pending' = pending \ {i}
    /\ phase' = IF pending' = {} THEN "done" ELSE "items"
    /\ UNCHANGED cancelled

Cancel ==
    /\ ~cancelled
    /\ cancelled' = TRUE
    /\ UNCHANGED <<db, phase, pending, dlq>>

Next == BatchInsert \/ (\E i \in Items : ItemInsert(i)) \/ Cancel

Spec == Init /\ [][Next]_vars
=============================================================================
