--------------------------- MODULE MCPersistence ----------------------------
(* Model checking of Persistence: model values for events and goroutines.  *)
EXTENDS Persistence

CONSTANTS e1, e2, c1, c2
=============================================================================
