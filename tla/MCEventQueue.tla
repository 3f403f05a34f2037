--------------------------- MODULE MCEventQueue ---------------------------
(***************************************************************************)
(* Small instances of EventQueue for TLC.                                  *)
(***************************************************************************)
EXTENDS EventQueue, TLC

(* Good events are interchangeable; so are bad ones.                        *)
Symmetry == Permutations(Events \ BadEvents) \cup Permutations(BadEvents)
=============================================================================
