------------------------------ MODULE MCRetry -------------------------------
(***************************************************************************)
(* A small instance of Retry for TLC: three items, of which the initial    *)
(* states have any subset stored already, so that some or all of them are  *)
(* refused, and two slots to retry them in.                                *)
(***************************************************************************)
EXTENDS Retry

CONSTANTS e1, e2, e3
=============================================================================
