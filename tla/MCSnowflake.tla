---------------------------- MODULE MCSnowflake ----------------------------
(***************************************************************************)
(* A small instance of Snowflake for TLC: two API servers, with a 1-bit    *)
(* node number and a 1-bit sequence.                                        *)
(***************************************************************************)
EXTENDS Snowflake, TLC

CONSTANTS api, replica

(* One server with the default node number and one that was given another   *)
(* by SNOWFLAKE_NODE_ID.  The seeder hard-codes the default: with a server  *)
(* that has it too, UniqueNodes does not hold, and IDs may repeat.          *)
TwoNodes == (api :> 1) @@ (replica :> 0)
=============================================================================
