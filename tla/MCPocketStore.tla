--------------------------- MODULE MCPocketStore ---------------------------
(* A few answers for TLC. *)
EXTENDS PocketStore

CONSTANTS a1, a2, r1
=============================================================================
