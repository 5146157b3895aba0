----------------------------- MODULE MCLanRelay -----------------------------
(* A small room for TLC. *)
EXTENDS LanRelay

CONSTANTS t1, t2, p1, p2
=============================================================================
