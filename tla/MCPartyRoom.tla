----------------------------- MODULE MCPartyRoom -----------------------------
(* A small hosted room for TLC. *)
EXTENDS PartyRoom

CONSTANTS t1, t2, p1, p2
=============================================================================
