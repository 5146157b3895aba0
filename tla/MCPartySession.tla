--------------------------- MODULE MCPartySession ---------------------------
(* One TV and one phone for TLC. *)
EXTENDS PartySession

CONSTANTS tv, p1, c1
=============================================================================
