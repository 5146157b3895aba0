---------------------------- MODULE MCPartyGame ----------------------------
(* Small rooms for TLC. *)
EXTENDS PartyGame, TLC

CONSTANTS p1, p2, p3, p4, truth, lieA, lieB

AllModes == Individual \cup {"decoy", "teams"}
Phones == Permutations(Phone)
=============================================================================
