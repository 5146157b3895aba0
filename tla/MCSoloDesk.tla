----------------------------- MODULE MCSoloDesk -----------------------------
(* The desk with short decks for TLC. *)
EXTENDS SoloDesk
=============================================================================
