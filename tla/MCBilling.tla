----------------------------- MODULE MCBilling -----------------------------
(* Two checkouts and two calls for TLC. *)
EXTENDS Billing, TLC

CONSTANTS k1, k2, h1, h2

Names == Permutations(Checkout) \cup Permutations(Handler)
=============================================================================
