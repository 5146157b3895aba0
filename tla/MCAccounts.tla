----------------------------- MODULE MCAccounts -----------------------------
(* Accounts, addresses, callsigns and requests for TLC. *)
EXTENDS Accounts, TLC

CONSTANTS u1, u2, e1, t1, t2, n1, n2, r1, r2

(* The addresses that wiping u1 and u2 leaves; one can be registered by the other. *)
Tombstones == u1 :> t1 @@ u2 :> t2

(* Accounts change places together with their tombstones. *)
Swap == u1 :> u2 @@ u2 :> u1 @@ t1 :> t2 @@ t2 :> t1
Interchangeable == {Swap} \cup Permutations({r1, r2})
=============================================================================
