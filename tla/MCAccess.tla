------------------------------ MODULE MCAccess -----------------------------
(* Access with two users and two keys, one of them listed with a role that *)
(* is misspelt.  Flags, secrets and lives change at restarts; that the     *)
(* listed keys may change as well is left to the proofs.                   *)
EXTENDS Access, TLC

CONSTANTS u1, u2, k1, k2

MCUserRole == u1 :> "operator" @@ u2 :> "viewer"
MCApiKeys  == {k1 :> "operator" @@ k2 :> "reader"}

Symm == Permutations(Secrets)
=============================================================================
