------------------------- MODULE MCCredentialVault -------------------------
(***************************************************************************)
(* A small instance of CredentialVault.                                    *)
(***************************************************************************)
EXTENDS CredentialVault, TLC

Symmetry == UNION {Permutations(S) : S \in {Requests, Tenants, Keys}}
=============================================================================
