--------------------------- MODULE MCConnections ---------------------------
(***************************************************************************)
(* A small instance of Connections.                                        *)
(***************************************************************************)
EXTENDS Connections, TLC

Symmetry ==
  UNION {Permutations(S) : S \in {Requests, Tenants, Providers, Conns}}
=============================================================================
