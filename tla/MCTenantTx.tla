---------------------------- MODULE MCTenantTx ----------------------------
(***************************************************************************)
(* Small instances of TenantTx.  Two requests share the gateway's single   *)
(* client, and a third runs beside them: a job of the worker, another      *)
(* process (MCTenantTx.cfg), or a request of the vault, in the gateway's   *)
(* own process (MCTenantTxVault.cfg).                                      *)
(***************************************************************************)
EXTENDS TenantTx, TLC

CONSTANTS gateway, worker, gatewayPool, vaultPool, workerPool, g1, v1, w1,
          r1, r2, r3, t1, t2

MCProcOf ==
  [p \in Pools |-> IF p = workerPool THEN worker ELSE gateway]
MCConnPool ==
  [c \in Conns |-> CASE c = g1 -> gatewayPool [] c = v1 -> vaultPool
                     [] c = w1 -> workerPool]
BesideGateway == CHOOSE p \in Pools : p # gatewayPool
MCPoolOf == [r \in Requests |-> IF r = r3 THEN BesideGateway ELSE gatewayPool]
=============================================================================
