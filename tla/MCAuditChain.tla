---------------------------- MODULE MCAuditChain ----------------------------
(***************************************************************************)
(* Small instances of AuditChain.                                          *)
(***************************************************************************)
EXTENDS AuditChain, TLC

CONSTANTS w1, w2, t1, t2

(* Tenant t1 only uses the gateway; the jobs of t2 run on the worker too. *)
GatewayAndWorker == (t1 :> {w1}) @@ (t2 :> {w1, w2})
Everyone == [t \in Tenants |-> Writers]
=============================================================================
