----------------------------- MODULE MCErasure -----------------------------
(***************************************************************************)
(* A small instance of Erasure.  The table the migrations forgot is made   *)
(* by hand, and app_user may read the audit log.                           *)
(***************************************************************************)
EXTENDS Erasure, TLC

CONSTANTS t1, t2

Old1(table) == [table |-> table, tenant |-> t1, id |-> Old]

(* Rows of both tenants, in tables the function deletes from early and in  *)
(* the middle.                                                             *)
SomeRows ==
  {Old1("oauth_connections"), Old1("credential_vault"), Old1("tenant_settings"),
   [table |-> "credential_vault", tenant |-> t2, id |-> Old]}

=============================================================================
