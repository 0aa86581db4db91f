------------------------------- MODULE Schema -------------------------------
(***************************************************************************)
(* What db/migrations/ leaves behind: which tables exist after the first   *)
(* `level' migrations, and what app_user, the role of both services, may   *)
(* do to them.  Data, and the question the other modules ask of it.        *)
(***************************************************************************)
EXTENDS Naturals

Levels == 0 .. 10   \* how many of 001_init .. 010_audit_hash_chain have run

InitTables ==
  {"tenants", "users", "workflows", "execution_logs", "credential_vault",
   "audit_log", "webhook_endpoints"}

(* credential_rotation_audit, which the vault writes to, is not among them. *)
Tables(level) ==
  UNION {IF level >= 1 THEN InitTables ELSE {},
         IF level >= 5 THEN {"oauth_connections"} ELSE {},
         IF level >= 7 THEN {"tenant_settings"} ELSE {}}

(* 003_roles, 005_oauth, 007_tenant_settings: the grants to app_user.      *)
Granted(level, t) ==
  CASE level >= 3 /\ t \in InitTables \ {"audit_log"} ->
         {"SELECT", "INSERT", "UPDATE", "DELETE"}
    [] level >= 3 /\ t = "audit_log" -> {"INSERT"}
    [] level >= 5 /\ t = "oauth_connections" -> {"SELECT", "INSERT", "UPDATE", "DELETE"}
    [] level >= 7 /\ t = "tenant_settings" -> {"SELECT", "INSERT", "UPDATE"}
    [] OTHER -> {}

(* app_user can run a statement that does `op' to table t.                 *)
May(level, extra, op, t) ==
  t \in Tables(level) /\ op \in Granted(level, t) \cup (IF t = "audit_log" THEN extra ELSE {})

(* INSERT INTO audit_log.  From 010 on a BEFORE INSERT trigger reads the   *)
(* newest row of the tenant, with the privileges of the inserting role.    *)
AuditInsertOk(level, extra) ==
  /\ May(level, extra, "INSERT", "audit_log")
  /\ level >= 10 => May(level, extra, "SELECT", "audit_log")
=============================================================================
