---------------------------- MODULE TenantStore ----------------------------
(***************************************************************************)
(* What the data plane promises its callers, with no connection, pool or   *)
(* transaction in sight.  A unit of work is taken on for one tenant, takes *)
(* effect at most once and at one instant, changes only rows that belong   *)
(* to its own tenant, and is answered at most once: "ok" only for work     *)
(* that took effect.  Work answered "error" or cut off ("lost") normally   *)
(* left no trace; when the COMMIT went through and only its reply got lost *)
(* it took effect all the same.                                            *)
(*                                                                         *)
(* TenantTx, which models db.ts, is shown to implement this module.        *)
(***************************************************************************)
EXTENDS FiniteSets

CONSTANTS
  Requests,   \* units of work: HTTP requests and worker job runs
  Tenants,
  Rows,       \* primary keys of the tenant tables
  NoTenant,   \* the tenant of a request that has not arrived
  Absent      \* the value of a key under which no row is stored

VARIABLES
  table,      \* committed rows: key -> [tenant, by] or Absent
  tenantOf,   \* the tenant each request acts for
  applied,    \* the requests whose effect is in the committed rows
  answer      \* what each request was answered

vars == <<table, tenantOf, applied, answer>>

(***************************************************************************)
(* The two values of row x may differ only if both belong to tenant t, or  *)
(* one is missing, and a new value names the request that wrote it.        *)
(***************************************************************************)
OwnedBy(row, t) == row = Absent \/ row.tenant = t

ChangesOnlyRowsOf(r) ==
  \A x \in Rows :
    table'[x] # table[x] =>
      /\ OwnedBy(table[x], tenantOf[r])
      /\ \/ table'[x] = Absent
         \/ table'[x] = [tenant |-> tenantOf[r], by |-> r]

-----------------------------------------------------------------------------
Init ==
  /\ table \in [Rows -> {Absent} \cup [tenant : Tenants, by : {NoTenant}]]
  /\ tenantOf = [r \in Requests |-> NoTenant]
  /\ applied = {}
  /\ answer = [r \in Requests |-> "none"]

Accept(r, t) ==
  /\ tenantOf[r] = NoTenant
  /\ answer[r] = "none"
  /\ tenantOf' = [tenantOf EXCEPT ![r] = t]
  /\ UNCHANGED <<table, applied, answer>>

(* The request takes effect; its caller may or may not learn of it. *)
Apply(r) ==
  /\ tenantOf[r] # NoTenant
  /\ r \notin applied
  /\ answer[r] = "none"
  /\ ChangesOnlyRowsOf(r)
  /\ applied' = applied \cup {r}
  /\ answer' \in {answer, [answer EXCEPT ![r] = "ok"]}
  /\ UNCHANGED tenantOf

(* Unanswered requests fail, one by one or together, and change nothing. *)
Fail(S) ==
  /\ \A r \in S : answer[r] = "none"
  /\ \E why \in {"error", "lost"} :
       answer' = [r \in Requests |-> IF r \in S THEN why ELSE answer[r]]
  /\ UNCHANGED <<table, tenantOf, applied>>

Next ==
  \/ \E r \in Requests, t \in Tenants : Accept(r, t)
  \/ \E r \in Requests : Apply(r)
  \/ \E S \in SUBSET Requests : Fail(S)

Spec == Init /\ [][Next]_vars
=============================================================================
