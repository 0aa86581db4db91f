------------------------------ MODULE Erasure ------------------------------
(***************************************************************************)
(* The right to erasure, right_to_erasure(tenant) of 008_gdpr_erasure.sql, *)
(* beside the requests that write to the same tables.                      *)
(*                                                                         *)
(* The function is one transaction of ten DELETEs, child tables first, the *)
(* tenants row last.  Each takes its own snapshot and then waits for the   *)
(* row locks in it, so what a request inserts into a table the function    *)
(* has been through stays behind until the last DELETE, where the foreign  *)
(* keys decide.  The requests are the statement lists of the handlers.     *)
(*                                                                         *)
(* PostgreSQL is external: READ COMMITTED, a row lock per UPDATE or DELETE,*)
(* INSERT .. ON CONFLICT waiting for whoever has the key in its hands, and *)
(* the foreign keys to tenants: an INSERT takes FOR KEY SHARE on the       *)
(* tenant's row, which its DELETE has to wait for, and vice versa.         *)
(***************************************************************************)
EXTENDS Naturals, Sequences, FiniteSets, Schema

CONSTANTS
  Requests,
  Tenants,
  Callers,       \* the tenants that still have somebody calling
  Handlers,      \* the handlers that are called
  InitialRows,   \* rows that may be there in the beginning
  Old,           \* the id of the initial rows, and of settings
  NoTenant,
  Eraser,        \* the function, among those that wait for one another
  SchemaLevel,   \* migrations that have been run
  ExtraTables,   \* tables made by hand, like the others with a tenant_id
  ExtraGrants,   \* privileges of app_user on audit_log beyond the migrations
  MaxErasures,   \* bound: calls of the function
  MaxFaults      \* bound: transactions that fail for no reason of their own

(* The tables that refer to tenants. *)
Children ==
  {"users", "workflows", "execution_logs", "credential_vault", "audit_log",
   "webhook_endpoints", "oauth_connections", "tenant_settings",
   "credential_rotation_audit"}

HandlerNames == {"createWorkflow", "execute", "connect", "refresh", "store",
                 "rotate", "delete", "getSettings", "patchSettings"}

ASSUME ConstantsAssumption ==
  /\ Old \notin Requests /\ NoTenant \notin Tenants /\ Eraser \notin Requests
  /\ Callers \subseteq Tenants /\ Handlers \subseteq HandlerNames
  /\ ExtraTables \subseteq Children
  /\ InitialRows \subseteq [table : Children, tenant : Tenants, id : {Old}]
  /\ SchemaLevel \in Levels
  /\ MaxErasures \in Nat /\ MaxFaults \in Nat

VARIABLES
  tenants,    \* rows of the table tenants
  rows,       \* committed rows of the tables below it
  status,     \* of each request: "idle", "running", "done"
  who,        \* its tenant
  key,        \* the id it is given
  left,       \* the statements of its handler still to be run
  inserted,   \* rows it has inserted
  touched,    \* rows it has updated or deleted, and so locked
  removed,    \* those it has deleted
  target,     \* the tenant being erased
  step,       \* which DELETE the function is at, 0 when it does not run
  scanned,    \* that DELETE has its snapshot
  snapshot,   \* rows in it
  erased,     \* rows deleted so far
  erasures, faults

requests == <<status, who, key, left, inserted, touched, removed>>
function == <<target, step, scanned, snapshot, erased>>
bounds == <<erasures, faults>>
vars == <<tenants, rows, requests, function, bounds>>

-----------------------------------------------------------------------------
(***************************************************************************)
(* The handlers' writes, in the order of the code.  insert: a new row;     *)
(* ensure, put: ON CONFLICT (tenant_id) DO NOTHING, DO UPDATE; find: a     *)
(* SELECT by id that throws on no row; the others go by id too, replace    *)
(* answering 404 when there is no row to update.                           *)
(***************************************************************************)
Do(op, table) == [op |-> op, table |-> table]

StatementsAuditFirst(h) ==   \* mutant: the audit row is written before the change
  <<Do("find", "oauth_connections"), Do("insert", "audit_log"),
    Do("update", "oauth_connections")>>

CreateWorkflow == <<Do("insert", "workflows"), Do("insert", "audit_log")>>

Execute ==
  <<Do("find", "workflows"), Do("insert", "execution_logs"), Do("insert", "audit_log")>>

Connect == <<Do("insert", "oauth_connections"), Do("insert", "audit_log")>>

Refresh ==
  <<Do("find", "oauth_connections"), Do("update", "oauth_connections"),
    Do("insert", "audit_log")>>

Store == <<Do("insert", "credential_vault")>>

Rotate ==
  <<Do("replace", "credential_vault"), Do("insert", "credential_rotation_audit")>>

Delete == <<Do("delete", "credential_vault")>>

GetSettings == <<Do("ensure", "tenant_settings"), Do("find", "tenant_settings")>>

PatchSettings == <<Do("put", "tenant_settings")>>

Statements(h) ==
  CASE h = "createWorkflow" -> CreateWorkflow
    [] h = "execute"        -> Execute
    [] h = "connect"        -> Connect
    [] h = "refresh"        -> Refresh
    [] h = "store"          -> Store
    [] h = "rotate"         -> Rotate
    [] h = "delete"         -> Delete
    [] h = "getSettings"    -> GetSettings
    [] h = "patchSettings"  -> PatchSettings

Upserts == {"ensure", "put"}
Changes == {"update", "replace", "delete"}

Statement == [op : {"insert", "find"} \cup Upserts \cup Changes, table : Children]

EraseOrderForgetful ==   \* mutant: one table is forgotten
  <<"oauth_connections", "tenant_settings", "credential_rotation_audit",
    "execution_logs", "webhook_endpoints", "audit_log", "workflows", "users">>

EraseOrder ==
  <<"oauth_connections", "tenant_settings", "credential_rotation_audit",
    "credential_vault", "execution_logs", "webhook_endpoints", "audit_log",
    "workflows", "users">>

(* The steps in which the function deletes from tenants, and in which the  *)
(* foreign keys are checked and it commits.                                *)
LastStep == Len(EraseOrder) + 1
Checking == LastStep + 1

Existing == Tables(SchemaLevel) \cup ExtraTables

Ids == Requests \cup {Old}
Row == [table : Children, tenant : Tenants, id : Ids]

(* The next statement of r, and the row it is about.  A new row has an id  *)
(* of its own; the settings of a tenant are one row.                       *)
Stmt(r) == Head(left[r])

RowOf(r) ==
  [table |-> Stmt(r).table, tenant |-> who[r],
   id |-> CASE Stmt(r).table = "tenant_settings" -> Old
            [] Stmt(r).op = "insert" -> r
            [] OTHER -> key[r]]

Init ==
  /\ tenants = Tenants
  /\ rows \in SUBSET InitialRows
  /\ status = [r \in Requests |-> "idle"]
  /\ who = [r \in Requests |-> NoTenant]
  /\ key = [r \in Requests |-> Old]
  /\ left = [r \in Requests |-> <<>>]
  /\ inserted = [r \in Requests |-> {}]
  /\ touched = [r \in Requests |-> {}]
  /\ removed = [r \in Requests |-> {}]
  /\ target = NoTenant /\ step = 0 /\ scanned = FALSE
  /\ snapshot = {} /\ erased = {} /\ erasures = 0 /\ faults = 0

-----------------------------------------------------------------------------
(***************************************************************************)
(* Locks.                                                                  *)
(***************************************************************************)
Actors == Requests \cup {Eraser}

(* A transaction that has inserted a row has its tenant's row FOR KEY SHARE. *)
SharesTenant(r, t) == inserted[r] # {} /\ who[r] = t

(* Rows of the target that the function's DELETEs did not see.             *)
Leftover == {x \in rows \ erased : x.tenant = target}

(* The next statement needs a row that is not there, of a tenant that is.  *)
NewRow(r) == Stmt(r).op = "insert" \/ (Stmt(r).op \in Upserts /\ RowOf(r) \notin rows)

RequestWaits(r, b) ==
  /\ status[r] = "running" /\ left[r] # <<>>
  /\ \/ /\ b = Eraser
        /\ \/ Stmt(r).op \in Changes \cup Upserts /\ RowOf(r) \in erased
           \/ NewRow(r) /\ step = Checking /\ target = who[r]
     \/ /\ b \in Requests \ {r}
        /\ \/ Stmt(r).op \in Changes \cup Upserts /\ RowOf(r) \in touched[b]
           \/ Stmt(r).op \in Upserts /\ RowOf(r) \in inserted[b]

EraserWaits(b) ==
  /\ b \in Requests
  /\ \/ scanned /\ snapshot \cap touched[b] # {}
     \/ step = LastStep /\ SharesTenant(b, target)
     \/ step = Checking /\ Leftover \cap removed[b] # {}

WaitsFor(a, b) == IF a = Eraser THEN EraserWaits(b) ELSE RequestWaits(a, b)

Blocked(a) == \E b \in Actors : WaitsFor(a, b)

-----------------------------------------------------------------------------
(***************************************************************************)
(* Requests.                                                               *)
(***************************************************************************)

(* BEGIN and set_config are behind it.  A token outlives its tenant.  Four  *)
(* of the handlers are given an id.                                        *)
Start(r, h, t, k) ==
  /\ status[r] = "idle" /\ t \in Callers
  /\ h \in {"execute", "refresh", "rotate", "delete"} \/ k = Old
  /\ status' = [status EXCEPT ![r] = "running"]
  /\ who' = [who EXCEPT ![r] = t]
  /\ key' = [key EXCEPT ![r] = k]
  /\ left' = [left EXCEPT ![r] = Statements(h)]
  /\ UNCHANGED <<tenants, rows, inserted, touched, removed, function, bounds>>

(* The next statement runs: no lock is in its way, and the table is there. *)
Runs(r) ==
  /\ status[r] = "running" /\ left[r] # <<>> /\ ~Blocked(r)
  /\ Stmt(r).table \in Existing
  /\ UNCHANGED <<tenants, rows, status, who, key, function, bounds>>

Permitted(r) ==
  Stmt(r).table = "audit_log" => AuditInsertOk(SchemaLevel, ExtraGrants)

(* A new row: the tenant must still be there.                              *)
Insert(r) ==
  /\ Runs(r) /\ NewRow(r) /\ Permitted(r) /\ who[r] \in tenants
  /\ inserted' = [inserted EXCEPT ![r] = @ \cup {RowOf(r)}]
  /\ left' = [left EXCEPT ![r] = Tail(@)]
  /\ UNCHANGED <<touched, removed>>

(* A row that is there is changed, deleted or, by a SELECT and by ON       *)
(* CONFLICT DO NOTHING, left as it is.                                     *)
Change(r) ==
  LET op == Stmt(r).op x == RowOf(r) IN
  /\ Runs(r) /\ op # "insert"
  /\ x \in rows \/ (op = "find" /\ x \in inserted[r])
  /\ touched' = [touched EXCEPT ![r] = IF op \in Changes \cup {"put"} THEN @ \cup {x} ELSE @]
  /\ removed' = [removed EXCEPT ![r] = IF op = "delete" THEN @ \cup {x} ELSE @]
  /\ left' = [left EXCEPT ![r] = Tail(@)]
  /\ UNCHANGED inserted

(* No such row: a 404 after COMMIT, or nobody looks at the row count.      *)
Miss(r) ==
  /\ Runs(r) /\ Stmt(r).op \in Changes /\ RowOf(r) \notin rows
  /\ left' = [left EXCEPT ![r] = IF Stmt(r).op = "replace" THEN <<>> ELSE Tail(@)]
  /\ UNCHANGED <<inserted, touched, removed>>

Ends(r) ==
  /\ status' = [status EXCEPT ![r] = "done"]
  /\ who' = [who EXCEPT ![r] = NoTenant]
  /\ key' = [key EXCEPT ![r] = Old]
  /\ left' = [left EXCEPT ![r] = <<>>]
  /\ inserted' = [inserted EXCEPT ![r] = {}]
  /\ touched' = [touched EXCEPT ![r] = {}]
  /\ removed' = [removed EXCEPT ![r] = {}]
  /\ UNCHANGED <<tenants, function, erasures>>

Commit(r) ==
  /\ status[r] = "running" /\ left[r] = <<>>
  /\ rows' = (rows \ removed[r]) \cup inserted[r]
  /\ Ends(r) /\ UNCHANGED faults

(* The statement is refused: no such table, no privilege, no such tenant;  *)
(* or the SELECT finds nothing and the handler throws.  ROLLBACK.          *)
Refused(r) ==
  /\ status[r] = "running" /\ left[r] # <<>> /\ ~Blocked(r)
  /\ \/ Stmt(r).table \notin Existing
     \/ Stmt(r).op = "find" /\ RowOf(r) \notin rows \cup inserted[r]
     \/ NewRow(r) /\ (who[r] \notin tenants \/ ~Permitted(r))
  /\ Ends(r) /\ UNCHANGED <<rows, faults>>

FailsUnnoticed(r) ==   \* mutant: the server keeps the transaction of a dead client
  /\ status[r] = "running" /\ faults < MaxFaults
  /\ faults' = faults + 1
  /\ status' = [status EXCEPT ![r] = "done"]
  /\ UNCHANGED <<tenants, rows, who, key, left, inserted, touched, removed, function, erasures>>

(* Anything else that goes wrong, a lost connection for instance, also     *)
(* while it waits.                                                         *)
Fails(r) ==
  /\ status[r] = "running" /\ faults < MaxFaults
  /\ faults' = faults + 1
  /\ Ends(r) /\ UNCHANGED rows

-----------------------------------------------------------------------------
(***************************************************************************)
(* The function.                                                           *)
(***************************************************************************)
Erase(t) ==
  /\ step = 0 /\ erasures < MaxErasures
  /\ target' = t /\ step' = 1
  /\ erasures' = erasures + 1
  /\ UNCHANGED <<tenants, rows, requests, scanned, snapshot, erased, faults>>

EraseScan ==
  /\ step \in DOMAIN EraseOrder /\ ~scanned
  /\ EraseOrder[step] \in Existing
  /\ snapshot' = {x \in rows : x.table = EraseOrder[step] /\ x.tenant = target}
  /\ scanned' = TRUE
  /\ UNCHANGED <<tenants, rows, requests, target, step, erased, bounds>>

(* What others deleted while it waited is gone, the rest is deleted.       *)
EraseDelete ==
  /\ scanned /\ ~Blocked(Eraser)
  /\ erased' = erased \cup (snapshot \cap rows)
  /\ step' = step + 1 /\ scanned' = FALSE /\ snapshot' = {}
  /\ UNCHANGED <<tenants, rows, requests, target, bounds>>

EraseTenantAtOnce ==   \* mutant: the DELETE does not wait for FOR KEY SHARE
  /\ step = LastStep
  /\ step' = Checking
  /\ UNCHANGED <<tenants, rows, requests, target, scanned, snapshot, erased, bounds>>

EraseTenant ==
  /\ step = LastStep /\ ~Blocked(Eraser)
  /\ step' = Checking
  /\ UNCHANGED <<tenants, rows, requests, target, scanned, snapshot, erased, bounds>>

EraseEnds ==
  /\ target' = NoTenant /\ step' = 0 /\ scanned' = FALSE
  /\ snapshot' = {} /\ erased' = {}
  /\ UNCHANGED <<requests, erasures>>

EraseCommitUnchecked ==   \* mutant: foreign keys that are not checked
  /\ step = Checking /\ ~Blocked(Eraser)
  /\ tenants' = tenants \ {target} /\ rows' = rows \ erased
  /\ EraseEnds /\ UNCHANGED faults

EraseCommit ==
  /\ step = Checking /\ ~Blocked(Eraser) /\ Leftover = {}
  /\ tenants' = tenants \ {target} /\ rows' = rows \ erased
  /\ EraseEnds /\ UNCHANGED faults

(* A table does not exist, or a row was left over: all of it is undone.    *)
EraseRefused ==
  /\ \/ step \in DOMAIN EraseOrder /\ EraseOrder[step] \notin Existing
     \/ step = Checking /\ ~Blocked(Eraser) /\ Leftover # {}
  /\ EraseEnds /\ UNCHANGED <<tenants, rows, faults>>

(* psql or its connection goes away. *)
EraseFails ==
  /\ step # 0 /\ faults < MaxFaults
  /\ faults' = faults + 1
  /\ EraseEnds /\ UNCHANGED <<tenants, rows>>

Finished ==
  /\ \A r \in Requests : status[r] = "done"
  /\ step = 0 /\ erasures = MaxErasures
  /\ UNCHANGED vars

-----------------------------------------------------------------------------
Advance(r) == Insert(r) \/ Change(r) \/ Miss(r) \/ Commit(r) \/ Refused(r)

EraseAdvance ==
  EraseScan \/ EraseDelete \/ EraseTenant \/ EraseCommit \/ EraseRefused

Next ==
  \/ \E r \in Requests :
       \/ \E h \in Handlers, t \in Tenants, k \in Ids : Start(r, h, t, k)
       \/ Advance(r)
       \/ Fails(r)
  \/ \E t \in Tenants : Erase(t)
  \/ EraseAdvance \/ EraseFails
  \/ Finished

Spec == Init /\ [][Next]_vars

(***************************************************************************)
(* Fairness.  A transaction that is not waiting for a lock goes on.        *)
(* Nothing is assumed of new requests, new erasures and faults.            *)
(***************************************************************************)
FairSpec ==
  /\ Spec
  /\ \A r \in Requests : WF_vars(Advance(r))
  /\ WF_vars(EraseAdvance)

-----------------------------------------------------------------------------
(* Types. *)
TypeOK ==
  /\ tenants \in SUBSET Tenants /\ rows \in SUBSET Row
  /\ status \in [Requests -> {"idle", "running", "done"}]
  /\ who \in [Requests -> Tenants \cup {NoTenant}]
  /\ key \in [Requests -> Ids]
  /\ left \in [Requests -> Seq(Statement)]
  /\ inserted \in [Requests -> SUBSET Row]
  /\ touched \in [Requests -> SUBSET Row] /\ removed \in [Requests -> SUBSET Row]
  /\ target \in Tenants \cup {NoTenant} /\ step \in 0 .. Checking
  /\ scanned \in BOOLEAN /\ snapshot \in SUBSET Row /\ erased \in SUBSET Row
  /\ erasures \in Nat /\ faults \in Nat

(* Whatever requests insert while the function is under way, no committed  *)
(* row belongs to a tenant that is gone.                                   *)
NoOrphans == \A x \in rows : x.tenant \in tenants

(* A tenant goes in one step, with all of its rows and nobody else's; and  *)
(* a row that goes while its tenant stays was deleted by a request of that *)
(* tenant: a refused or broken-off erasure has erased nothing.             *)
ErasureIsAtomic ==
  [][/\ \A t \in tenants \ tenants' : rows' = {x \in rows : x.tenant # t}
     /\ \A x \in rows \ rows' :
          x.tenant \in tenants' => \E r \in Requests : who[r] = x.tenant /\ x \in removed[r]]_vars

(* The function, which locks rows first and the tenant last, and the       *)
(* handlers, which change a row first and insert last, never wait for one  *)
(* another in a circle.                                                    *)
NoDeadlock ==
  \A S \in SUBSET Actors : S = {} \/ \E a \in S : \A b \in S : ~WaitsFor(a, b)

(* Requests end, and so does the function.                                 *)
EveryoneFinishes ==
  /\ \A r \in Requests : status[r] = "running" ~> status[r] = "done"
  /\ step # 0 ~> step = 0

(* docs/gdpr.md:16: after the function has been executed, "Tenant count =  *)
(* 0"; of a tenant nobody calls for any more, unless something breaks.     *)
ErasureCompletes ==
  \A t \in Tenants \ Callers : target = t ~> (t \notin tenants \/ faults > 0)
=============================================================================
