------------------------- MODULE WorkflowExecution -------------------------
(***************************************************************************)
(* Asynchronous execution: POST /workflows/:id/run puts a job on the       *)
(* BullMQ queue "workflow-execution", and the task orchestrator's worker   *)
(* takes one job at a time, finds the workflow, writes an execution_logs   *)
(* row and an audit_log row in one transaction, and reports back.          *)
(*                                                                         *)
(* The worker's transaction is a step per statement, because the worker    *)
(* can die, and the queue can give its job away, between any two of them.  *)
(* BullMQ is external: attempts and backoff as the queue asks for them,    *)
(* its default of one stalled recovery, and a lock without which a report  *)
(* is refused.  A lock runs out when the worker is dead, and also when a   *)
(* live worker's event loop or its link to Redis hangs for too long; then  *)
(* the worker goes on with a job that is no longer its own.                *)
(***************************************************************************)
EXTENDS Naturals, FiniteSets, Schema

CONSTANTS
  Jobs,            \* job ids of Redis
  Tenants,
  Workflows,       \* workflow ids, existing or not
  NoTenant, NoJob,
  Attempts,        \* "attempts" of the job options: 3
  MaxStalled,      \* BullMQ's maxStalledCount, not set by the worker: 1
  SchemaLevel,     \* migrations that have been run
  ExtraGrants,     \* privileges of app_user on audit_log beyond the migrations
  MaxLockLosses,   \* bound: locks a live worker loses
  MaxDbErrors,     \* bound: failed statements and lost COMMIT replies
  MaxCrashes       \* bound: deaths of the worker process

ASSUME ConstantsAssumption ==
  /\ NoTenant \notin Tenants /\ NoJob \notin Jobs
  /\ Attempts \in Nat \ {0} /\ MaxStalled \in Nat
  /\ SchemaLevel \in Levels
  /\ MaxLockLosses \in Nat /\ MaxDbErrors \in Nat /\ MaxCrashes \in Nat

VARIABLES
  owner,      \* workflows: the tenant of each workflow row, if there is one
  state,      \* where BullMQ has each job
  data,       \* the job's tenantId and workflowId
  made,       \* job.attemptsMade
  stalls,     \* how often the job was found stalled
  locked,     \* the jobs whose lock the worker holds
  pc,         \* the worker's place in its job handler
  current,    \* the job it works on
  execs,      \* committed execution_logs rows, counted by the job that wrote them
  audits,     \* committed audit_log rows "workflow.executed", likewise
  runs,       \* history: how often the handler was started on each job
  unsure,     \* history: lost COMMIT replies of each job
  outages,    \* history: attempts of each job that a database error failed
  lockLosses, dbErrors, crashes

jobVars == <<state, data, made, stalls, locked>>
workerVars == <<pc, current>>
rowVars == <<owner, execs, audits>>
history == <<runs, unsure, outages>>
bounds == <<lockLosses, dbErrors, crashes>>
vars == <<jobVars, workerVars, rowVars, history, bounds>>

JobData == [tenant : Tenants, workflow : Workflows]
NoData == [tenant |-> NoTenant, workflow |-> NoJob]

Final == {"completed", "failed"}

(* The handler between BEGIN and the reply to COMMIT or ROLLBACK. *)
InTx == {"begun", "found", "logged", "audited"}

Init ==
  /\ owner \in [Workflows -> Tenants \cup {NoTenant}]
  /\ state = [j \in Jobs |-> "none"]
  /\ data = [j \in Jobs |-> NoData]
  /\ made = [j \in Jobs |-> 0]
  /\ stalls = [j \in Jobs |-> 0]
  /\ locked = {}
  /\ pc = "idle"
  /\ current = NoJob
  /\ execs = [j \in Jobs |-> 0]
  /\ audits = [j \in Jobs |-> 0]
  /\ runs = [j \in Jobs |-> 0]
  /\ unsure = [j \in Jobs |-> 0]
  /\ outages = [j \in Jobs |-> 0]
  /\ lockLosses = 0 /\ dbErrors = 0 /\ crashes = 0

-----------------------------------------------------------------------------
(***************************************************************************)
(* The gateway.                                                            *)
(***************************************************************************)

(* POST /workflows: the row and its audit record commit together.          *)
CreateWorkflow(t, w) ==
  /\ owner[w] = NoTenant
  /\ AuditInsertOk(SchemaLevel, ExtraGrants)
  /\ owner' = [owner EXCEPT ![w] = t]
  /\ UNCHANGED <<jobVars, workerVars, execs, audits, history, bounds>>

(* POST /workflows/:workflowId/run does not look the workflow up: the id   *)
(* may be of no workflow, or of another tenant's.  When the reply of Redis *)
(* is lost the client sends the command again: one call, a second job.     *)
Enqueue(j, t, w) ==
  /\ state[j] = "none"
  /\ state' = [state EXCEPT ![j] = "wait"]
  /\ data' = [data EXCEPT ![j] = [tenant |-> t, workflow |-> w]]
  /\ UNCHANGED <<made, stalls, locked, workerVars, rowVars, history, bounds>>

-----------------------------------------------------------------------------
(***************************************************************************)
(* The worker, one job at a time.                                          *)
(***************************************************************************)
Step(from, to) == pc = from /\ pc' = to

(* BullMQ hands a job to the idle worker and gives it the lock.            *)
Pick(j) ==
  /\ Step("idle", "picked")
  /\ state[j] = "wait"
  /\ state' = [state EXCEPT ![j] = "active"]
  /\ locked' = locked \cup {j}
  /\ current' = j
  /\ runs' = [runs EXCEPT ![j] = @ + 1]
  /\ UNCHANGED <<data, made, stalls, rowVars, unsure, outages, bounds>>

(* db.connect, BEGIN, set_config. *)
BeginTx ==
  /\ Step("picked", "begun")
  /\ UNCHANGED <<jobVars, current, rowVars, history, bounds>>

FoundAnyTenant ==   \* mutant: no policy on workflows
  owner[data[current].workflow] # NoTenant

FoundNothing == FALSE   \* mutant: no set_config before the SELECT

Found == owner[data[current].workflow] = data[current].tenant

(* The SELECT runs under the tenant's policy; no row throws.               *)
FindWorkflow ==
  /\ Step("begun", IF Found THEN "found" ELSE "failed")
  /\ UNCHANGED <<jobVars, current, rowVars, history, bounds>>

InsertExecutionAutocommit ==   \* mutant: not through the transaction's client
  /\ Step("found", "logged")
  /\ execs' = [execs EXCEPT ![current] = @ + 1]
  /\ UNCHANGED <<jobVars, current, owner, audits, history, bounds>>

InsertExecution ==
  /\ Step("found", "logged")
  /\ UNCHANGED <<jobVars, current, rowVars, history, bounds>>

InsertAudit ==
  /\ Step("logged", IF AuditInsertOk(SchemaLevel, ExtraGrants) THEN "audited" ELSE "failed")
  /\ UNCHANGED <<jobVars, current, rowVars, history, bounds>>

(* Both inserts become visible, whoever owns the job by now. *)
RowsCommitted ==
  /\ execs' = [execs EXCEPT ![current] = @ + 1]
  /\ audits' = [audits EXCEPT ![current] = @ + 1]
  /\ UNCHANGED owner

Commit ==
  /\ Step("audited", "succeeded")
  /\ RowsCommitted
  /\ UNCHANGED <<jobVars, current, history, bounds>>

(* The COMMIT goes through, its reply does not: the handler throws.        *)
CommitReplyLost ==
  /\ dbErrors < MaxDbErrors
  /\ Step("audited", "failed")
  /\ RowsCommitted
  /\ unsure' = [unsure EXCEPT ![current] = @ + 1]
  /\ dbErrors' = dbErrors + 1
  /\ UNCHANGED <<jobVars, current, runs, outages, lockLosses, crashes>>

DbErrorCommits ==   \* mutant: COMMIT where ROLLBACK belongs
  /\ dbErrors < MaxDbErrors
  /\ pc \in {"picked"} \cup InTx /\ pc' = "failed"
  /\ IF pc = "audited" THEN RowsCommitted ELSE UNCHANGED rowVars
  /\ outages' = [outages EXCEPT ![current] = @ + 1]
  /\ dbErrors' = dbErrors + 1
  /\ UNCHANGED <<jobVars, current, runs, unsure, lockLosses, crashes>>

(* connect or any statement fails: ROLLBACK, release, rethrow. *)
DbError ==
  /\ dbErrors < MaxDbErrors
  /\ pc \in {"picked"} \cup InTx /\ pc' = "failed"
  /\ outages' = [outages EXCEPT ![current] = @ + 1]
  /\ dbErrors' = dbErrors + 1
  /\ UNCHANGED <<jobVars, current, rowVars, runs, unsure, lockLosses, crashes>>

Idle == pc' = "idle" /\ current' = NoJob

ReportCompleteUnchecked ==   \* mutant: without a look at the lock
  /\ pc = "succeeded"
  /\ state' = [state EXCEPT ![current] = "completed"]
  /\ locked' = locked \ {current}
  /\ Idle
  /\ UNCHANGED <<data, made, stalls, rowVars, history, bounds>>

(* A report is refused when the lock is gone; the worker goes on.          *)
ReportComplete ==
  /\ pc = "succeeded"
  /\ IF current \in locked
       THEN /\ state' = [state EXCEPT ![current] = "completed"]
            /\ locked' = locked \ {current}
       ELSE UNCHANGED <<state, locked>>
  /\ Idle
  /\ UNCHANGED <<data, made, stalls, rowVars, history, bounds>>

ReportFailureOneMore ==   \* mutant: one attempt too many
  /\ pc = "failed"
  /\ IF current \in locked
       THEN /\ made' = [made EXCEPT ![current] = @ + 1]
            /\ state' = [state EXCEPT ![current] =
                 IF made[current] + 1 <= Attempts THEN "delayed" ELSE "failed"]
            /\ locked' = locked \ {current}
       ELSE UNCHANGED <<made, state, locked>>
  /\ Idle
  /\ UNCHANGED <<data, stalls, rowVars, history, bounds>>

(* A failed attempt is delayed for another one while there are any left.   *)
ReportFailure ==
  /\ pc = "failed"
  /\ IF current \in locked
       THEN /\ made' = [made EXCEPT ![current] = @ + 1]
            /\ state' = [state EXCEPT ![current] =
                 IF made[current] + 1 < Attempts THEN "delayed" ELSE "failed"]
            /\ locked' = locked \ {current}
       ELSE UNCHANGED <<made, state, locked>>
  /\ Idle
  /\ UNCHANGED <<data, stalls, rowVars, history, bounds>>

(* The process dies: its transaction is rolled back, its lock stays until  *)
(* it runs out.                                                            *)
Crash ==
  /\ crashes < MaxCrashes /\ pc # "down"
  /\ pc' = "down" /\ current' = NoJob
  /\ crashes' = crashes + 1
  /\ UNCHANGED <<jobVars, rowVars, history, lockLosses, dbErrors>>

(* restart: unless-stopped. *)
Restart ==
  /\ Step("down", "idle")
  /\ UNCHANGED <<jobVars, current, rowVars, history, bounds>>

-----------------------------------------------------------------------------
(***************************************************************************)
(* The queue.                                                              *)
(***************************************************************************)

(* The backoff delay of a failed job is over. *)
Promote(j) ==
  /\ state[j] = "delayed"
  /\ state' = [state EXCEPT ![j] = "wait"]
  /\ UNCHANGED <<data, made, stalls, locked, workerVars, rowVars, history, bounds>>

(* Nobody renews the lock of a job the worker does not work on any more.   *)
LockExpires(j) ==
  /\ j \in locked /\ j # current
  /\ locked' = locked \ {j}
  /\ UNCHANGED <<state, data, made, stalls, workerVars, rowVars, history, bounds>>

(* A live worker fails to renew its lock in time. *)
LockLost(j) ==
  /\ j \in locked /\ j = current /\ lockLosses < MaxLockLosses
  /\ locked' = locked \ {j}
  /\ lockLosses' = lockLosses + 1
  /\ UNCHANGED <<state, data, made, stalls, workerVars, rowVars, history,
                 dbErrors, crashes>>

StalledCheckGivesUp(j) ==   \* mutant: a job that stalls once too often is left alone
  /\ pc # "down" /\ state[j] = "active" /\ j \notin locked
  /\ stalls[j] < MaxStalled
  /\ stalls' = [stalls EXCEPT ![j] = @ + 1]
  /\ state' = [state EXCEPT ![j] = "wait"]
  /\ UNCHANGED <<data, made, locked, workerVars, rowVars, history, bounds>>

(* The check every worker runs from time to time: an active job without a  *)
(* lock goes back to the queue, or fails once it has stalled too often.    *)
StalledCheck(j) ==
  /\ pc # "down" /\ state[j] = "active" /\ j \notin locked
  /\ stalls' = [stalls EXCEPT ![j] = @ + 1]
  /\ state' = [state EXCEPT ![j] = IF stalls[j] + 1 > MaxStalled THEN "failed" ELSE "wait"]
  /\ UNCHANGED <<data, made, locked, workerVars, rowVars, history, bounds>>

Quiet ==   \* all jobs are done with and the worker waits for more
  /\ \A j \in Jobs : state[j] \in Final
  /\ pc = "idle"
  /\ UNCHANGED vars

-----------------------------------------------------------------------------
Handler ==
  \/ \E j \in Jobs : Pick(j)
  \/ BeginTx \/ FindWorkflow \/ InsertExecution \/ InsertAudit \/ Commit
  \/ ReportComplete \/ ReportFailure

BullMQ(j) == Promote(j) \/ LockExpires(j) \/ StalledCheck(j)

Next ==
  \/ \E t \in Tenants, w \in Workflows :
       CreateWorkflow(t, w) \/ \E j \in Jobs : Enqueue(j, t, w)
  \/ Handler \/ CommitReplyLost \/ DbError \/ Crash \/ Restart
  \/ \E j \in Jobs : BullMQ(j) \/ LockLost(j)
  \/ Quiet

Spec == Init /\ [][Next]_vars

(***************************************************************************)
(* Fairness.  The worker goes on with what it does, picks a job when there *)
(* is one (all of them in turn: the queue is FIFO), and is restarted when  *)
(* it dies; the timers of the queue go off.  Nothing is assumed of calls,  *)
(* lost locks, failures or crashes.                                        *)
(***************************************************************************)
FairSpec ==
  /\ Spec
  /\ WF_vars(Handler) /\ WF_vars(Restart)
  /\ \A j \in Jobs : WF_vars(BullMQ(j)) /\ SF_vars(Pick(j))

-----------------------------------------------------------------------------
(* Types; and the worker has a job exactly while its handler runs.         *)
TypeOK ==
  /\ owner \in [Workflows -> Tenants \cup {NoTenant}]
  /\ state \in [Jobs -> {"none", "wait", "active", "delayed"} \cup Final]
  /\ data \in [Jobs -> JobData \cup {NoData}]
  /\ made \in [Jobs -> Nat] /\ stalls \in [Jobs -> Nat]
  /\ locked \in SUBSET Jobs
  /\ pc \in {"idle", "picked", "failed", "succeeded", "down"} \cup InTx
  /\ current \in Jobs \cup {NoJob}
  /\ current = NoJob <=> pc \in {"idle", "down"}
  /\ execs \in [Jobs -> Nat] /\ audits \in [Jobs -> Nat]
  /\ runs \in [Jobs -> Nat] /\ unsure \in [Jobs -> Nat] /\ outages \in [Jobs -> Nat]
  /\ lockLosses \in Nat /\ dbErrors \in Nat /\ crashes \in Nat

(* Retries end: through any mixture of failed attempts, crashes and lost   *)
(* locks the handler is started on a job at most Attempts times, and once  *)
(* more for each stall the queue forgives.                                 *)
BoundedRuns == \A j \in Jobs : runs[j] <= Attempts + MaxStalled

(* Execution is at least once, not exactly once; but every row beyond the  *)
(* first is owed to a stalled run or to a COMMIT whose reply was lost.     *)
DuplicatesExplained ==
  \A j \in Jobs :
    execs[j] <= stalls[j] + unsure[j]
                  + (IF state[j] \in {"active", "completed"} THEN 1 ELSE 0)

(* A job shown as completed has its execution row, and every execution row *)
(* has its audit row, also after retries of half-done attempts.            *)
CompletedIsRecorded ==
  \A j \in Jobs :
    /\ execs[j] = audits[j]
    /\ state[j] = "completed" => execs[j] > 0

(* No foreign key ties an execution row to its workflow, and the run       *)
(* endpoint takes any id; still a tenant has execution rows only for       *)
(* workflows of its own.                                                   *)
ExecsWithinTenant ==
  \A j \in Jobs : execs[j] > 0 => owner[data[j].workflow] = data[j].tenant

(* What a worker reports for a job that stalled under it does not revive   *)
(* or relabel a job that is done with.                                     *)
FinalIsFinal ==
  [][\A j \in Jobs : state[j] \in Final => state'[j] = state[j]]_vars

(* Every accepted job ends up completed or failed; none is stuck active or *)
(* delayed after a crash or a lost lock.                                   *)
EveryJobFinishes == \A j \in Jobs : state[j] = "wait" ~> state[j] \in Final

(* docs/disaster-recovery.md:26: "Workflows execute successfully": the job *)
(* of an existing workflow is executed, if not at first then by a retry.   *)
(* Two things excuse it: the queue gave the job up for stalling more often *)
(* than forgiven, or database errors failed as many runs of it as it has   *)
(* attempts, as an outage that lasts beyond the last backoff does.         *)
WorkflowsExecute ==
  \A j \in Jobs :
    (state[j] = "wait" /\ made[j] = 0 /\ owner[data[j].workflow] = data[j].tenant)
      ~> (execs[j] > 0 \/ stalls[j] > MaxStalled \/ outages[j] >= Attempts)
=============================================================================
