---------------------- MODULE WorkflowExecutionProofs ----------------------
(***************************************************************************)
(* Proofs about WorkflowExecution, for any number of jobs, any Attempts    *)
(* and MaxStalled, any level of the schema and any number of failures.     *)
(* Each property is strengthened to one that accounts for the run the      *)
(* worker is in the middle of: with a job it still owns, with one the      *)
(* queue has taken away, or after a COMMIT it has not reported yet.        *)
(***************************************************************************)
EXTENDS WorkflowExecution, TLAPS

One(p) == IF p THEN 1 ELSE 0

(* The activation of j that the queue has not ended, or ended well. *)
Live(j) == One(state[j] \in {"active", "completed"})

(* The worker is on j and has not come past its COMMIT. *)
Unfinished(j) == One(current = j /\ pc # "succeeded")

(* Every run of the handler is a counted attempt, a counted stall or live. *)
RunsAccounted ==
  \A j \in Jobs :
    /\ runs[j] = made[j] + stalls[j] + Live(j)
    /\ state[j] # "failed" => made[j] < Attempts /\ stalls[j] <= MaxStalled
    /\ made[j] + stalls[j] <= Attempts + MaxStalled

LockedIsActive == \A j \in locked : state[j] = "active"

RowsAccounted ==
  \A j \in Jobs : execs[j] + Unfinished(j) <= stalls[j] + unsure[j] + Live(j)

Recorded == CompletedIsRecorded /\ (pc = "succeeded" => execs[current] > 0)

(* Jobs that were never enqueued are blank, the others have their data. *)
Enqueued ==
  \A j \in Jobs :
    /\ state[j] = "none" => execs[j] = 0 /\ j # current
    /\ state[j] # "none" => data[j] \in JobData

Tenancy == ExecsWithinTenant /\ (pc \in {"found", "logged", "audited"} => Found)

IInv ==
  /\ TypeOK /\ RunsAccounted /\ LockedIsActive /\ RowsAccounted
  /\ Recorded /\ Enqueued /\ Tenancy

USE DEF Final, InTx

(* CreateWorkflow preserves the invariant. *)
LEMMA CreateWorkflowStep ==
  ASSUME IInv, NEW t \in Tenants, NEW w \in Workflows, CreateWorkflow(t, w)
  PROVE  IInv'
<1> USE ConstantsAssumption DEF IInv
<1>1. TypeOK'
  BY DEF TypeOK, CreateWorkflow, jobVars, workerVars, history, bounds
<1>2. RunsAccounted'
  BY DEF RunsAccounted, CreateWorkflow, Live, jobVars, history
<1>3. LockedIsActive'
  BY DEF LockedIsActive, CreateWorkflow, jobVars
<1>4. RowsAccounted'
  BY DEF RowsAccounted, CreateWorkflow, Live, Unfinished, jobVars, workerVars,
     history
<1>5. Recorded'
  BY DEF Recorded, CreateWorkflow, CompletedIsRecorded, jobVars, workerVars
<1>6. Enqueued'
  BY DEF Enqueued, CreateWorkflow, jobVars, workerVars
<1>7. Tenancy'
  BY DEF Tenancy, CreateWorkflow, ExecsWithinTenant, Found, TypeOK, Enqueued,
     JobData, jobVars, workerVars
<1> QED
  BY <1>1, <1>2, <1>3, <1>4, <1>5, <1>6, <1>7

(* Enqueue preserves the invariant. *)
LEMMA EnqueueStep ==
  ASSUME IInv, NEW j \in Jobs, NEW t \in Tenants, NEW w \in Workflows, Enqueue(j, t, w)
  PROVE  IInv'
<1> USE ConstantsAssumption DEF IInv
<1>1. TypeOK'
  BY DEF TypeOK, Enqueue, JobData, workerVars, rowVars, history, bounds
<1>2. RunsAccounted'
  BY DEF RunsAccounted, Enqueue, Live, history
<1>3. LockedIsActive'
  BY DEF LockedIsActive, Enqueue
<1>4. RowsAccounted'
  BY DEF RowsAccounted, Enqueue, Live, Unfinished, workerVars, rowVars,
     history
<1>5. Recorded'
  BY DEF Recorded, Enqueue, CompletedIsRecorded, workerVars, rowVars
<1>6. Enqueued'
  BY DEF Enqueued, Enqueue, TypeOK, JobData, workerVars, rowVars
<1>7. Tenancy'
  BY DEF Tenancy, Enqueue, ExecsWithinTenant, Found, Enqueued, workerVars,
     rowVars
<1> QED
  BY <1>1, <1>2, <1>3, <1>4, <1>5, <1>6, <1>7

(* Pick preserves the invariant. *)
LEMMA PickStep ==
  ASSUME IInv, NEW j \in Jobs, Pick(j)
  PROVE  IInv'
<1> USE ConstantsAssumption DEF IInv
<1>1. TypeOK'
  BY DEF TypeOK, Pick, Step, rowVars, bounds
<1>2. RunsAccounted'
  BY DEF RunsAccounted, Pick, Live, One, TypeOK
<1>3. LockedIsActive'
  BY DEF LockedIsActive, Pick, TypeOK
<1>4. RowsAccounted'
  BY DEF RowsAccounted, Pick, Live, One, Unfinished, TypeOK, rowVars
<1>5. Recorded'
  BY DEF Recorded, Pick, Step, CompletedIsRecorded, rowVars
<1>6. Enqueued'
  BY DEF Enqueued, Pick, rowVars
<1>7. Tenancy'
  BY DEF Tenancy, Pick, Step, ExecsWithinTenant, rowVars
<1> QED
  BY <1>1, <1>2, <1>3, <1>4, <1>5, <1>6, <1>7

(* BeginTx preserves the invariant. *)
LEMMA BeginTxStep ==
  ASSUME IInv, BeginTx
  PROVE  IInv'
<1> USE ConstantsAssumption DEF IInv
<1>1. TypeOK'
  BY DEF TypeOK, BeginTx, Step, jobVars, rowVars, history, bounds
<1>2. RunsAccounted'
  BY DEF RunsAccounted, BeginTx, Live, jobVars, history
<1>3. LockedIsActive'
  BY DEF LockedIsActive, BeginTx, jobVars
<1>4. RowsAccounted'
  BY DEF RowsAccounted, BeginTx, Step, Live, Unfinished, jobVars, rowVars,
     history
<1>5. Recorded'
  BY DEF Recorded, BeginTx, Step, CompletedIsRecorded, jobVars, rowVars
<1>6. Enqueued'
  BY DEF Enqueued, BeginTx, jobVars, rowVars
<1>7. Tenancy'
  BY DEF Tenancy, BeginTx, Step, ExecsWithinTenant, jobVars, rowVars
<1> QED
  BY <1>1, <1>2, <1>3, <1>4, <1>5, <1>6, <1>7

(* FindWorkflow preserves the invariant. *)
LEMMA FindWorkflowStep ==
  ASSUME IInv, FindWorkflow
  PROVE  IInv'
<1> USE ConstantsAssumption DEF IInv
<1>1. TypeOK'
  BY DEF TypeOK, FindWorkflow, Step, jobVars, rowVars, history, bounds
<1>2. RunsAccounted'
  BY DEF RunsAccounted, FindWorkflow, Live, jobVars, history
<1>3. LockedIsActive'
  BY DEF LockedIsActive, FindWorkflow, jobVars
<1>4. RowsAccounted'
  BY DEF RowsAccounted, FindWorkflow, Step, Live, Unfinished, jobVars,
     rowVars, history
<1>5. Recorded'
  BY DEF Recorded, FindWorkflow, Step, CompletedIsRecorded, jobVars, rowVars
<1>6. Enqueued'
  BY DEF Enqueued, FindWorkflow, jobVars, rowVars
<1>7. Tenancy'
  BY DEF Tenancy, FindWorkflow, Step, ExecsWithinTenant, Found, jobVars,
     rowVars
<1> QED
  BY <1>1, <1>2, <1>3, <1>4, <1>5, <1>6, <1>7

(* InsertExecution preserves the invariant. *)
LEMMA InsertExecutionStep ==
  ASSUME IInv, InsertExecution
  PROVE  IInv'
<1> USE ConstantsAssumption DEF IInv
<1>1. TypeOK'
  BY DEF TypeOK, InsertExecution, Step, jobVars, rowVars, history, bounds
<1>2. RunsAccounted'
  BY DEF RunsAccounted, InsertExecution, Live, jobVars, history
<1>3. LockedIsActive'
  BY DEF LockedIsActive, InsertExecution, jobVars
<1>4. RowsAccounted'
  BY DEF RowsAccounted, InsertExecution, Step, Live, Unfinished, jobVars,
     rowVars, history
<1>5. Recorded'
  BY DEF Recorded, InsertExecution, Step, CompletedIsRecorded, jobVars,
     rowVars
<1>6. Enqueued'
  BY DEF Enqueued, InsertExecution, jobVars, rowVars
<1>7. Tenancy'
  BY DEF Tenancy, InsertExecution, Step, ExecsWithinTenant, Found, jobVars,
     rowVars
<1> QED
  BY <1>1, <1>2, <1>3, <1>4, <1>5, <1>6, <1>7

(* InsertAudit preserves the invariant. *)
LEMMA InsertAuditStep ==
  ASSUME IInv, InsertAudit
  PROVE  IInv'
<1> USE ConstantsAssumption DEF IInv
<1>1. TypeOK'
  BY DEF TypeOK, InsertAudit, Step, jobVars, rowVars, history, bounds
<1>2. RunsAccounted'
  BY DEF RunsAccounted, InsertAudit, Live, jobVars, history
<1>3. LockedIsActive'
  BY DEF LockedIsActive, InsertAudit, jobVars
<1>4. RowsAccounted'
  BY DEF RowsAccounted, InsertAudit, Step, Live, Unfinished, jobVars, rowVars,
     history
<1>5. Recorded'
  BY DEF Recorded, InsertAudit, Step, CompletedIsRecorded, jobVars, rowVars
<1>6. Enqueued'
  BY DEF Enqueued, InsertAudit, jobVars, rowVars
<1>7. Tenancy'
  BY DEF Tenancy, InsertAudit, Step, ExecsWithinTenant, Found, jobVars,
     rowVars
<1> QED
  BY <1>1, <1>2, <1>3, <1>4, <1>5, <1>6, <1>7

(* Commit preserves the invariant. *)
LEMMA CommitStep ==
  ASSUME IInv, Commit
  PROVE  IInv'
<1> USE ConstantsAssumption DEF IInv
<1>1. TypeOK'
  BY DEF TypeOK, Commit, Step, RowsCommitted, jobVars, history, bounds
<1>2. RunsAccounted'
  BY DEF RunsAccounted, Commit, Live, jobVars, history
<1>3. LockedIsActive'
  BY DEF LockedIsActive, Commit, jobVars
<1>4. RowsAccounted'
  BY DEF RowsAccounted, Commit, Step, RowsCommitted, Live, One, Unfinished,
     TypeOK, jobVars, history
<1>5. Recorded'
  BY DEF Recorded, Commit, Step, RowsCommitted, CompletedIsRecorded, TypeOK,
     jobVars
<1>6. Enqueued'
  BY DEF Enqueued, Commit, RowsCommitted, jobVars
<1>7. Tenancy'
  BY DEF Tenancy, Commit, Step, RowsCommitted, ExecsWithinTenant, Found,
     jobVars
<1> QED
  BY <1>1, <1>2, <1>3, <1>4, <1>5, <1>6, <1>7

(* CommitReplyLost preserves the invariant. *)
LEMMA CommitReplyLostStep ==
  ASSUME IInv, CommitReplyLost
  PROVE  IInv'
<1> USE ConstantsAssumption DEF IInv
<1>1. TypeOK'
  BY DEF TypeOK, CommitReplyLost, Step, RowsCommitted, jobVars
<1>2. RunsAccounted'
  BY DEF RunsAccounted, CommitReplyLost, Live, jobVars
<1>3. LockedIsActive'
  BY DEF LockedIsActive, CommitReplyLost, jobVars
<1>4. RowsAccounted'
  BY DEF RowsAccounted, CommitReplyLost, Step, RowsCommitted, Live, One,
     Unfinished, TypeOK, jobVars
<1>5. Recorded'
  BY DEF Recorded, CommitReplyLost, Step, RowsCommitted, CompletedIsRecorded,
     TypeOK, jobVars
<1>6. Enqueued'
  BY DEF Enqueued, CommitReplyLost, RowsCommitted, jobVars
<1>7. Tenancy'
  BY DEF Tenancy, CommitReplyLost, Step, RowsCommitted, ExecsWithinTenant,
     Found, jobVars
<1> QED
  BY <1>1, <1>2, <1>3, <1>4, <1>5, <1>6, <1>7

(* DbError preserves the invariant. *)
LEMMA DbErrorStep ==
  ASSUME IInv, DbError
  PROVE  IInv'
<1> USE ConstantsAssumption DEF IInv
<1>1. TypeOK'
  BY DEF TypeOK, DbError, jobVars, rowVars, history
<1>2. RunsAccounted'
  BY DEF RunsAccounted, DbError, Live, jobVars, history
<1>3. LockedIsActive'
  BY DEF LockedIsActive, DbError, jobVars
<1>4. RowsAccounted'
  BY DEF RowsAccounted, DbError, Live, Unfinished, jobVars, rowVars, history
<1>5. Recorded'
  BY DEF Recorded, DbError, CompletedIsRecorded, jobVars, rowVars
<1>6. Enqueued'
  BY DEF Enqueued, DbError, jobVars, rowVars
<1>7. Tenancy'
  BY DEF Tenancy, DbError, ExecsWithinTenant, jobVars, rowVars
<1> QED
  BY <1>1, <1>2, <1>3, <1>4, <1>5, <1>6, <1>7

(* ReportComplete preserves the invariant. *)
LEMMA ReportCompleteStep ==
  ASSUME IInv, ReportComplete
  PROVE  IInv'
<1> USE ConstantsAssumption DEF IInv
<1>1. TypeOK'
  BY DEF TypeOK, ReportComplete, Idle, rowVars, history, bounds
<1>2. RunsAccounted'
  BY DEF RunsAccounted, ReportComplete, Live, LockedIsActive, TypeOK, history
<1>3. LockedIsActive'
  BY DEF LockedIsActive, ReportComplete, TypeOK
<1>4. RowsAccounted'
  BY DEF RowsAccounted, ReportComplete, Idle, Live, Unfinished,
     LockedIsActive, TypeOK, rowVars, history
<1>5. Recorded'
  BY DEF Recorded, ReportComplete, Idle, CompletedIsRecorded, TypeOK, rowVars
<1>6. Enqueued'
  BY DEF Enqueued, ReportComplete, Idle, TypeOK, rowVars
<1>7. Tenancy'
  BY DEF Tenancy, ReportComplete, Idle, ExecsWithinTenant, rowVars
<1> QED
  BY <1>1, <1>2, <1>3, <1>4, <1>5, <1>6, <1>7

(* ReportFailure preserves the invariant. *)
LEMMA ReportFailureStep ==
  ASSUME IInv, ReportFailure
  PROVE  IInv'
<1> USE ConstantsAssumption DEF IInv
<1>1. TypeOK'
  BY DEF TypeOK, ReportFailure, Idle, rowVars, history, bounds
<1>2. RunsAccounted'
  BY DEF RunsAccounted, ReportFailure, Live, One, LockedIsActive, TypeOK,
     history
<1>3. LockedIsActive'
  BY DEF LockedIsActive, ReportFailure, TypeOK
<1>4. RowsAccounted'
  BY DEF RowsAccounted, ReportFailure, Idle, Live, One, Unfinished, TypeOK,
     rowVars, history
<1>5. Recorded'
  BY DEF Recorded, ReportFailure, Idle, CompletedIsRecorded, TypeOK, rowVars
<1>6. Enqueued'
  BY DEF Enqueued, ReportFailure, Idle, TypeOK, rowVars
<1>7. Tenancy'
  BY DEF Tenancy, ReportFailure, Idle, ExecsWithinTenant, rowVars
<1> QED
  BY <1>1, <1>2, <1>3, <1>4, <1>5, <1>6, <1>7

(* Crash preserves the invariant. *)
LEMMA CrashStep ==
  ASSUME IInv, Crash
  PROVE  IInv'
<1> USE ConstantsAssumption DEF IInv
<1>1. TypeOK'
  BY DEF TypeOK, Crash, jobVars, rowVars, history
<1>2. RunsAccounted'
  BY DEF RunsAccounted, Crash, Live, jobVars, history
<1>3. LockedIsActive'
  BY DEF LockedIsActive, Crash, jobVars
<1>4. RowsAccounted'
  BY DEF RowsAccounted, Crash, Live, One, Unfinished, TypeOK, jobVars,
     rowVars, history
<1>5. Recorded'
  BY DEF Recorded, Crash, CompletedIsRecorded, jobVars, rowVars
<1>6. Enqueued'
  BY DEF Enqueued, Crash, jobVars, rowVars
<1>7. Tenancy'
  BY DEF Tenancy, Crash, ExecsWithinTenant, jobVars, rowVars
<1> QED
  BY <1>1, <1>2, <1>3, <1>4, <1>5, <1>6, <1>7

(* Restart preserves the invariant. *)
LEMMA RestartStep ==
  ASSUME IInv, Restart
  PROVE  IInv'
<1> USE ConstantsAssumption DEF IInv
<1>1. TypeOK'
  BY DEF TypeOK, Restart, Step, jobVars, rowVars, history, bounds
<1>2. RunsAccounted'
  BY DEF RunsAccounted, Restart, Live, jobVars, history
<1>3. LockedIsActive'
  BY DEF LockedIsActive, Restart, jobVars
<1>4. RowsAccounted'
  BY DEF RowsAccounted, Restart, Step, Live, Unfinished, jobVars, rowVars,
     history
<1>5. Recorded'
  BY DEF Recorded, Restart, Step, CompletedIsRecorded, jobVars, rowVars
<1>6. Enqueued'
  BY DEF Enqueued, Restart, jobVars, rowVars
<1>7. Tenancy'
  BY DEF Tenancy, Restart, Step, ExecsWithinTenant, jobVars, rowVars
<1> QED
  BY <1>1, <1>2, <1>3, <1>4, <1>5, <1>6, <1>7

(* Promote preserves the invariant. *)
LEMMA PromoteStep ==
  ASSUME IInv, NEW j \in Jobs, Promote(j)
  PROVE  IInv'
<1> USE ConstantsAssumption DEF IInv
<1>1. TypeOK'
  BY DEF TypeOK, Promote, workerVars, rowVars, history, bounds
<1>2. RunsAccounted'
  BY DEF RunsAccounted, Promote, Live, history
<1>3. LockedIsActive'
  BY DEF LockedIsActive, Promote
<1>4. RowsAccounted'
  BY DEF RowsAccounted, Promote, Live, Unfinished, workerVars, rowVars,
     history
<1>5. Recorded'
  BY DEF Recorded, Promote, CompletedIsRecorded, workerVars, rowVars
<1>6. Enqueued'
  BY DEF Enqueued, Promote, workerVars, rowVars
<1>7. Tenancy'
  BY DEF Tenancy, Promote, ExecsWithinTenant, Found, workerVars, rowVars
<1> QED
  BY <1>1, <1>2, <1>3, <1>4, <1>5, <1>6, <1>7

(* LockExpires preserves the invariant. *)
LEMMA LockExpiresStep ==
  ASSUME IInv, NEW j \in Jobs, LockExpires(j)
  PROVE  IInv'
<1> USE ConstantsAssumption DEF IInv
<1>1. TypeOK'
  BY DEF TypeOK, LockExpires, workerVars, rowVars, history, bounds
<1>2. RunsAccounted'
  BY DEF RunsAccounted, LockExpires, Live, history
<1>3. LockedIsActive'
  BY DEF LockedIsActive, LockExpires
<1>4. RowsAccounted'
  BY DEF RowsAccounted, LockExpires, Live, Unfinished, workerVars, rowVars,
     history
<1>5. Recorded'
  BY DEF Recorded, LockExpires, CompletedIsRecorded, workerVars, rowVars
<1>6. Enqueued'
  BY DEF Enqueued, LockExpires, workerVars, rowVars
<1>7. Tenancy'
  BY DEF Tenancy, LockExpires, ExecsWithinTenant, Found, workerVars, rowVars
<1> QED
  BY <1>1, <1>2, <1>3, <1>4, <1>5, <1>6, <1>7

(* LockLost preserves the invariant. *)
LEMMA LockLostStep ==
  ASSUME IInv, NEW j \in Jobs, LockLost(j)
  PROVE  IInv'
<1> USE ConstantsAssumption DEF IInv
<1>1. TypeOK'
  BY DEF TypeOK, LockLost, workerVars, rowVars, history
<1>2. RunsAccounted'
  BY DEF RunsAccounted, LockLost, Live, history
<1>3. LockedIsActive'
  BY DEF LockedIsActive, LockLost
<1>4. RowsAccounted'
  BY DEF RowsAccounted, LockLost, Live, Unfinished, workerVars, rowVars,
     history
<1>5. Recorded'
  BY DEF Recorded, LockLost, CompletedIsRecorded, workerVars, rowVars
<1>6. Enqueued'
  BY DEF Enqueued, LockLost, workerVars, rowVars
<1>7. Tenancy'
  BY DEF Tenancy, LockLost, ExecsWithinTenant, Found, workerVars, rowVars
<1> QED
  BY <1>1, <1>2, <1>3, <1>4, <1>5, <1>6, <1>7

(* StalledCheck preserves the invariant. *)
LEMMA StalledCheckStep ==
  ASSUME IInv, NEW j \in Jobs, StalledCheck(j)
  PROVE  IInv'
<1> USE ConstantsAssumption DEF IInv
<1>1. TypeOK'
  BY DEF TypeOK, StalledCheck, workerVars, rowVars, history, bounds
<1>2. RunsAccounted'
  BY DEF RunsAccounted, StalledCheck, Live, One, TypeOK, history
<1>3. LockedIsActive'
  BY DEF LockedIsActive, StalledCheck
<1>4. RowsAccounted'
  BY DEF RowsAccounted, StalledCheck, Live, One, Unfinished, TypeOK,
     workerVars, rowVars, history
<1>5. Recorded'
  BY DEF Recorded, StalledCheck, CompletedIsRecorded, workerVars, rowVars
<1>6. Enqueued'
  BY DEF Enqueued, StalledCheck, workerVars, rowVars
<1>7. Tenancy'
  BY DEF Tenancy, StalledCheck, ExecsWithinTenant, Found, workerVars, rowVars
<1> QED
  BY <1>1, <1>2, <1>3, <1>4, <1>5, <1>6, <1>7

(* The invariant holds initially ... *)
LEMMA InitIInv == Init => IInv
<1> SUFFICES ASSUME Init PROVE IInv
  OBVIOUS
<1> USE ConstantsAssumption DEF Init
<1>1. TypeOK
  BY DEF TypeOK
<1>2. RunsAccounted
  BY DEF RunsAccounted, Live, One
<1>3. LockedIsActive /\ Enqueued
  BY DEF LockedIsActive, Enqueued
<1>4. RowsAccounted
  BY DEF RowsAccounted, Unfinished, Live, One
<1>5. Recorded /\ Tenancy
  BY DEF Recorded, CompletedIsRecorded, Tenancy, ExecsWithinTenant
<1> QED
  BY <1>1, <1>2, <1>3, <1>4, <1>5 DEF IInv

(* ... and every step preserves it. *)
LEMMA NextIInv == IInv /\ [Next]_vars => IInv'
<1> SUFFICES ASSUME IInv, [Next]_vars PROVE IInv'
  OBVIOUS
<1>1. CASE UNCHANGED vars
  BY <1>1 DEF vars, jobVars, workerVars, rowVars, history, bounds, IInv,
     TypeOK, RunsAccounted, LockedIsActive, RowsAccounted, Recorded, Enqueued,
     Tenancy, CompletedIsRecorded, ExecsWithinTenant, Found, Live, Unfinished
<1>2. CASE \E t \in Tenants, w \in Workflows :
             CreateWorkflow(t, w) \/ \E j \in Jobs : Enqueue(j, t, w)
  BY <1>2, CreateWorkflowStep, EnqueueStep
<1>3. CASE Handler
  BY <1>3, PickStep, BeginTxStep, FindWorkflowStep, InsertExecutionStep,
     InsertAuditStep, CommitStep, ReportCompleteStep, ReportFailureStep
     DEF Handler
<1>4. CASE CommitReplyLost \/ DbError \/ Crash \/ Restart
  BY <1>4, CommitReplyLostStep, DbErrorStep, CrashStep, RestartStep
<1>5. CASE \E j \in Jobs : BullMQ(j) \/ LockLost(j)
  BY <1>5, PromoteStep, LockExpiresStep, StalledCheckStep, LockLostStep
     DEF BullMQ
<1>6. CASE Quiet
  BY <1>1, <1>6 DEF Quiet
<1> QED
  BY <1>1, <1>2, <1>3, <1>4, <1>5, <1>6 DEF Next

(* IInv holds throughout. *)
THEOREM Invariance == Spec => []IInv
BY InitIInv, NextIInv, PTL DEF Spec

(* The variables keep their types. *)
THEOREM TypeCorrect == Spec => []TypeOK
<1>1. IInv => TypeOK
  BY DEF IInv
<1> QED
  BY <1>1, Invariance, PTL

(* No mixture of failures makes a job run more than Attempts + MaxStalled  *)
(* times.                                                                  *)
THEOREM RunsBounded == Spec => []BoundedRuns
<1>1. IInv => BoundedRuns
  <2> SUFFICES ASSUME IInv, NEW j \in Jobs PROVE runs[j] <= Attempts + MaxStalled
    BY DEF BoundedRuns
  <2>1. CASE state[j] \in {"active", "completed"}
    BY ConstantsAssumption DEF IInv, RunsAccounted, Live, One, TypeOK
  <2>2. CASE state[j] \notin {"active", "completed"}
    BY ConstantsAssumption DEF IInv, RunsAccounted, Live, One, TypeOK
  <2> QED
    BY <2>1, <2>2
<1> QED
  BY <1>1, Invariance, PTL

(* Every surplus execution row is owed to a stall or to a lost reply.      *)
THEOREM Duplicates == Spec => []DuplicatesExplained
<1>1. IInv => DuplicatesExplained
  BY DEF IInv, RowsAccounted, Live, Unfinished, One, DuplicatesExplained,
     TypeOK
<1> QED
  BY <1>1, Invariance, PTL

(* A completed job has its rows, and execution and audit rows pair up.     *)
THEOREM RecordedWhenCompleted == Spec => []CompletedIsRecorded
<1>1. IInv => CompletedIsRecorded
  BY DEF IInv, Recorded
<1> QED
  BY <1>1, Invariance, PTL

(* Execution rows are for workflows of their own tenant.                   *)
THEOREM TenancyOfExecutions == Spec => []ExecsWithinTenant
<1>1. IInv => ExecsWithinTenant
  BY DEF IInv, Tenancy
<1> QED
  BY <1>1, Invariance, PTL

(* A job that is completed or failed stays what it is: a report without    *)
(* the lock is refused, and whoever has the lock works on an active job.   *)
THEOREM FinalStays == Spec => FinalIsFinal
<1>1. IInv /\ [Next]_vars =>
        [\A j \in Jobs : state[j] \in Final => state'[j] = state[j]]_vars
  <2> SUFFICES ASSUME IInv, Next, NEW j \in Jobs, state[j] \in Final
               PROVE  state'[j] = state[j]
    OBVIOUS
  <2> USE DEF IInv, TypeOK, jobVars
  <2>1. CASE \E t \in Tenants, w \in Workflows :
               CreateWorkflow(t, w) \/ \E i \in Jobs : Enqueue(i, t, w)
    BY <2>1 DEF CreateWorkflow, Enqueue
  <2>2. CASE Handler
    BY <2>2 DEF Handler, Pick, BeginTx, FindWorkflow, InsertExecution,
       InsertAudit, Commit, ReportComplete, ReportFailure, LockedIsActive
  <2>3. CASE CommitReplyLost \/ DbError \/ Crash \/ Restart
    BY <2>3 DEF CommitReplyLost, DbError, Crash, Restart
  <2>4. CASE \E i \in Jobs : BullMQ(i) \/ LockLost(i)
    BY <2>4 DEF BullMQ, Promote, LockExpires, StalledCheck, LockLost
  <2>5. CASE Quiet
    BY <2>5 DEF Quiet, vars
  <2> QED
    BY <2>1, <2>2, <2>3, <2>4, <2>5 DEF Next
<1> QED
  BY <1>1, Invariance, PTL DEF Spec, FinalIsFinal
=============================================================================
