----------------------------- MODULE AuditChain -----------------------------
(***************************************************************************)
(* The hash-chained audit log: the BEFORE INSERT trigger of                *)
(* 010_audit_hash_chain.sql, run by transactions on the connections of the *)
(* gateway, the vault and the worker, and the two maintenance scripts that *)
(* rewrite and export the log.  They run by docker exec on the database    *)
(* that serves, beside whatever the services do.                           *)
(*                                                                         *)
(* occurred_at defaults to now(), the time the TRANSACTION began, so rows  *)
(* need not be committed in the order of their times.  The trigger chains  *)
(* to the newest row by that time among those it can see: the committed    *)
(* ones.  No handler writes two audit rows, so a row is known by its time. *)
(*                                                                         *)
(* A hash is the sequence of times hashed into it, last one last: SHA-256  *)
(* over the previous hash and the row's columns, taken to be injective.    *)
(* NULL is the empty sequence, which is what coalesce makes of it.         *)
(*                                                                         *)
(* With the privileges of the migrations alone the trigger cannot read the *)
(* log (Schema!AuditInsertOk, WorkflowExecution); here it can.             *)
(***************************************************************************)
EXTENDS Naturals, Sequences, FiniteSets

CONSTANTS
  Writers,      \* connections on which app_user writes audit rows
  Tenants,
  WritersOf,    \* the connections that write each tenant's rows
  Scripts,      \* the scripts that are run: of "backfill", "archive"
  MaxClock,     \* bound: transactions that begin
  MaxRuns       \* bound: runs of the scripts

ASSUME ConstantsAssumption ==
  MaxClock \in Nat /\ MaxRuns \in Nat /\ WritersOf \in [Tenants -> SUBSET Writers]

VARIABLES
  clock,      \* the time of the next transaction
  tx,         \* the transaction of each writer: its tenant and time, or NoTx
  pending,    \* the audit row it has inserted: a set of at most one row
  log,        \* committed rows of audit_log
  marked,     \* the rows with archived_at set, as <<tenant, time>>
  runs,       \* of the scripts, up to now
  backfilling,\* the backfill's transaction is open
  read,       \* the rows its cursor goes through
  beside,     \* history: rows written beside a backfill, and not read since
  archive,    \* the step of the archive script
  file,       \* the rows of the archive file it is writing, likewise
  archives,   \* the rows in sealed archive files, as <<tenant, time>>
  due,        \* history: the rows an export was to have
  missed,     \* history: the rows that an export which failed left out
  late        \* history: the rows marked that were not there at the export

backfill == <<backfilling, read, beside>>
archiving == <<marked, archive, file, archives, due, missed, late>>
scripts == <<runs, backfill, archiving>>
vars == <<clock, tx, pending, log, scripts>>

Null == <<>>
NoTx == <<>>

Row == [tenant : Tenants, at : Nat, prev : Seq(Nat), hash : Seq(Nat)]

Key(r) == <<r.tenant, r.at>>
Keys(S) == {Key(r) : r \in S}

-----------------------------------------------------------------------------
(***************************************************************************)
(* set_audit_log_hash().                                                   *)
(***************************************************************************)

VisibleUncommitted(w, t) ==   \* mutant: reads what others have not committed
  {r \in log \cup UNION {pending[v] : v \in Writers} : r.tenant = t}

(* READ COMMITTED: the rows of tenant t a statement of writer w sees. *)
Visible(w, t) == {r \in log \cup pending[w] : r.tenant = t}

Oldest(S) == CHOOSE r \in S : \A q \in S : r.at <= q.at   \* mutant: no DESC

(* ORDER BY occurred_at DESC LIMIT 1 *)
Newest(S) == CHOOSE r \in S : \A q \in S : q.at <= r.at

LastHash(S) == IF S = {} THEN Null ELSE Newest(S).hash

Hashed(t, at, prev) == [tenant |-> t, at |-> at, prev |-> prev, hash |-> Append(prev, at)]

-----------------------------------------------------------------------------
(* Rows written before 010 have no hashes; at most one per tenant here. *)
Legacy == [tenant : Tenants, at : {0}, prev : {Null}, hash : {Null}]

Init ==
  /\ clock = 1
  /\ tx = [w \in Writers |-> NoTx]
  /\ pending = [w \in Writers |-> {}]
  /\ log \in SUBSET Legacy
  /\ marked = {}
  /\ runs = 0 /\ backfilling = FALSE /\ read = {} /\ beside = {}
  /\ archive = "idle" /\ file = {} /\ archives = {}
  /\ due = {} /\ missed = {} /\ late = {}

Begin(w, t) ==
  /\ tx[w] = NoTx /\ w \in WritersOf[t] /\ clock <= MaxClock
  /\ tx' = [tx EXCEPT ![w] = [tenant |-> t, at |-> clock]]
  /\ clock' = clock + 1
  /\ UNCHANGED <<pending, log, scripts>>

InsertAudit(w) ==
  /\ tx[w] # NoTx /\ pending[w] = {}
  /\ LET t == tx[w].tenant IN
     pending' = [pending EXCEPT ![w] = {Hashed(t, tx[w].at, LastHash(Visible(w, t)))}]
  /\ UNCHANGED <<clock, tx, log, scripts>>

Commit(w) ==
  /\ tx[w] # NoTx
  /\ log' = log \cup pending[w]
  /\ pending' = [pending EXCEPT ![w] = {}]
  /\ tx' = [tx EXCEPT ![w] = NoTx]
  /\ UNCHANGED <<clock, scripts>>

Abort(w) ==
  /\ tx[w] # NoTx
  /\ pending' = [pending EXCEPT ![w] = {}]
  /\ tx' = [tx EXCEPT ![w] = NoTx]
  /\ UNCHANGED <<clock, log, scripts>>

-----------------------------------------------------------------------------
(***************************************************************************)
(* backfill-audit-hashes.sql: one DO block, so one transaction.  Its       *)
(* cursor reads the rows as they are when the loop starts.                 *)
(***************************************************************************)
Sorted(T) ==
  CHOOSE s \in [1 .. Cardinality(T) -> T] : \A i, j \in DOMAIN s : i < j => s[i] < s[j]

BeforeInAll(S, r) ==   \* mutant: last_hash is not reset at the next tenant
  Sorted({q.at : q \in {q \in S : q.at < r.at}})

(* last_hash when the loop, ordered by tenant and time, gets to row r. *)
Before(S, r) == Sorted({q.at : q \in {q \in S : q.tenant = r.tenant /\ q.at < r.at}})

Rehashed(S, r) == Hashed(r.tenant, r.at, Before(S, r))

Run(script) == script \in Scripts /\ runs < MaxRuns /\ runs' = runs + 1

BackfillStart ==
  /\ Run("backfill") /\ ~backfilling
  /\ backfilling' = TRUE /\ read' = log
  /\ UNCHANGED <<clock, tx, pending, log, beside, archiving>>

BackfillEnds ==
  /\ backfilling /\ backfilling' = FALSE /\ read' = {}
  /\ UNCHANGED <<clock, tx, pending, runs, archiving>>

(* Rows that were inserted before this, and not read, were chained to the  *)
(* hashes that were there until now.                                       *)
BackfillCommit ==
  /\ BackfillEnds
  /\ log' = (log \ read) \cup {Rehashed(read, r) : r \in read}
  /\ beside' = (beside \ Keys(read)) \cup Keys(log \ read)
                                     \cup Keys(UNION {pending[w] : w \in Writers})

BackfillAbort == BackfillEnds /\ UNCHANGED <<log, beside>>

-----------------------------------------------------------------------------
(***************************************************************************)
(* archive-audit-log.ps1: three commands, each on its own, and the script  *)
(* may die between any two of them.  $ErrorActionPreference stops it at an *)
(* error of a cmdlet, not at the exit code of docker: an export that fails *)
(* leaves a file with its first rows or none, and the script goes on.      *)
(***************************************************************************)
Unmarked == {r \in log : Key(r) \notin marked}

ArchiveExportAs(rows) ==
  /\ Run("archive") /\ archive = "idle"
  /\ archive' = "exported" /\ file' = Keys(rows)
  /\ due' = Keys(Unmarked) /\ missed' = missed \cup Keys(Unmarked \ rows)
  /\ UNCHANGED <<clock, tx, pending, log, marked, backfill, archives, late>>

ArchiveExport == ArchiveExportAs(Unmarked)

(* The rows before some time reached the file. *)
ArchiveExportFails ==
  \E n \in {r.at : r \in Unmarked} : ArchiveExportAs({r \in Unmarked : r.at < n})

(* Get-FileHash: the file is complete and its hash is beside it. *)
ArchiveSeal ==
  /\ archive = "exported"
  /\ archives' = archives \cup file
  /\ archive' = "sealed"
  /\ UNCHANGED <<clock, tx, pending, log, marked, runs, backfill, file, due, missed, late>>

(* UPDATE audit_log SET archived_at = now() WHERE archived_at IS NULL *)
Marks ==
  /\ marked' = marked \cup Keys(Unmarked) /\ late' = late \cup (Keys(Unmarked) \ due)
  /\ archive' = "idle" /\ file' = {} /\ due' = {}
  /\ UNCHANGED <<clock, tx, pending, log, runs, backfill, archives, missed>>

ArchiveMarkEarly == archive \in {"exported", "sealed"} /\ Marks   \* mutant: before sealing

ArchiveMark == archive = "sealed" /\ Marks

ArchiveDies ==
  /\ archive # "idle" /\ archive' = "idle" /\ file' = {} /\ due' = {}
  /\ UNCHANGED <<clock, tx, pending, log, marked, runs, backfill, archives, missed, late>>

Finished ==
  /\ clock > MaxClock /\ \A w \in Writers : tx[w] = NoTx
  /\ UNCHANGED vars

-----------------------------------------------------------------------------
Services ==
  \E w \in Writers :
    (\E t \in Tenants : Begin(w, t)) \/ InsertAudit(w) \/ Commit(w) \/ Abort(w)

Backfill == BackfillStart \/ BackfillCommit \/ BackfillAbort

Archive == ArchiveExport \/ ArchiveExportFails \/ ArchiveSeal \/ ArchiveMark \/ ArchiveDies

Next == Services \/ Backfill \/ Archive \/ Finished

Spec == Init /\ [][Next]_vars

-----------------------------------------------------------------------------
(* Types. *)
TypeOK ==
  /\ clock \in Nat
  /\ tx \in [Writers -> {NoTx} \cup [tenant : Tenants, at : Nat]]
  /\ pending \in [Writers -> SUBSET Row]
  /\ log \in SUBSET Row
  /\ marked \in SUBSET (Tenants \X Nat)
  /\ runs \in 0 .. MaxRuns /\ backfilling \in BOOLEAN /\ read \in SUBSET Row
  /\ archive \in {"idle", "exported", "sealed"}
  /\ {beside, file, archives, due, missed, late} \subseteq SUBSET (Tenants \X Nat)

(* The row holds the hash of the row before it in the order of occurred_at.*)
Verifies(r) == r.prev = LastHash({q \in log : q.tenant = r.tenant /\ q.at < r.at})

(* Whoever recomputes the chain in the order of occurred_at, as the        *)
(* backfill does, finds it untampered.                                     *)
ChainVerifies == \A r \in log : Verifies(r)

OneWriter(t) == \A v, w \in WritersOf[t] : v = w

(* So does the auditor of a tenant whose audit rows all come from one      *)
(* connection, whatever the other tenants' writers and the scripts do      *)
(* meanwhile: but for the rows that were written beside a backfill.        *)
SerialChainVerifies ==
  \A r \in log : OneWriter(r.tenant) /\ Key(r) \notin beside => Verifies(r)

(* The weaker promise that survives concurrent writers: no row is chained  *)
(* to a hash that is nowhere in its tenant's log, unless it was written    *)
(* beside a backfill.                                                      *)
LinksResolve ==
  \A r \in log : r.prev # Null /\ Key(r) \notin beside =>
    \E q \in log : q.tenant = r.tenant /\ q.hash = r.prev

(* Whatever the log looked like, it verifies after a backfill, up to the   *)
(* first row of each tenant that was written beside it.                    *)
UpToBeside(r) == \E q \in log : q.tenant = r.tenant /\ q.at <= r.at /\ Key(q) \in beside

BackfillRepairs ==
  [][BackfillCommit => (\A r \in log : Verifies(r) \/ UpToBeside(r))']_vars

(* A row leaves the live log's care (archived_at is set) only when a       *)
(* sealed archive file has it, or when its export failed unnoticed.        *)
ArchivedIsExported == marked \subseteq archives \cup missed

(* Wherever the archive script died before, nothing loses a row from the   *)
(* archive but an export that failed, or a commit between it and the mark. *)
MarkedIsExplained == marked \ archives \subseteq missed \cup late
=============================================================================
