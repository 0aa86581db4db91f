# Verification of the secure automation engine

TLA+ models of this repository, the TLC runs that check them on small
instances, and TLAPS proofs of what matters most for instances of any size.
Every definition is translated from the code; `PROJECT.json` has, for each of
them, the lines it stands for. PostgreSQL, the `pg` pool, Redis and BullMQ are
not part of the repository: they are modelled from how the code uses and
configures them, and marked external.

    tlc -workers 2 -config MCTenantTx.cfg MCTenantTx    # one run
    tlapm TenantTxProofs.tla                                 # one proof module

## 1. The system

A multi-tenant workflow automation back end. Three kinds of node process and
two stores do everything:

    web UI -> api-gateway (Express; also mounts the credential vault's router)
                 |  pg pool of 1 (db.ts), pg pool of 10 (vault.routes.ts)
                 |  BullMQ queue "workflow-execution"      Redis: replay keys
                 v
              Redis -> task-orchestrator (BullMQ worker, concurrency 1)
                              |  pg pool of 1 (workflow.worker.ts)
                              v
                          PostgreSQL (row-level security, audit trigger)

scripts/*.ps1, *.sql: archive and backfill of the audit log, pruning, erasure

| component | state it keeps | operations | talks to |
|---|---|---|---|
| tenant transaction: `db.ts`, the same bracket by hand in `vault.routes.ts` and `workflow.worker.ts` | checked-out client, session of each connection (transaction, `app.current_tenant_id`), uncommitted writes | connect, BEGIN, set_config, statements, COMMIT, ROLLBACK, release | the pg pool (FIFO of waiting callers), PostgreSQL |
| row-level security, `002_rls.sql` | the tables' policies | decides what a statement sees and may write | every tenant transaction |
| authentication: `auth.service.ts`, `tenant.middleware.ts` | none (signed tokens) | login, verify: sets `req.tenantId` or answers 401 | every handler |
| workflows: `workflows.routes.ts` | `workflows` rows | create with audit row, list, run (enqueue) | queue, PostgreSQL |
| queue: `workflow.queue.ts` | jobs in Redis: state, attempts, stall count, lock | add, with 3 attempts and backoff | Redis |
| worker: `workflow.worker.ts` | the job in hand, its lock | find the workflow, write `execution_logs` and `audit_log`, report | queue, PostgreSQL |
| audit log: `010_audit_hash_chain.sql`, `backfill-audit-hashes.sql`, `archive-audit-log.ps1` | hash-chained rows, `archived_at`, archive files | trigger on INSERT, backfill, export, seal, mark | every handler that writes an audit row |
| schema: `db/migrations/` | tables and grants | ten migrations | everything |
| OAuth connections: `oauth.routes.ts`, `oauth.service.ts`, the connectors | `oauth_connections` (encrypted tokens) | connect, list, refresh, call a connector | PostgreSQL, the providers |
| credential vault: `vault.routes.ts`, `vault.service.ts` | `credential_vault` (ciphertext, key) | store, list, decrypt, rotate, delete | PostgreSQL |
| tenant settings and retention: `admin.routes.ts`, `007`, `009`, `prune-expired-data.ps1` | `tenant_settings` (no RLS policy: its queries name the tenant), `ttl_delete_after` | read or create settings, PATCH, prune | PostgreSQL |
| erasure: `008_gdpr_erasure.sql` | all rows of one tenant | one function, ten DELETEs | PostgreSQL |
| webhook intake: `webhook.routes.ts` | replay keys in Redis | check signature and age, SET NX EX | Redis |
| executions listing: `executions.routes.ts` | none | read | PostgreSQL |
| web UI: `App.tsx`, `api.ts`, the three views | token in localStorage, session, tab, loaded data, graph of the builder | sign in and out, reload, open a view, load, change, edit the graph, save | gateway |
| metrics: `metrics.service.ts` | counters | count, expose | none |
| scheduler, audit-service, webhook-listener | none: empty files | none | none |

What is hard to get right here, and hardly reached by a test:

* **Connections outlive requests.** A tenant is a setting of the session a
  connection happens to be in. Whatever one request leaves in it, the next one
  inherits; the gateway has one connection for everybody (`max: 1`).
* **Every step of the bracket can fail**, including COMMIT (whose reply may be
  lost after it took effect) and ROLLBACK (rejected on a dead connection).
* **The tenant a transaction is set up for is an argument.** Row-level security
  holds it to that tenant, whoever chose it: the gateway's handlers and the worker
  take it from the token or the job, the vault's from the request's body or query.
* **Three pools run side by side** and contend for row locks.
* **The worker's job can be taken from it.** BullMQ gives a job whose lock ran
  out to somebody else; the old holder goes on, commits and reports.
* **Retries** repeat what may already have been done.
* **The audit trigger reads before it writes**, under READ COMMITTED, ordering
  rows by the time their transactions *began*.
* **Scripts work on a live database in several commands**, each its own
  transaction, and can die between any two.
* **Redis acknowledges before it has synced** (`appendfsync everysec`), and
  ioredis sends a command again whose reply it did not get.
* **A refresh token is spent at the provider** inside a transaction that may
  still be rolled back.
* **The vault's key belongs to the process**, a ciphertext does not say which
  key made it, and store and rotate encrypt before they ask for a connection.
* **The web UI never cancels a call**: answers arrive in any order, for views
  and sessions that are gone; in the deployed dev server every view mounts twice.
* **Migrations interact**: a trigger added in 010 runs with privileges granted
  in 003 for something else; 008 and the vault name a table none creates.

Correctness, component by component: a handler's statements run in a live
transaction scoped to one tenant, read and change that tenant's rows only (the
caller's, where the tenant comes from the token), take effect at most once and as a whole, and leave the connection clean; every
waiting request is answered (tenant transaction). A job is run a bounded number
of times, ends, stays ended, and has its rows in pairs, for workflows of its own
tenant, with duplicates only where the queue or a lost reply explains them
(workflow execution). An untampered chain verifies, or at least every link
leads somewhere; what is marked archived is archived; where that fails, it fails
for the reasons named (audit log). An erasure
takes a tenant with all of its rows, or nothing, whatever its requests are
doing meanwhile, and neither side waits for the other for ever (erasure). A
webhook id is accepted once per ten minutes, a call of the run endpoint adds the
jobs that its resends explain, and what is lost with Redis is its last second
(intake). A stored refresh token is the successor of the one stored before it
(connections). A deleted credential stays deleted, and a read gives no secret from
before a rotation that was answered (vault). The page and localStorage agree on
who is signed in, a view shows the data of the tenant its next call is about and no
other view's answer, and progress messages end (web UI).

## 2. The modules

| module | models | state and actions |
|---|---|---|
| `TenantStore` | abstract: what the data plane promises | committed rows, tenant of each request, which requests took effect, what they were answered. `Accept`, `Apply`, `Fail` |
| `TenantTx` | the bracket, the pools, RLS | below |
| `Schema` | `db/migrations/` as data | tables and grants of `app_user` after the first `level` migrations |
| `WorkflowExecution` | run endpoint, queue, worker | below; uses `Schema` |
| `AuditChain` | the trigger, backfill and archive | below |
| `Erasure` | `right_to_erasure` beside the handlers that write | below; uses `Schema` |
| `RedisIntake` | webhook intake and run endpoint against a Redis that crashes | below |
| `Connections` | OAuth connections, their refresh, the connectors | below; uses `Schema` |
| `CredentialVault` | the vault's operations under changing keys | below |
| `WebUi` | one page of the web UI | below |
| `TenantTxProofs`, `WorkflowExecutionProofs`, `AuditChainProofs`, `ErasureProofs`, `ConnectionsProofs`, `CredentialVaultProofs`, `RedisIntakeProofs`, `WebUiProofs` | the proofs | |
| `MC*` | instances for TLC | |

### TenantTx

`phase[r]` is where request `r` is in the bracket, one value per `await`:
`idle`, `waiting` (in `pool.connect()`), `connected`, `begun`, `scoped` (the
callback may run), `changing` (an UPDATE or DELETE in flight, perhaps waiting
for a lock), `changed`, `inserted`, `rollback` (in the catch block), `done`.
`session[c]` is the server side of a connection: alive or not, transaction
`none`/`open`/`aborted`, and the value of `app.current_tenant_id`. `pend[c]`
holds its uncommitted writes, which are also its row locks. `queue` and
`holder` are the pool's pending queue and its checked-out clients. `caller[r]` is
the tenant of the token, or of the job; `tenantOf[r]` the one the transaction is
set up for. `Arrive` makes them equal but for the pools in `BodyTenant`, the
vault's: its handlers use the `tenant_id` of the body or the query
(vault.routes.ts:18, 63, 102, 162, 219, 286) and never look at the token's.
`TenantIsolation` is about `tenantOf` everywhere and about `caller` outside
`BodyTenant`; `CallerIsolation` is about `caller` everywhere, and does not hold.

| code | action |
|---|---|
| middleware and field checks | `Arrive`, `Reject` |
| `pool.connect()` | `Checkout`, `ConnectFails` |
| `BEGIN`, `set_config(.., true)` | `Begin`, `SetTenant` |
| the callback's SELECT / UPDATE or DELETE / INSERT | `Select` / `SendChange`, `DoChange` / `Insert` |
| a refused statement, a throw of the handler | `StatementFails`, `HandlerThrows` |
| `COMMIT`, `finally release` | `Commit`, or `CommitReplyLost` |
| `catch { ROLLBACK; throw }`, release | `Rollback`, or `RollbackRejected` on a dead connection |
| a connection breaks, a process dies | `ConnectionLost`, `Crash` |

The model is not told that statements are scoped: `Visible`, `WithCheck` and
`EndTx` work on whatever the session holds, a BEGIN in an open transaction is
the warning it is in PostgreSQL, a local setting outside a transaction
evaporates, and COMMIT of an aborted transaction commits nothing. That the
right tenant is there is what the properties are about. Rows of all protected
tables are one table; a row is its tenant and its last writer, which is what
isolation and atomicity can tell apart. A handler sends at most one UPDATE or
DELETE and any number of SELECTs and INSERTs, as all of the code's do.

### WorkflowExecution

One action per statement of the worker's transaction, and BullMQ as the code
configures it: `Attempts` (3 in the code), one forgiven stall, concurrency 1, a lock
without which a report is refused. `Crash`/`Restart` are the container's.
`LockExpires` is the lock of a job nobody works on; `LockLost` that of a job a
live worker works on, which then continues to its COMMIT, and whose report
(`ReportComplete`, `ReportFailure`) is refused. `StalledCheck` returns such
jobs to the queue or fails them. `runs`, `unsure` and `outages` are history
variables: handler starts, lost COMMIT replies, and attempts that a database error
failed, per job. `SchemaLevel` and
`ExtraGrants` say which migrations have run and what `app_user` has been
granted on `audit_log` besides; `Schema!AuditInsertOk` is then the database's
verdict on the worker's second INSERT.

### AuditChain

Every writer is a connection with at most one transaction; `clock` is the
transaction time that `occurred_at` defaults to. `InsertAudit` is the trigger:
newest visible row of the tenant by `occurred_at`, its hash as `prev_hash`. A
hash is the sequence of row times hashed into it (SHA-256 taken as injective).
The scripts run by `docker exec` on the database that serves, and nothing in them
or in the documents stops the services: they interleave with every writer. The
backfill is one transaction whose cursor reads its snapshot at the start, and
whose rewritten hashes appear when it commits; the archive script is three commands
(`ArchiveExport`, `ArchiveSeal`, `ArchiveMark`) and may die between them
(`ArchiveDies`). Three history variables name what goes wrong: `beside` has the
rows written beside a backfill, chained to a hash it replaced, and not rehashed
since; `missed` those a failed export left out (`ArchiveExportFails`); `late` those
that were committed between an export and its mark. The
module assumes the trigger can read the log, i.e. that somebody has granted
`app_user` SELECT on it; `WorkflowExecution` is about what happens when nobody
has.

### Erasure

`TenantTx` has the bracket in full and one table; `Erasure` has the tables and
takes the bracket for granted: a request is the list of write statements of its
handler (`CreateWorkflow`, `Execute`, `Connect`, ... `PatchSettings`, in the
order of the code), `left[r]` what is still to run of it, `inserted[r]`,
`touched[r]` and `removed[r]` what its transaction has done and locked. The
statements' outcomes are actions: `Insert`, `Change`, `Miss` (no such row and
nobody minds, or a 404), `Refused` (no table, no privilege, no tenant, or the
handler throws because its SELECT found nothing), then `Commit`. `Fails` is
everything else that may go wrong, at any point.

The function is one transaction: `EraseScan` takes the snapshot of the DELETE
`step` is at, `EraseDelete` waits for the locks on its rows and deletes those
still there, `EraseTenant` deletes the tenant's row, `EraseCommit` or
`EraseRefused` is the foreign keys' verdict. Locks are not variables: `WaitsFor`
says who waits for whom, from what each transaction has done. A request that
has inserted a row holds its tenant's row FOR KEY SHARE (the foreign key to
`tenants`), which `EraseTenant` waits for, and an INSERT waits for an
`EraseTenant` that has happened. The order of the two sides' locks is what
`NoDeadlock` and `NoOrphans` are about. `ExtraTables` are tables made by hand
after the migrations: `credential_rotation_audit`, which 008 and the vault use
and no migration creates, is in it or not. The initial rows are of the seeding
kind (`scripts/test-gdpr-erasure.ps1`), made before the model begins.

### RedisIntake

`mem` is what Redis has in memory, `disk` what it has synced: the expiry of each
replay key, the jobs, the job counter. A request goes `new`, `sent` (its command
is on the way), `executed` (the reply is on the way), `answered`.

| code | action |
|---|---|
| `webhook.routes.ts`: 401, 400 | `Refuse` |
| `redis.set(key, "1", "EX", 600, "NX")` / `workflowQueue.add` | `Send`, then `SetReplayKey` / `AddJob` in Redis |
| 200 or 409 / 202; the catch block | `Reply`; `GiveUp` |
| `--appendonly yes --appendfsync everysec`, `restart: unless-stopped` | `Tick`, which syncs; `RedisCrash`, `RedisRestart` |
| ioredis' resending of unanswered commands | `ConnectionBreaks`, and in `RedisCrash` |
| the worker taking a job to its end | `Work` |
| the gateway's end and restart | `GatewayCrash` |

`WorkflowExecution` has the queue on a Redis that does not forget, and the worker
in full; here a job is one step, and the question is what a crash of Redis does to
the three things that were acknowledged: keys, jobs, completions.

### Connections

A request is of one of four kinds and goes `queued`, `begun`, then through the
statements of its callback, `done`, `answered`. `Renew` is the SELECT together
with `simulateOAuthRefresh`, between which nothing is awaited, and `Update` the
statement after it. The repository simulates the provider; what a provider does
with the token it is shown is history: `traded` has each token with its
successor. (The simulated tokens are named after the millisecond; the model's are
new.) `Connect` stores whatever tokens the body brings, as the code does: new ones,
any there have been, or no refresh token at all. Nothing is unique in
`005_oauth.sql`, so a connect that is sent again, after a lost reply to COMMIT for
instance, gives two rows one refresh token, and refreshing one spends the other's;
`shared` has the tokens that were stored or spent when a caller brought them. `row[r]` is the uncommitted row. `Unlocked` makes a second UPDATE wait
for the first, as PostgreSQL does, and then overwrite it: that two refreshes
never get there is not in the guards but in `PoolSize`, 1 in `db.ts`. `floor[r]`
is the newest token its connection was said to have when `r` arrived.

### CredentialVault

The same places, on the vault's pool, which lets all of them run at once.
`enc[r]` is the ciphertext made on arrival with the process's `key`; `Restart(k)`
ends every handler and may change the key; `Read` needs the key that made the
row's ciphertext and otherwise `Throws`, which is what becomes of everything stored
before a change of key (see "Where the code and its documents disagree"). `table` is whether somebody has made
`credential_rotation_audit`, without which `RotationAudit` never happens and the
rotation is rolled back. `stored[c]` is the sequence of secrets a credential has
had.

### WebUi

Every button is an action of `User`; a call it makes joins `calls`, is handled
by the server once (`Handle`, which may also fail, before or after it took
effect), and its continuation (`SignedIn`, `Loaded`, `Changed`, ..) runs when it
runs. `by` says whose state that sets: React drops what an unmounted view's
continuation sets, so an unmounted view's calls are `gone`, while `App`'s live as
long as the page. What a view shows is a tenant, a version of its data at the
server, and whether another call about that data was under way while it was
loaded. The vault's calls take the tenant of the login form (`TenantFor`), all
others the token's, and the two need not be the same: a page that is loaded with
another tenant's token in localStorage begins signed in with a form at its default,
and the form can be edited while a sign-in is under way. `adrift` is the history of
that. The credentials shown are then those of the form's tenant, under the other's
session; the page does not prevent it, `ViewsKeepTheirTenant` says that nothing else
leads there, and that a view shows what its next call will be about. `EffectRuns` is
how often a mounting effect runs: twice under the StrictMode of `main.tsx` in the
development server, which is what the README and `docker-compose.prod.yml` start.
The builder has nodes with a data counter, edges, and the
panel's copy of one node. What is typed into the forms of the views is not in the
model.

## 3. The runs

| run | instance | shows |
|---|---|---|
| `tenant` | 2 requests on the gateway's one client and a job of the worker, in 2 processes; 2 tenants, 1 row, 1 lost connection, 1 crash, fair | what a request leaves behind for the next user of its connection: nothing; a transaction stays with the tenant it was set up for; writers of one row exclude one another; a crash of one process leaves the other's transactions alone; refinement of `TenantStore`; everybody waiting for the one client is answered |
| `tenant_vault` | the same with the vault's pool | **violated**: a caller of one tenant reads or writes a row of another, which it names |
| `workflow` | 2 jobs, 2 tenants, 1 workflow, migrations 001-009; 2 attempts, 1 forgiven stall, 1 crash, 1 lost lock, 2 failed statements or replies, fair | bounds on runs and duplicates, pairing of rows, final states stay; every job ends, and those on existing workflows are executed unless they stall too often or the database fails every attempt |
| `workflow_hashed` | migrations 001-010, no failures, fair | **violated**: no workflow is executed |
| `audit` | 2 writers, 2 tenants, one written to by both and one by a single writer, 3 transactions, legacy rows, 3 runs of the scripts beside them | the single writer's chain verifies, links resolve, backfill repairs, up to rows written beside a backfill; a marked row is archived but for the two reasons named |
| `audit_fork` | 2 writers, 1 tenant, no scripts | **violated**: the chain forks |
| `audit_archive_online` | 1 writer, archive script beside it | **violated**: a row is marked and in no file |
| `erasure` | 2 requests of one tenant, either tenant erased, 4 handlers, 4 old rows, 1 failure, fair | no orphans, all or nothing, no circle of waits; requests and function end; the other tenant is erased if nothing fails |
| `intake` | 2 deliveries of one webhook, 2 calls, any 2 of them made; a key lives 2 of 3 ticks; 1 broken connection, 1 crash of Redis, any of the gateway, fair | replay protection and job counts up to what a crash or a resend explains; everybody is answered |
| `connections` | 3 requests, 2 tenants, 2 providers, 2 connections, pool of 1, 2 failures, any tokens brought | the chain of refresh tokens holds; a spent token stays stored only after a failure, or if a caller brought one twice; connectors use fresh tokens |
| `vault` | 3 requests, 2 tenants, 1 credential, 2 keys, 1 failure, 1 restart, with and without the missing table | no resurrection by a rotation, fresh reads |
| `web` | 2 tenants, 1 node to add, 3 clicks, every view mounted twice, any order of answers, fair | whose data is on the page, that it is current when the page says it is, that progress messages end, that graph and panel agree |

Bounds, all of them constants named in the guards: `MaxLosses`, `MaxCrashes`
(TenantTx), `MaxLockLosses`, `MaxDbErrors`, `MaxCrashes` (WorkflowExecution),
`MaxClock`, `MaxRuns` (AuditChain), `MaxErasures`, `MaxFaults` (Erasure), `MaxTime`,
`MaxRequests`, `MaxBreaks`, `MaxCrashes` (RedisIntake), `MaxFaults` (Connections,
CredentialVault), `MaxRestarts` (CredentialVault), `MaxClicks` (WebUi). Why they
suffice: inheritance through a connection needs two requests on one client, and
one in between that failed; a conflict needs two writers on one row; the third
request is there so that both happen at once. `Attempts` is 2 in
`workflow` (3 in `workflow_hashed`), so that two failed statements use up a job's
attempts, and a crash and a lost lock take it past `MaxStalled`; two jobs let a
worker report on one after the other was stalled. A fork takes two overlapping transactions, overtaking takes
a third row between them; a row beside a backfill takes one transaction that
begins before it, and a third run lets a second backfill repair it, or an archive run
follow on one that died. An orphan takes one request and the function, a circle
through a third party takes two requests; the four handlers of the run (refresh,
the vault's delete, GET and PATCH of the settings) have between them each way the
code's nine touch tables: insert with the foreign key, change before inserting,
delete, change-or-insert, insert-if-missing and read back; the proofs have all nine.
A replay needs two deliveries with a key that expires, or is forgotten, between
them, within three ticks; a job counted twice needs one call and one resend.
A broken chain takes a connect and two refreshes, stale use a connect, a refresh
and a connector: three requests. A resurrection takes a rotation and a deletion, an old
secret a store, a rotation and a read: three, on one credential; a second
credential shares nothing with the first. In the page, which may begin signed in,
three clicks are enough to mount a view, change what it shows, and leave, reload or
sign out while an answer is on its way. `EffectRuns` is 2, the page as it is deployed:
the two loads of a mount overlap, so that what `QuietIsCurrent` says of a view begins
with its next load. Typing a tenant is not a click, and is not bounded. Symmetry is used
in the runs of safety alone (requests, tenants, providers, keys: nothing in the
models tells them apart); their action properties are of the form `[][..]_v`,
checked step by step, for which symmetry is sound too.

Deadlock is checked in every run but `web`. A system that has done everything
stutters by an action of its own (`Finished`, `Quiet`) whose guard says that
nothing is left, so a state in which something waits for ever is reported. In
`web` the user stops after `MaxClicks`; `BusyEnds` is what says that the page does
not hang. In `intake` the gateway may always crash; `EveryoneAnswered` is what says
that nobody waits for ever.

### Fairness

`TenantTx!FairSpec`: weak fairness of what a request does next, checkout
included, while it is enabled. Justified by node's event loop, by the FIFO of
`pg-pool`, and by PostgreSQL's replies. Failures are not fair: no property
holds because something eventually breaks. An UPDATE waiting for a row lock is
enabled once the lock is free, and stays so unless another writer takes it.

`WorkflowExecution!FairSpec`: weak fairness of the handler, of the restart
(`restart: unless-stopped`) and of each job's queue timers; strong fairness of
`Pick(j)`, because the worker is busy with other jobs in between and the
queue is first in, first out.

`Erasure!FairSpec`: weak fairness of a transaction's next statement while
nothing is in its way. Requests, erasures and faults need not come.

`RedisIntake!FairSpec`: weak fairness of the restart of Redis (`restart: unless-stopped`),
of the worker, and of what becomes of each request that was sent. Broken
connections and crashes are not fair, nor is the clock: no request is answered
because time is up.

`WebUi!FairSpec`: weak fairness of each call, by its number: the gateway answers
it or the browser gives up on it, and its continuation runs. The user need not do
anything.

`Connections` and `CredentialVault` state no fairness: their transactions wait for
what `TenantTx` waits for, and liveness is shown there.

### Where the code and its documents disagree

1. `workflow_hashed`. Migration 010's trigger SELECTs from `audit_log` as the
   inserting role. 003 gives `app_user` INSERT on it only. Every transaction
   that writes an audit row is refused, so no workflow created before the
   migration is executed after it (docs/disaster-recovery.md:26, "Workflows
   execute successfully").
2. `audit_fork`. `occurred_at` is the time a transaction began, and the
   trigger sees committed rows only: overlapping transactions chain to the
   same row, or to a later one (README.md:259).
3. `audit_archive_online`. The script's UPDATE marks what is unmarked at its own
   time, not what its SELECT exported (README.md:271).
4. `tenant_vault`. The vault's handlers set up their transaction for the tenant
   that the body or the query names and never compare it with the token's
   (vault.routes.ts:63): row-level security holds them to that tenant, which need
   not be the caller's (README.md:9, "strict tenant isolation";
   docs/rls-runbook.md:15-16, "Only current tenant data visible.", "Cross-tenant
   access denied.").

Not runs, since they need no interleaving:

* The erasure function's third DELETE is from `credential_rotation_audit`, which no
  migration creates (008:28): on a migrated schema every call fails and is undone
  (docs/gdpr.md:16, "Tenant count = 0"). The vault's rotate endpoint writes to the
  same table (vault.routes.ts:257). `erasure` and `vault` add the table by hand.
* The only `execution_logs` row the worker ever writes says `success`, inside the
  transaction its catch block rolls back, so a job whose attempts are used up leaves
  no row, though `001_init.sql:40` provides for status `failed` and
  docs/data-flow.md:38 has the worker "Write execution result".
* docs/secret-rotation.md:4,8 promises to rotate the encryption key "without service
  disruption". A vault started with another key cannot read what is stored: nothing
  re-encrypts, and no row says which key made it. Nor does the procedure change the
  vault's key: `docker-compose.prod.yml:47` sets `ENCRYPTION_KEY_FILE`,
  vault.service.ts:3 reads `VAULT_ENCRYPTION_KEY`, and the OAuth key is a constant of
  oauth.service.ts:3.

## 4. What is proved

All proofs are for any values of the constants that meet the module's
`ConstantsAssumption`: distinguished values differ from the ordinary ones, every
pool has a connection, bounds are natural numbers. The bounds of the failures
are arbitrary, so nothing rests on failures being few.

**TenantTxProofs** (`TypeCorrect`, `Scoped`, `Clean`, `Isolated`, `Refinement`). None of the properties is inductive. That a
statement is scoped depends on what BEGIN and set_config left in the session,
that on the state in which the previous user of the connection gave it back,
and that on every way out of the bracket. `IInv` joins them: `RequestInv` (what
a request's phase says of its tenant, its answer and whether it has been
applied), `ConnInv` (what the phase of its holder says of a connection's
session and pending writes: fresh when connected, open without a tenant when
begun, open and scoped in the callback, whatever in the catch block, fresh and
without writes when idle), `OneHolder` (no request has two connections; without
it a step of one request would disturb another's), `WritesConfined` and
`ReadsOneTenant`. There is one lemma per action, one step per conjunct in it,
and `NextIInv` puts them together. `Refinement` uses `IInv` to show that a
commit is an `Apply`, each way of failing is a `Fail`, a crash is the `Fail` of
all requests of the process, and everything else a stutter. `Isolated` says of every
transaction that it reads and writes rows of the tenant it was set up for, and of
those outside `BodyTenant` that this is their caller's; of the vault's callers it says
nothing, and `tenant_vault` shows why it cannot.

**WorkflowExecutionProofs** (`TypeCorrect`, `RunsBounded`, `Duplicates`,
`RecordedWhenCompleted`, `TenancyOfExecutions`, `FinalStays`). The invariant is
an accounting: every start of the handler is a counted attempt, a counted stall
or the live one (`RunsAccounted`), and every committed row, together with the
one the worker may still be about to commit, is covered by a stall, a lost
reply or a live activation (`RowsAccounted`). A lock implies an active job
(`LockedIsActive`), which is why a refused report cannot touch a finished job.

**AuditChainProofs** (`TypeCorrect`, `Repairs`, `Links`, `SerialChain`,
`ArchiveKeepsRows`), with both scripts run at any time beside any number of writers.
All but the first and the last rest on what the backfill makes of the log. Its order is
`Sorted`, a choice whose existence and uniqueness need an induction; the
induction rules of the library cannot be instantiated here, so it is done by hand,
as descent to the least bound below which some set of times has no enumeration,
or two (`EnumerationExists`, `EnumerationUnique`; the least element comes from the
well-foundedness of `<`, the surjectivity of an enumeration from the pigeonhole
principle). From that, sorting a set with a time later than all in it appends
that time (`SortedAppends`), which is the loop of the backfill: the newest
rehashed row before `r` has the hash `r` is chained to (`RehashedChain`). Hence
`Repairs`: after a backfill a row verifies unless there is a row of its tenant, not
later than itself, that was written beside the backfill; for up to there the rows are
those its cursor read. For any number of writers each hash link leads to a committed
row of the same tenant, unless its row is in `beside` (`Links`): a pending row's
predecessor is committed, and when a backfill replaces its hash the row is put there.
For a tenant with one writer the chain verifies (`SerialChain`), because its
transaction's time is later than every committed row's, and what a backfill has
read of it comes before what it has not (`ReadFirst`).
`ArchiveKeepsRows` follows an archive run from its export, `due`, to its mark
(`ArchiveInv`).

**ErasureProofs** (`TypeCorrect`, `NoneOrphaned`, `Atomicity`, `DeadlockFree`), for any
requests, tenants, initial rows, migrations and number of erasures, and for all
nine handlers (`HandlerType`). `NoOrphans` is not inductive: a request may have
uncommitted rows, and the function may be past the tenant's row. `IInv` adds the
handshake between them: while a request has inserted a row its tenant is there
and not in the last step of an erasure (`RequestInv`), and the function deletes
its target's rows only (`EraserInv`). `InsertStep` keeps it because an INSERT
waits for the function, `EraseTenantStep` because the function waits for the
INSERT. `Atomicity` follows from `IInv` and from the check of leftover rows. `DeadlockFree`
is by the order of the handlers' statements (`LockInv`): a request that holds a row
has only inserts left, so it can wait for nothing but the function's last step, the
check of the foreign keys, and the requests that check waits for wait for nobody.

**ConnectionsProofs** (`TypeCorrect`, `Unbroken`, `SpentExplained`, `FreshTokensUsed`), for
any requests, tokens brought, tenants, connections, migrations and number of faults. All but the first
assume `PoolOfOne`, `max: 1` in `db.ts`: with a larger pool they are false, and the
mutant `StartUnbounded` shows it. From a pool of one follows that at most one
transaction is under way (`Alone`; `StartKeeps` is the one lemma that needs the
assumption), and from that what the handler relies on without a lock: what a refresh
has read is still what is stored (`Trading`), and the pair it was given is newer than
every token stored or spent (`Newer`), so that its commit can neither bring back a
spent token nor store one token twice (`Distinct`, `NewerUnspent`). A connect can do
both, with a token its caller brings; those are the tokens in `shared`. `StoreInv` ties the store to what
callers were told, which gives `FreshTokens`; `OneConnect` says that an id is given
to one connect only, so that a stored row is only ever replaced by a refresh.

**CredentialVaultProofs** (`TypeCorrect`, `FreshSecretsGiven`, `StaysDeleted`), for
any requests, credentials, keys, failures and restarts. At most
one transaction has written a credential's row (`OneWriter`, the row lock, which
`Rotate` and `Delete` wait for), so a rotation and a deletion exclude each other
and what a transaction is about to store is based on what is stored; an id is
given to one store only (`NewOnes`). `CredInv` ties the row to the secrets the
credential has had and to what callers were told. `ConstantsAssumption` says here
that `None` is no request, ciphertext or row.

**RedisIntakeProofs** (`TypeCorrect`, `Replay`, `WorkIsExplained`,
`JobsOutliveCrashes`), for any requests, ids, time to live, breaks and crashes. The
heart is what the file has of memory (`DiskInv`): a key there is the one in memory
or has expired, a job there is in memory or its completion is. So a crash forgets a
key only if it adds it to `forgotten`, and opens a job again only if it adds it to
`reruns` (`Reopened`, by the cardinalities of finite sets). The rest is accounting:
a key is owed to the delivery that stored it, or to one that was sent again
(`KeyInv`), which is what a refused duplicate repeats; accepted deliveries of one id
are a window apart because each stored its key when the one before it had expired
(`DeliveryInv`, `Apart`); runs and waiting jobs together never exceed the jobs added
and the completions lost, and a job in memory a tick after it was executed is on disk
too (`CallInv`).

**WebUiProofs** (`TypeCorrect`, `ViewsAgree`, `DoneIsCurrent`, `BuilderAgrees`),
for any tenants, nodes and number of clicks, with the mounting effects run once or
twice. A call that the mounted view hears was sent by it, for the tenant whose data
it is to show (`Heard`, `SessionInv`): an unmounted view's calls are nobody's, and
the form the vault's calls depend on cannot be edited while a view is there. That this
tenant is the one signed in needs an invariant of the sign-ins under way, which are
for the form's tenant unless the page is `adrift` (`FormInv`); for a page that is,
`ViewsAgree` does not say it, and it is not so. A call
that is `alone` is the only one about its data, so what it brings is still what the
server has when it arrives (`NetInv`), and a message that all is done is only ever
set together with such data (`QuietInv`). `SendsNet`, `WithoutNet` and `HandleNet` are
the three ways in which the calls under way change.

Every invariant named here was checked by TLC on an instance before it was proved.

Only model-checked: liveness (`EveryRequestAnswered`, `EveryJobFinishes`,
`WorkflowsExecute`, `EveryoneFinishes`, `ErasureCompletes`, `EveryoneAnswered`,
`BusyEnds`), which is out of the prover's reach. Type invariants that are proved
for all constants are not checked once more by the runs.

## 5. What is not modelled, and the plan

Out of scope: `services/credential-vault/src/main.ts` (an unused copy of the
gateway whose imports do not resolve), the empty services and scripts, metrics
(monotone counters nothing reads). HTTP, JSON and cryptography are abstracted to
their verdicts. Left out of a modelled component:

* Deployment files, apart from what they say of restarts and of Redis'
  persistence. That the gateway's pools and the webhook router connect to
  127.0.0.1, where their container has nothing, and that the compose file gives a
  key file the vault does not read, are static facts and need no model.
* Retention terms and pruning: `workflow.worker.ts:74` fixes 30 days whatever
  `tenant_settings` says, no code reads the setting but the endpoints that show
  and change it, and pruning is one DELETE run by hand.
* The 15 minutes a login token lives.
* What is typed into the forms of the UI's views, and that a draft in the builder
  survives a sign-out, or an edit the deletion of its node: no document says what
  should happen. Two loads of one list that overlap may show the older answer
  (`CredentialsView.tsx:32`); `QuietIsCurrent` is about loads that do not overlap.
* The archived copies of rows whose hashes a later backfill rewrites: `AuditChain`
  keeps the keys of archived rows only.
* PostgreSQL's deadlock detection between two DELETEs of several rows each.

Every safety invariant and action property that a passing run checks is now stated
by a theorem. What remains is to weaken the hypotheses of a theorem where the code
allows it, and theorems about invariants no run has yet.
