------------------------------ MODULE TenantTx ------------------------------
(***************************************************************************)
(* The tenant-scoped transaction every database access of the system goes  *)
(* through: withTenant of services/api-gateway/src/db.ts, and the same     *)
(* bracket written out by hand in the credential vault's handlers and in   *)
(* the workflow worker.                                                    *)
(*                                                                         *)
(*   connect; BEGIN; set_config('app.current_tenant_id', t, local);        *)
(*   the handler's statements; COMMIT   -- or, on any exception, ROLLBACK  *)
(*   finally release                                                       *)
(*                                                                         *)
(* Each await is a step, so requests interleave at all of them.  The rows  *)
(* of all RLS-protected tables are one table from key to row: a row is its *)
(* tenant and the request that wrote it.  PostgreSQL and the pg pool are   *)
(* external: READ COMMITTED reads, row locks held to the end of the        *)
(* transaction, the row-level-security policies, a FIFO of waiting         *)
(* clients, and connections that outlive the request that used them, so    *)
(* that whatever a request leaves in its session the next one inherits.    *)
(***************************************************************************)
EXTENDS Naturals, Sequences, FiniteSets

CONSTANTS
  Requests,    \* HTTP requests past the router, and job runs of the worker
  Tenants,
  Rows,        \* primary keys
  Processes,   \* the node processes: the gateway, the worker
  Pools,       \* the pg pools: gateway, vault, worker
  Conns,       \* connection slots; a pool has as many as its "max"
  ProcOf,      \* [Pools -> Processes]: gateway and vault share a process
  PoolOf,      \* [Requests -> Pools]: the pool that serves the request
  ConnPool,    \* [Conns -> Pools]
  BodyTenant,  \* the pools, the vault's, of handlers that take the tenant from
               \* the request's body or query instead of the token
  NoTenant, NoRequest, NoRow, Absent, Untouched,   \* distinguished values
  MaxLosses,   \* bound: connections lost in the middle of a request
  MaxCrashes   \* bound: process crashes

ASSUME ConstantsAssumption ==
  /\ ProcOf \in [Pools -> Processes]
  /\ PoolOf \in [Requests -> Pools]
  /\ ConnPool \in [Conns -> Pools]
  /\ BodyTenant \subseteq Pools
  /\ \A r \in Requests : \E c \in Conns : ConnPool[c] = PoolOf[r]
  /\ NoTenant \notin Tenants
  /\ NoRequest \notin Requests
  /\ NoRow \notin Rows
  /\ Absent \notin [tenant : Tenants, by : Requests \cup {NoTenant}]
  /\ Untouched \notin {Absent} \cup [tenant : Tenants, by : Requests \cup {NoTenant}]
  /\ MaxLosses \in Nat /\ MaxCrashes \in Nat

VARIABLES
  phase,      \* where each request is in the bracket
  caller,     \* the tenant of the request's token, or of the job's data
  tenantOf,   \* the tenant the handler passes to set_config
  target,     \* the row an UPDATE or DELETE in flight is waiting to lock
  queue,      \* pg-pool's pending queue, per pool
  holder,     \* the request a connection is checked out to
  session,    \* the server side of each connection
  pend,       \* uncommitted writes of each connection
  table,      \* committed rows
  seen,       \* the tenants whose rows a request has read
  applied,    \* requests whose transaction committed
  answer,     \* how the request ended
  losses, crashes

vars == <<phase, caller, tenantOf, target, queue, holder, session, pend, table,
          seen, applied, answer, losses, crashes>>

Row == [tenant : Tenants, by : Requests \cup {NoTenant}]

(* A statement of the handler may be running exactly in these phases. *)
InCallback == {"scoped", "changing", "changed", "inserted"}

InBracket == {"connected", "begun", "rollback"} \cup InCallback

Phases == {"idle", "waiting", "done"} \cup InBracket

Session == [up : BOOLEAN, tx : {"none", "open", "aborted"},
            tenant : Tenants \cup {NoTenant}]

(* A new connection; also what one in good order looks like between uses. *)
Fresh == [up |-> TRUE, tx |-> "none", tenant |-> NoTenant]

(* The server has dropped it; the client has yet to find out. *)
Broken == [up |-> FALSE, tx |-> "none", tenant |-> NoTenant]

NoWrites == [x \in Rows |-> Untouched]

-----------------------------------------------------------------------------
(***************************************************************************)
(* What the server does with a statement on connection c.                  *)
(***************************************************************************)

(* A statement sees the committed rows under its own writes. *)
RowAt(c, x) == IF pend[c][x] = Untouched THEN table[x] ELSE pend[c][x]

VisibleWithoutPolicy(c) ==   \* mutant: a table that was given no policy
  {x \in Rows : RowAt(c, x) # Absent}

(* USING (tenant_id = current_setting('app.current_tenant_id', true)::uuid) *)
Visible(c) ==
  {x \in Rows : /\ RowAt(c, x) # Absent
                /\ session[c].tenant # NoTenant
                /\ RowAt(c, x).tenant = session[c].tenant}

(* WITH CHECK, the same condition on a new row of tenant t. *)
WithCheck(c, t) == session[c].tenant # NoTenant /\ t = session[c].tenant

(* The row lock of x is free for c. *)
Unlocked(c, x) == \A d \in Conns \ {c} : pend[d][x] = Untouched

(* set_config(.., is_local = true) ends with the transaction. *)
EndTx(c) == [up |-> session[c].up, tx |-> "none", tenant |-> NoTenant]

(* The rows after c's writes are committed; an aborted one commits nothing. *)
Committed(c) ==
  IF session[c].tx = "open" THEN [x \in Rows |-> RowAt(c, x)] ELSE table

-----------------------------------------------------------------------------
Init ==
  /\ phase = [r \in Requests |-> "idle"]
  /\ caller = [r \in Requests |-> NoTenant]
  /\ tenantOf = [r \in Requests |-> NoTenant]
  /\ target = [r \in Requests |-> NoRow]
  /\ queue = [p \in Pools |-> <<>>]
  /\ holder = [c \in Conns |-> NoRequest]
  /\ session = [c \in Conns |-> Fresh]
  /\ pend = [c \in Conns |-> NoWrites]
  /\ table \in [Rows -> {Absent} \cup [tenant : Tenants, by : {NoTenant}]]
  /\ seen = [r \in Requests |-> {}]
  /\ applied = {}
  /\ answer = [r \in Requests |-> "none"]
  /\ losses = 0
  /\ crashes = 0

(* The middleware put the token's tenant on the request, or the worker took *)
(* a job; the handler found its required fields and called pool.connect().  *)
(* The gateway's handlers and the worker act for the caller's tenant.  The  *)
(* vault's act for the tenant_id of the body or the query, whatever the     *)
(* token says: nothing compares it with req.tenantId.                       *)
Arrive(r, t, named) ==
  /\ phase[r] = "idle"
  /\ PoolOf[r] \notin BodyTenant => named = t
  /\ phase' = [phase EXCEPT ![r] = "waiting"]
  /\ caller' = [caller EXCEPT ![r] = t]
  /\ tenantOf' = [tenantOf EXCEPT ![r] = named]
  /\ queue' = [queue EXCEPT ![PoolOf[r]] = Append(@, r)]
  /\ UNCHANGED <<target, holder, session, pend, table, seen, applied, answer,
                 losses, crashes>>

(* 401 from the middleware or 400 from the handler: no connection is asked for. *)
Reject(r) ==
  /\ phase[r] = "idle"
  /\ phase' = [phase EXCEPT ![r] = "done"]
  /\ answer' = [answer EXCEPT ![r] = "error"]
  /\ UNCHANGED <<caller, tenantOf, target, queue, holder, session, pend, table, seen,
                 applied, losses, crashes>>

NextInLine(r, c) ==
  /\ phase[r] = "waiting"
  /\ queue[PoolOf[r]] # <<>> /\ Head(queue[PoolOf[r]]) = r
  /\ ConnPool[c] = PoolOf[r] /\ holder[c] = NoRequest
  /\ queue' = [queue EXCEPT ![PoolOf[r]] = Tail(@)]

Checkout(r, c) ==
  /\ NextInLine(r, c)
  /\ holder' = [holder EXCEPT ![c] = r]
  /\ phase' = [phase EXCEPT ![r] = "connected"]
  /\ UNCHANGED <<caller, tenantOf, target, session, pend, table, seen, applied, answer,
                 losses, crashes>>

(* The connection for the free slot cannot be opened: connect() rejects     *)
(* before the try block, nothing is held.                                   *)
ConnectFails(r, c) ==
  /\ NextInLine(r, c)
  /\ losses < MaxLosses
  /\ losses' = losses + 1
  /\ phase' = [phase EXCEPT ![r] = "done"]
  /\ answer' = [answer EXCEPT ![r] = "error"]
  /\ UNCHANGED <<caller, tenantOf, target, holder, session, pend, table, seen, applied,
                 crashes>>

BeginSkipped(r, c) ==   \* mutant: no BEGIN
  /\ holder[c] = r /\ phase[r] = "connected"
  /\ phase' = [phase EXCEPT ![r] = "begun"]
  /\ UNCHANGED <<caller, tenantOf, target, queue, holder, session, pend, table, seen,
                 applied, answer, losses, crashes>>

(* BEGIN in an open transaction only warns. *)
Begin(r, c) ==
  /\ holder[c] = r /\ phase[r] = "connected"
  /\ session' = [session EXCEPT ![c] =
                   IF @.tx = "none" THEN [up |-> @.up, tx |-> "open", tenant |-> @.tenant]
                   ELSE @]
  /\ phase' = [phase EXCEPT ![r] = "begun"]
  /\ UNCHANGED <<caller, tenantOf, target, queue, holder, pend, table, seen, applied,
                 answer, losses, crashes>>

(* A local setting made outside a transaction is gone after the statement. *)
SetTenant(r, c) ==
  /\ holder[c] = r /\ phase[r] = "begun"
  /\ session' = [session EXCEPT ![c] =
                   IF @.tx = "open" THEN [up |-> @.up, tx |-> @.tx, tenant |-> tenantOf[r]]
                   ELSE @]
  /\ phase' = [phase EXCEPT ![r] = "scoped"]
  /\ UNCHANGED <<caller, tenantOf, target, queue, holder, pend, table, seen, applied,
                 answer, losses, crashes>>

Idling(r) == phase[r] \in InCallback \ {"changing"}   \* no statement in flight

(* SELECT .. FROM a tenant table, without a tenant condition of its own. *)
Select(r, c) ==
  /\ holder[c] = r /\ Idling(r)
  /\ seen' = [seen EXCEPT ![r] = @ \cup {RowAt(c, x).tenant : x \in Visible(c)}]
  /\ UNCHANGED <<caller, phase, tenantOf, target, queue, holder, session, pend, table,
                 applied, answer, losses, crashes>>

(* The one UPDATE or DELETE .. WHERE id = $1 of a handler is sent.  The key *)
(* comes from the caller, so it may be any row's.                           *)
SendChange(r, c, x) ==
  /\ holder[c] = r /\ phase[r] = "scoped"
  /\ phase' = [phase EXCEPT ![r] = "changing"]
  /\ target' = [target EXCEPT ![r] = x]
  /\ UNCHANGED <<caller, tenantOf, queue, holder, session, pend, table, seen, applied,
                 answer, losses, crashes>>

(* It runs once no other transaction holds the row, on the row as it is by  *)
(* then; a row the policy hides is not found, and nothing is locked.        *)
DoChange(r, c, new) ==
  LET x == target[r] IN
  /\ holder[c] = r /\ phase[r] = "changing"
  /\ new \in {Absent, [tenant |-> tenantOf[r], by |-> r]}
  /\ \/ /\ x \in Visible(c) /\ Unlocked(c, x)
        /\ pend' = [pend EXCEPT ![c][x] = new]
     \/ x \notin Visible(c) /\ UNCHANGED pend
  /\ phase' = [phase EXCEPT ![r] = "changed"]
  /\ target' = [target EXCEPT ![r] = NoRow]
  /\ UNCHANGED <<caller, tenantOf, queue, holder, session, table, seen, applied, answer,
                 losses, crashes>>

(* INSERT .. (tenant_id, ..) VALUES ($1, ..) under a fresh uuid.  The      *)
(* handlers pass the tenant they set; the policy would refuse another.     *)
Insert(r, c, x) ==
  /\ holder[c] = r /\ Idling(r)
  /\ WithCheck(c, tenantOf[r])
  /\ table[x] = Absent /\ \A d \in Conns : pend[d][x] = Untouched
  /\ pend' = [pend EXCEPT ![c][x] = [tenant |-> tenantOf[r], by |-> r]]
  /\ phase' = [phase EXCEPT ![r] = "inserted"]
  /\ UNCHANGED <<caller, tenantOf, target, queue, holder, session, table, seen, applied,
                 answer, losses, crashes>>

(* The server refuses a statement (a constraint, a missing privilege): the *)
(* transaction is aborted and the rejection propagates to the catch block. *)
StatementFails(r, c) ==
  /\ holder[c] = r /\ phase[r] \in InCallback
  /\ session' = [session EXCEPT ![c] =
                   [up |-> @.up, tx |-> "aborted", tenant |-> @.tenant]]
  /\ phase' = [phase EXCEPT ![r] = "rollback"]
  /\ target' = [target EXCEPT ![r] = NoRow]
  /\ UNCHANGED <<caller, tenantOf, queue, holder, pend, table, seen, applied, answer,
                 losses, crashes>>

(* The handler throws on what it read: not found, no refresh token, a      *)
(* payload that does not decrypt.                                          *)
HandlerThrows(r, c) ==
  /\ holder[c] = r /\ Idling(r)
  /\ phase' = [phase EXCEPT ![r] = "rollback"]
  /\ UNCHANGED <<caller, tenantOf, target, queue, holder, session, pend, table, seen,
                 applied, answer, losses, crashes>>

(* Release and answer follow the last reply without another await. *)
Release(r, c, what) ==
  /\ holder' = [holder EXCEPT ![c] = NoRequest]
  /\ phase' = [phase EXCEPT ![r] = "done"]
  /\ answer' = [answer EXCEPT ![r] = what]

(* COMMIT of an aborted transaction is a ROLLBACK that reports no error.   *)
Commit(r, c) ==
  /\ holder[c] = r /\ Idling(r)
  /\ table' = Committed(c)
  /\ pend' = [pend EXCEPT ![c] = NoWrites]
  /\ session' = [session EXCEPT ![c] = EndTx(c)]
  /\ applied' = applied \cup (IF session[c].tx = "open" THEN {r} ELSE {})
  /\ Release(r, c, "ok")
  /\ UNCHANGED <<caller, tenantOf, target, queue, seen, losses, crashes>>

(* The transaction commits, the connection breaks before the reply: the    *)
(* rejected COMMIT leads to the catch block like any other failure.        *)
CommitReplyLost(r, c) ==
  /\ holder[c] = r /\ Idling(r)
  /\ losses < MaxLosses
  /\ losses' = losses + 1
  /\ table' = Committed(c)
  /\ pend' = [pend EXCEPT ![c] = NoWrites]
  /\ session' = [session EXCEPT ![c] = Broken]
  /\ applied' = applied \cup {r}
  /\ phase' = [phase EXCEPT ![r] = "rollback"]
  /\ UNCHANGED <<caller, tenantOf, target, queue, holder, seen, answer, crashes>>

(* The connection breaks in the middle of the bracket: the server drops    *)
(* the transaction, the statement in flight is rejected.                   *)
ConnectionLost(r, c) ==
  /\ holder[c] = r /\ session[c].up
  /\ losses < MaxLosses
  /\ losses' = losses + 1
  /\ pend' = [pend EXCEPT ![c] = NoWrites]
  /\ session' = [session EXCEPT ![c] = Broken]
  /\ phase' = [phase EXCEPT ![r] = "rollback"]
  /\ target' = [target EXCEPT ![r] = NoRow]
  /\ UNCHANGED <<caller, tenantOf, queue, holder, table, seen, applied, answer, crashes>>

RollbackOmitted(r, c) ==   \* mutant: the catch block only rethrows
  /\ holder[c] = r /\ phase[r] = "rollback" /\ session[c].up
  /\ Release(r, c, "error")
  /\ UNCHANGED <<caller, tenantOf, target, queue, session, pend, table, seen, applied,
                 losses, crashes>>

RollbackCommits(r, c) ==   \* mutant: COMMIT in a finally block, on every path
  /\ holder[c] = r /\ phase[r] = "rollback" /\ session[c].up
  /\ table' = Committed(c)
  /\ pend' = [pend EXCEPT ![c] = NoWrites]
  /\ session' = [session EXCEPT ![c] = EndTx(c)]
  /\ Release(r, c, "error")
  /\ UNCHANGED <<caller, tenantOf, target, queue, seen, applied, losses, crashes>>

(* catch: ROLLBACK, rethrow; finally: release. *)
Rollback(r, c) ==
  /\ holder[c] = r /\ phase[r] = "rollback" /\ session[c].up
  /\ pend' = [pend EXCEPT ![c] = NoWrites]
  /\ session' = [session EXCEPT ![c] = EndTx(c)]
  /\ Release(r, c, "error")
  /\ UNCHANGED <<caller, tenantOf, target, queue, table, seen, applied, losses, crashes>>

RollbackRejectedKeepsClient(r, c) ==   \* mutant: release() after the ROLLBACK, no finally
  /\ holder[c] = r /\ phase[r] = "rollback" /\ ~session[c].up
  /\ phase' = [phase EXCEPT ![r] = "done"]
  /\ answer' = [answer EXCEPT ![r] = "error"]
  /\ UNCHANGED <<caller, tenantOf, target, queue, holder, session, pend, table, seen,
                 applied, losses, crashes>>

(* On a broken connection ROLLBACK is rejected too and replaces the error; *)
(* release still runs, and the pool replaces the dead client.              *)
RollbackRejected(r, c) ==
  /\ holder[c] = r /\ phase[r] = "rollback" /\ ~session[c].up
  /\ session' = [session EXCEPT ![c] = Fresh]
  /\ Release(r, c, "error")
  /\ UNCHANGED <<caller, tenantOf, target, queue, pend, table, seen, applied, losses,
                 crashes>>

(* A node process dies (no pool or client has an 'error' listener, so a     *)
(* connection error may end it), and with it the requests of all its pools. *)
RequestsOf(p) ==
  {r \in Requests : ProcOf[PoolOf[r]] = p /\ phase[r] \in InBracket \cup {"waiting"}}

ConnsOf(p) == {c \in Conns : ProcOf[ConnPool[c]] = p}

Crash(p) ==
  LET dead == RequestsOf(p) IN
  /\ dead # {} /\ crashes < MaxCrashes
  /\ crashes' = crashes + 1
  /\ phase' = [r \in Requests |-> IF r \in dead THEN "done" ELSE phase[r]]
  /\ answer' = [r \in Requests |-> IF r \in dead THEN "lost" ELSE answer[r]]
  /\ target' = [r \in Requests |-> IF r \in dead THEN NoRow ELSE target[r]]
  /\ queue' = [q \in Pools |-> IF ProcOf[q] = p THEN <<>> ELSE queue[q]]
  /\ holder' = [c \in Conns |-> IF c \in ConnsOf(p) THEN NoRequest ELSE holder[c]]
  /\ session' = [c \in Conns |-> IF c \in ConnsOf(p) THEN Fresh ELSE session[c]]
  /\ pend' = [c \in Conns |-> IF c \in ConnsOf(p) THEN NoWrites ELSE pend[c]]
  /\ UNCHANGED <<caller, tenantOf, table, seen, applied, losses>>

Finished ==   \* every request has been answered; nothing is left to do
  /\ \A r \in Requests : phase[r] = "done"
  /\ UNCHANGED vars

-----------------------------------------------------------------------------
(* What request r does on its connection c when nothing goes wrong, and    *)
(* its way out when something did.                                         *)
Progress(r, c) ==
  \/ Begin(r, c)
  \/ SetTenant(r, c)
  \/ Select(r, c)
  \/ \E x \in Rows : SendChange(r, c, x) \/ Insert(r, c, x)
  \/ \E new \in {Absent, [tenant |-> tenantOf[r], by |-> r]} : DoChange(r, c, new)
  \/ Commit(r, c)
  \/ Rollback(r, c)
  \/ RollbackRejected(r, c)

Failure(r, c) ==
  \/ ConnectFails(r, c)
  \/ StatementFails(r, c)
  \/ HandlerThrows(r, c)
  \/ CommitReplyLost(r, c)
  \/ ConnectionLost(r, c)

Next ==
  \/ \E r \in Requests : Reject(r) \/ \E t, named \in Tenants : Arrive(r, t, named)
  \/ \E r \in Requests, c \in Conns : Checkout(r, c) \/ Progress(r, c) \/ Failure(r, c)
  \/ \E p \in Processes : Crash(p)
  \/ Finished

Spec == Init /\ [][Next]_vars

(***************************************************************************)
(* Fairness.  The pool hands a free client to the head of its queue, the   *)
(* server answers what it is sent once the row locks it needs are free,    *)
(* and node runs the continuation.  Nothing is assumed about arrivals,     *)
(* failures or crashes: no request is ever saved by a failure.             *)
(***************************************************************************)
FairSpec ==
  /\ Spec
  /\ \A r \in Requests : WF_vars(\E c \in Conns : Checkout(r, c) \/ Progress(r, c))

-----------------------------------------------------------------------------
(* Every variable has its type.                                            *)
TypeOK ==
  /\ phase \in [Requests -> Phases]
  /\ caller \in [Requests -> Tenants \cup {NoTenant}]
  /\ tenantOf \in [Requests -> Tenants \cup {NoTenant}]
  /\ target \in [Requests -> Rows \cup {NoRow}]
  /\ queue \in [Pools -> Seq(Requests)]
  /\ holder \in [Conns -> Requests \cup {NoRequest}]
  /\ session \in [Conns -> Session]
  /\ pend \in [Conns -> [Rows -> Row \cup {Absent, Untouched}]]
  /\ table \in [Rows -> Row \cup {Absent}]
  /\ seen \in [Requests -> SUBSET Tenants]
  /\ applied \in SUBSET Requests
  /\ answer \in [Requests -> {"none", "ok", "error", "lost"}]
  /\ losses \in Nat /\ crashes \in Nat

(* While the callback runs, its connection is alive, inside a transaction  *)
(* and scoped to the tenant of the request that runs it: not to that of an *)
(* earlier user of the connection, and not to none.                        *)
ScopedStatements ==
  \A c \in Conns :
    (holder[c] # NoRequest /\ phase[holder[c]] \in InCallback) =>
      session[c] = [up |-> TRUE, tx |-> "open", tenant |-> tenantOf[holder[c]]]

(* However a request ended, the connection it gives back to the pool is as *)
(* good as new: no open or aborted transaction, no tenant, no uncommitted  *)
(* write, no row lock.                                                     *)
CleanIdle ==
  \A c \in Conns :
    holder[c] = NoRequest => session[c] = Fresh /\ pend[c] = NoWrites

(* The handlers' SELECTs name no tenant; yet no request ever reads a row   *)
(* of a tenant other than the one its transaction was set up for.          *)
ReadsOneTenant == \A r \in Requests : seen[r] \subseteq {tenantOf[r]}

(* Uncommitted writes belong to the request that holds the connection, are *)
(* on rows of its tenant or on none, and two transactions never have       *)
(* writes on the same row.                                                 *)
WritesConfined ==
  \A c \in Conns, x \in Rows :
    pend[c][x] # Untouched =>
      LET r == holder[c] IN
      /\ r # NoRequest
      /\ pend[c][x] \in {Absent, [tenant |-> tenantOf[r], by |-> r]}
      /\ table[x] = Absent \/ table[x].tenant = tenantOf[r]
      /\ \A d \in Conns \ {c} : pend[d][x] = Untouched

(* What r has read, and what it is about to write, are rows of its caller. *)
OwnRowsOnly(r) ==
  /\ seen[r] \subseteq {caller[r]}
  /\ \A c \in Conns, x \in Rows :
       (holder[c] = r /\ pend[c][x] # Untouched) =>
         /\ table[x] = Absent \/ table[x].tenant = caller[r]
         /\ pend[c][x] = Absent \/ pend[c][x].tenant = caller[r]

(* A transaction reads and writes rows of one tenant only, the one it was  *)
(* set up for, whatever shares its connection or contends for its rows;    *)
(* for the gateway's handlers and the worker, which take no tenant from    *)
(* the body, that is the caller's.                                         *)
TenantIsolation ==
  /\ ReadsOneTenant
  /\ WritesConfined
  /\ \A r \in Requests : PoolOf[r] \notin BodyTenant => OwnRowsOnly(r)

(* The README's claim: no request at all, the vault's included, reads or   *)
(* changes rows of a tenant other than its caller's.  The code breaks it.  *)
CallerIsolation == \A r \in Requests : OwnRowsOnly(r)

(* The client's view of the bracket: what connections, sessions and        *)
(* uncommitted writes there are is hidden.                                 *)
Store ==
  INSTANCE TenantStore WITH
    Requests <- Requests, Tenants <- Tenants, Rows <- Rows,
    NoTenant <- NoTenant, Absent <- Absent,
    table <- table, tenantOf <- tenantOf, applied <- applied, answer <- answer

(* The bracket implements the abstract store: each request takes effect at *)
(* most once, atomically, on rows of the one tenant it was accepted for    *)
(* only, and is answered "ok" only in the step in which it takes effect.   *)
ImplementsStore == Store!Spec

(* A request that waits for a connection is eventually answered or lost in *)
(* a crash: no path of the bracket keeps a connection, and with it the     *)
(* whole pool of one, forever.                                             *)
EveryRequestAnswered ==
  \A r \in Requests : phase[r] = "waiting" ~> phase[r] = "done"
=============================================================================
