---------------------------- MODULE Connections ----------------------------
(***************************************************************************)
(* OAuth connections: POST /oauth/:provider/connect stores the tokens a    *)
(* caller brings, POST /oauth/:id/refresh trades the refresh token in for  *)
(* a new pair, and the connectors read the access token.  Each does its    *)
(* work in withTenant, on the gateway's pool; the bracket itself is        *)
(* TenantTx's, and here a transaction begins in one step and ends in one.  *)
(*                                                                         *)
(* Tokens are numbered in pairs as the provider issues them.  A caller may *)
(* bring any, an old one or one that is stored already too: nothing in the *)
(* route or in the table compares them.  The provider is external: the     *)
(* gateway simulates it with tokens named after the millisecond, and never *)
(* looks at what a provider would have done with the refresh token it was  *)
(* given.  Here that token is spent, and the new ones are new.             *)
(*                                                                         *)
(* Encryption is left out: the key is a constant of the program, and what  *)
(* is encrypted is decrypted to the same, with the iv in the same row.     *)
(***************************************************************************)
EXTENDS Naturals, FiniteSets, Schema

CONSTANTS
  Requests, Tenants, Providers,
  Conns,          \* ids, those that uuid_generate_v4 may give
  None,
  PoolSize,       \* max of the gateway's pool: 1
  SchemaLevel, ExtraGrants,   \* see Schema
  MaxFaults       \* bound: statements that fail, replies that are lost, crashes

Row == [tenant : Tenants, provider : Providers, access : Nat, refresh : Nat]
Kinds == {"connect", "list", "refresh", "connector"}
Request == [kind : Kinds, tenant : Tenants, provider : Providers, conn : Conns]

ASSUME ConstantsAssumption ==
  /\ None \notin Row \cup Request /\ PoolSize \in Nat \ {0} /\ MaxFaults \in Nat
  /\ SchemaLevel \in Levels

VARIABLES
  conns,       \* committed rows of oauth_connections, or None
  req,         \* what each request asks for
  pc,          \* its place in its handler
  got,         \* the token it read, and the one the provider gave for it
  row,         \* the row it has written and not committed, or None
  status,      \* of its answer; 0 for none
  faults,
  issued,      \* the last pair of tokens there is
  traded,      \* history: refresh tokens and what the provider gave for them
  used,        \* history: the access token a connector read
  told,        \* history: the latest token of each connection a 2xx was about
  floor,       \* history: told, when the request arrived
  unlucky,     \* history: connections with a refresh that did not commit
  shared       \* history: refresh tokens brought though stored or spent before

handler == <<req, pc, got, row, status>>
history == <<traded, used, told, floor, unlucky, shared>>
vars == <<conns, handler, faults, issued, history>>

NoTokens == [old |-> 0, new |-> 0]

InTx == {"begun", "renewed", "written", "done"}
Running == {r \in Requests : pc[r] \in InTx}

Init ==
  /\ conns = [c \in Conns |-> None]
  /\ req = [r \in Requests |-> None] /\ pc = [r \in Requests |-> "new"]
  /\ got = [r \in Requests |-> NoTokens] /\ row = [r \in Requests |-> None]
  /\ status = [r \in Requests |-> 0] /\ faults = 0 /\ issued = 0
  /\ traded = {} /\ used = [r \in Requests |-> 0] /\ unlucky = {} /\ shared = {}
  /\ told = [c \in Conns |-> 0] /\ floor = [r \in Requests |-> 0]

-----------------------------------------------------------------------------
(***************************************************************************)
(* Into the handler and its transaction.                                   *)
(***************************************************************************)
Goes(r, place) == pc' = [pc EXCEPT ![r] = place]

(* A new connection gets an id of its own. *)
Fresh(c) ==
  conns[c] = None /\ \A r \in Requests : req[r] # None => req[r].kind # "connect" \/ req[r].conn # c

Arrive(r, q) ==
  /\ pc[r] = "new" /\ (q.kind = "connect" => Fresh(q.conn))
  /\ req' = [req EXCEPT ![r] = q] /\ floor' = [floor EXCEPT ![r] = told[q.conn]]
  /\ Goes(r, "queued")
  /\ UNCHANGED <<conns, got, row, status, faults, issued, traded, used, told, unlucky, shared>>

(* The body lacks a field, or the method of the HTTP connector is not one  *)
(* of four: 400.  The HTTP connector has no transaction: what it fetches   *)
(* is passed on, or 500.                                                   *)
AnswerAtOnce(r) ==
  /\ pc[r] = "new" /\ Goes(r, "answered")
  /\ \E code \in {200, 400, 500} : status' = [status EXCEPT ![r] = code]
  /\ UNCHANGED <<conns, req, got, row, faults, issued, history>>

Moves(r, place) ==
  /\ Goes(r, place)
  /\ UNCHANGED <<conns, req, status, faults, told, floor, shared>>

StartUnbounded(r) ==   \* mutant: a pool of the default size
  /\ pc[r] = "queued" /\ Moves(r, "begun")
  /\ UNCHANGED <<got, row, issued, traded, used, unlucky, shared>>

(* pool.connect, BEGIN, set_config. *)
Start(r) ==
  /\ pc[r] = "queued" /\ Cardinality(Running) < PoolSize /\ Moves(r, "begun")
  /\ UNCHANGED <<got, row, issued, traded, used, unlucky, shared>>

-----------------------------------------------------------------------------
(***************************************************************************)
(* The callbacks.  Under row-level security a query sees its tenant's rows.*)
(***************************************************************************)
Sees(r) == conns[req[r].conn] # None /\ conns[req[r].conn].tenant = req[r].tenant

List(r) ==
  /\ pc[r] = "begun" /\ req[r].kind = "list" /\ Moves(r, "done")
  /\ UNCHANGED <<got, row, issued, traded, used, unlucky, shared>>

(* What is stored somewhere, and what the provider has had back.           *)
Stored == {conns[c].refresh : c \in {d \in Conns : conns[d] # None}}
Spent == {t[1] : t \in traded}

(* The caller's access token, with or without a refresh token.             *)
Connect(r) ==
  /\ pc[r] = "begun" /\ req[r].kind = "connect"
  /\ \E access \in 1 .. issued + 1, refresh \in 0 .. issued + 1 :
       /\ row' = [row EXCEPT ![r] = [tenant |-> req[r].tenant, provider |-> req[r].provider,
                                     access |-> access, refresh |-> refresh]]
       /\ issued' = IF issued + 1 \in {access, refresh} THEN issued + 1 ELSE issued
       /\ shared' = shared \cup ({refresh} \cap (Stored \cup Spent))
  /\ Goes(r, "written")
  /\ UNCHANGED <<conns, req, got, status, faults, traded, used, told, floor, unlucky>>

(* SELECT, and between it and the UPDATE the provider: the token is spent. *)
Renew(r) ==
  /\ pc[r] = "begun" /\ req[r].kind = "refresh"
  /\ Sees(r) /\ conns[req[r].conn].refresh # 0
  /\ issued' = issued + 1
  /\ LET old == conns[req[r].conn].refresh
     IN  /\ got' = [got EXCEPT ![r] = [old |-> old, new |-> issued']]
         /\ traded' = traded \cup {<<old, issued'>>}
  /\ Moves(r, "renewed")
  /\ UNCHANGED <<row, used, unlucky, shared>>

(* UPDATE waits for a row another transaction has written, and then writes *)
(* over what that one committed.                                           *)
Unlocked(c) == \A r \in Running : row[r] = None \/ req[r].conn # c

UpdateMisses(r) ==   \* mutant: WHERE finds no row
  /\ pc[r] = "renewed" /\ Unlocked(req[r].conn) /\ Moves(r, "written")
  /\ UNCHANGED <<got, row, issued, traded, used, unlucky, shared>>

Update(r) ==
  /\ pc[r] = "renewed" /\ Unlocked(req[r].conn) /\ Moves(r, "written")
  /\ row' = [row EXCEPT ![r] = [conns[req[r].conn] EXCEPT !.access = got[r].new,
                                                          !.refresh = got[r].new]]
  /\ UNCHANGED <<got, issued, traded, used, unlucky, shared>>

(* The audit_log row. *)
Audit(r) ==
  /\ pc[r] = "written" /\ AuditInsertOk(SchemaLevel, ExtraGrants) /\ Moves(r, "done")
  /\ UNCHANGED <<got, row, issued, traded, used, unlucky, shared>>

(* sendSlackMessage, createStripeCustomer, appendGoogleSheetRow. *)
UseToken(r) ==
  /\ pc[r] = "begun" /\ req[r].kind = "connector"
  /\ Sees(r) /\ conns[req[r].conn].provider = req[r].provider
  /\ used' = [used EXCEPT ![r] = conns[req[r].conn].access]
  /\ Moves(r, "done")
  /\ UNCHANGED <<got, row, issued, traded, unlucky, shared>>

-----------------------------------------------------------------------------
(***************************************************************************)
(* Out of the transaction and the handler.                                 *)
(***************************************************************************)
Answer(r, code) ==
  /\ Goes(r, "answered") /\ status' = [status EXCEPT ![r] = code]
  /\ row' = [row EXCEPT ![r] = None]

Committed(r) ==
  conns' = IF row[r] = None THEN conns ELSE [conns EXCEPT ![req[r].conn] = row[r]]

Commit(r) ==
  /\ pc[r] = "done" /\ Committed(r)
  /\ Answer(r, IF req[r].kind = "connect" THEN 201 ELSE 200)
  /\ told' = IF row[r] = None THEN told ELSE [told EXCEPT ![req[r].conn] = row[r].access]
  /\ UNCHANGED <<req, got, faults, issued, traded, used, floor, unlucky, shared>>

Fault == faults < MaxFaults /\ faults' = faults + 1

(* COMMIT takes effect, and the handler's catch block answers.             *)
CommitReplyLost(r) ==
  /\ pc[r] = "done" /\ Fault /\ Committed(r) /\ Answer(r, 500)
  /\ UNCHANGED <<req, got, issued, traded, used, told, floor, unlucky, shared>>

(* A refresh that ends here has traded its token in for nothing.           *)
Wasted(R) == {req[r].conn : r \in {q \in R \cap Running : got[q] # NoTokens}}

RollsBack(r) ==
  /\ Answer(r, 500)
  /\ unlucky' = unlucky \cup Wasted({r})
  /\ UNCHANGED <<conns, req, got, issued, traded, used, told, floor, shared>>

FailsUnnoticed(r) ==   \* mutant: the catch block forgets to throw again
  /\ pc[r] \in InTx /\ Fault
  /\ Answer(r, 200)
  /\ told' = IF row[r] = None THEN told ELSE [told EXCEPT ![req[r].conn] = row[r].access]
  /\ unlucky' = unlucky \cup Wasted({r})
  /\ UNCHANGED <<conns, req, got, issued, traded, used, floor, shared>>

(* A statement fails, COMMIT included. *)
Fails(r) == pc[r] \in InTx /\ Fault /\ RollsBack(r)

(* No such connection for the tenant, of another provider, or without a    *)
(* refresh token; or the audit row is refused.                             *)
Throws(r) ==
  /\ \/ /\ pc[r] = "begun" /\ req[r].kind = "refresh"
        /\ ~(Sees(r) /\ conns[req[r].conn].refresh # 0)
     \/ /\ pc[r] = "begun" /\ req[r].kind = "connector"
        /\ ~(Sees(r) /\ conns[req[r].conn].provider = req[r].provider)
     \/ pc[r] = "written" /\ ~AuditInsertOk(SchemaLevel, ExtraGrants)
  /\ RollsBack(r) /\ UNCHANGED faults

(* The gateway dies and is started again; PostgreSQL rolls back.           *)
Crash ==
  /\ Fault /\ unlucky' = unlucky \cup Wasted(Requests)
  /\ pc' = [r \in Requests |-> IF pc[r] = "new" THEN "new" ELSE "answered"]
  /\ row' = [r \in Requests |-> None]
  /\ UNCHANGED <<conns, req, got, status, issued, traded, used, told, floor, shared>>

-----------------------------------------------------------------------------
Progress(r) ==
  \/ Start(r) \/ List(r) \/ Connect(r) \/ Renew(r) \/ Update(r) \/ Audit(r) \/ UseToken(r)
  \/ Commit(r) \/ Throws(r)

(* Every request there is has been answered. *)
Finished == (\A r \in Requests : pc[r] = "answered") /\ UNCHANGED vars

Next ==
  \/ \E r \in Requests, q \in Request : Arrive(r, q)
  \/ \E r \in Requests : AnswerAtOnce(r) \/ Progress(r) \/ CommitReplyLost(r) \/ Fails(r)
  \/ Crash \/ Finished

Spec == Init /\ [][Next]_vars

-----------------------------------------------------------------------------
(* Types. *)
TypeOK ==
  /\ conns \in [Conns -> Row \cup {None}]
  /\ req \in [Requests -> Request \cup {None}]
  /\ pc \in [Requests -> InTx \cup {"new", "queued", "answered"}]
  /\ got \in [Requests -> [old : Nat, new : Nat]] /\ row \in [Requests -> Row \cup {None}]
  /\ status \in [Requests -> {0, 200, 201, 400, 500}] /\ faults \in 0 .. MaxFaults
  /\ issued \in Nat /\ traded \subseteq Nat \X Nat /\ used \in [Requests -> Nat]
  /\ told \in [Conns -> Nat] /\ floor \in [Requests -> Nat] /\ unlucky \subseteq Conns
  /\ shared \subseteq Nat

(* The chain of refresh tokens of a connection does not break: what is     *)
(* stored was traded for the token stored before, so that no refresh is    *)
(* ever written over by another that read the same token.                  *)
UnbrokenChain ==
  [][\A c \in Conns : conns[c] # None /\ conns'[c] # conns[c] =>
       <<conns[c].refresh, conns'[c].refresh>> \in traded]_vars

(* A stored refresh token that the provider has been given belongs to a    *)
(* refresh under way, to one that failed after the provider answered, or   *)
(* is one that a caller brought a second time.                             *)
SpentOnlyIfUnlucky ==
  \A c \in Conns :
    conns[c] # None /\ conns[c].refresh \in Spent =>
      \/ c \in unlucky \/ conns[c].refresh \in shared
      \/ \E r \in Running : req[r].conn = c /\ got[r].old = conns[c].refresh

(* A connector uses a token no older than the one its connection was said  *)
(* to have when the connector was called.                                  *)
FreshTokens == \A r \in Requests : used[r] # 0 => used[r] >= floor[r]
=============================================================================
