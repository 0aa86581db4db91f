-------------------------- MODULE CredentialVault --------------------------
(***************************************************************************)
(* The vault: credentials stored, listed, read, tested, rotated and        *)
(* deleted, each in a transaction on the vault's pool, and encrypted with  *)
(* the key that the process found in its environment when it started.  The *)
(* bracket is TenantTx's; here a transaction begins and ends in one step.  *)
(*                                                                         *)
(* A row does not say which key it was encrypted with: kms_key_id is       *)
(* always "local-dev-key".  AES-GCM is external: another key's text is     *)
(* refused, not misread.  Secrets are numbered as they come.               *)
(***************************************************************************)
EXTENDS Naturals, Sequences

CONSTANTS
  Requests, Tenants, Creds, Keys, None,
  MaxFaults,       \* bound: statements that fail, replies that are lost
  MaxRestarts      \* bound: restarts of the process

Kinds == {"store", "list", "get", "test", "rotate", "delete"}
Request == [kind : Kinds, tenant : Tenants, cred : Creds]
Cipher == [secret : Nat, key : Keys]
Row == [tenant : Tenants, payload : Cipher]

ASSUME ConstantsAssumption ==
  /\ None \notin Request \cup Cipher \cup Row
  /\ MaxFaults \in Nat /\ MaxRestarts \in Nat

VARIABLES
  rows,       \* committed rows of credential_vault, or None
  table,      \* credential_rotation_audit exists, though no migration creates it
  key,        \* VAULT_ENCRYPTION_KEY of the process, or the default in the code
  req, pc,    \* what each request asks for, and where it is in its handler
  enc,        \* what it has encrypted: secret and key
  row,        \* the row it has read or written
  status,     \* of its answer; 0 for none
  faults, restarts,
  issued,     \* the last secret there is
  stored,     \* history: the secrets each credential has had, in their order
  given,      \* history: the secret a GET answered with
  told,       \* history: the latest secret of each credential a 2xx was about
  floor       \* history: told, when the request arrived

handler == <<req, pc, enc, row, status>>
bounds == <<faults, restarts>>
history == <<stored, given, told, floor>>
vars == <<rows, table, key, handler, bounds, issued, history>>

InTx == {"begun", "written", "done"}
Running == {r \in Requests : pc[r] \in InTx}
Kind(r) == IF req[r] = None THEN "none" ELSE req[r].kind
Cred(r) == req[r].cred

(* Some credentials are there, stored with the key in use. *)
Init ==
  /\ table \in BOOLEAN /\ key \in Keys /\ issued = 1
  /\ rows \in [Creds -> [tenant : Tenants, payload : {[secret |-> 1, key |-> key]}] \cup {None}]
  /\ stored = [c \in Creds |-> IF rows[c] = None THEN <<>> ELSE <<1>>]
  /\ told = [c \in Creds |-> IF rows[c] = None THEN 0 ELSE 1]
  /\ req = [r \in Requests |-> None] /\ pc = [r \in Requests |-> "new"]
  /\ enc = [r \in Requests |-> None] /\ row = [r \in Requests |-> None]
  /\ status = [r \in Requests |-> 0] /\ faults = 0 /\ restarts = 0
  /\ given = [r \in Requests |-> 0] /\ floor = [r \in Requests |-> 0]

-----------------------------------------------------------------------------
(***************************************************************************)
(* Into the handler.  Store and rotate encrypt before they ask the pool.   *)
(***************************************************************************)
Goes(r, place) == pc' = [pc EXCEPT ![r] = place]

(* A new credential gets an id of its own. *)
Fresh(c) == stored[c] = <<>> /\ ~ \E r \in Requests : Kind(r) = "store" /\ Cred(r) = c

Arrive(r, q) ==
  /\ pc[r] = "new" /\ (q.kind = "store" => Fresh(q.cred))
  /\ req' = [req EXCEPT ![r] = q] /\ floor' = [floor EXCEPT ![r] = told[q.cred]]
  /\ IF q.kind \in {"store", "rotate"}
       THEN /\ issued' = issued + 1
            /\ enc' = [enc EXCEPT ![r] = [secret |-> issued', key |-> key]]
       ELSE UNCHANGED <<issued, enc>>
  /\ Goes(r, "queued")
  /\ UNCHANGED <<rows, table, key, row, status, bounds, stored, given, told>>

(* A field is missing: 400, before anything is done. *)
Refuse(r) ==
  /\ pc[r] = "new" /\ Goes(r, "answered") /\ status' = [status EXCEPT ![r] = 400]
  /\ UNCHANGED <<rows, table, key, req, enc, row, bounds, issued, history>>

Moves(r, place) ==
  /\ Goes(r, place)
  /\ UNCHANGED <<rows, table, key, req, enc, status, bounds, issued, stored, told, floor>>

Start(r) == pc[r] = "queued" /\ Moves(r, "begun") /\ UNCHANGED <<row, given>>

-----------------------------------------------------------------------------
(***************************************************************************)
(* The statements.  Under row-level security they see their tenant's rows. *)
(***************************************************************************)
Sees(r) == rows[Cred(r)] # None /\ rows[Cred(r)].tenant = req[r].tenant

Store(r) ==
  /\ pc[r] = "begun" /\ Kind(r) = "store" /\ Moves(r, "done")
  /\ row' = [row EXCEPT ![r] = [tenant |-> req[r].tenant, payload |-> enc[r]]]
  /\ UNCHANGED given

List(r) == pc[r] = "begun" /\ Kind(r) = "list" /\ Moves(r, "done") /\ UNCHANGED <<row, given>>

Decrypts(r) == rows[Cred(r)].payload.key = key

(* GET answers with the secret, test with the news that there is one.      *)
Read(r) ==
  /\ pc[r] = "begun" /\ Kind(r) \in {"get", "test"} /\ Sees(r) /\ Decrypts(r)
  /\ Moves(r, "done")
  /\ given' = [given EXCEPT ![r] = IF Kind(r) = "get" THEN rows[Cred(r)].payload.secret ELSE 0]
  /\ UNCHANGED row

(* UPDATE and DELETE wait for the lock of whoever changed the row before,  *)
(* and then look again.                                                    *)
Unlocked(c) == ~ \E r \in Running : Cred(r) = c /\ pc[r] \in {"written", "done"}
                                      /\ Kind(r) \in {"rotate", "delete"} /\ row[r] # None

RotateStale(r) ==   \* mutant: the row is written back, not updated
  /\ pc[r] = "begun" /\ Kind(r) = "rotate" /\ Sees(r) /\ Moves(r, "written")
  /\ row' = [row EXCEPT ![r] = [rows[Cred(r)] EXCEPT !.payload = enc[r]]]
  /\ UNCHANGED given

Rotate(r) ==
  /\ pc[r] = "begun" /\ Kind(r) = "rotate" /\ Sees(r) /\ Unlocked(Cred(r)) /\ Moves(r, "written")
  /\ row' = [row EXCEPT ![r] = [rows[Cred(r)] EXCEPT !.payload = enc[r]]]
  /\ UNCHANGED given

(* The row of credential_rotation_audit. *)
RotationAudit(r) ==
  /\ pc[r] = "written" /\ table /\ Moves(r, "done")
  /\ UNCHANGED <<row, given>>

(* DELETE is content to find nothing. *)
Delete(r) ==
  /\ pc[r] = "begun" /\ Kind(r) = "delete" /\ Unlocked(Cred(r)) /\ Moves(r, "done")
  /\ row' = [row EXCEPT ![r] = IF Sees(r) THEN rows[Cred(r)] ELSE None]
  /\ UNCHANGED given

-----------------------------------------------------------------------------
(***************************************************************************)
(* Out of the transaction and the handler.                                 *)
(***************************************************************************)
Answer(r, code) ==
  Goes(r, "answered") /\ status' = [status EXCEPT ![r] = code] /\ row' = [row EXCEPT ![r] = None]

(* What COMMIT makes of the transaction's one change. *)
Committed(r) ==
  LET c == Cred(r)
  IN  IF row[r] = None \/ Kind(r) = "delete"
        THEN /\ rows' = IF row[r] = None THEN rows ELSE [rows EXCEPT ![c] = None]
             /\ UNCHANGED stored
        ELSE /\ rows' = [rows EXCEPT ![c] = row[r]]
             /\ stored' = [stored EXCEPT ![c] = Append(@, row[r].payload.secret)]

Commit(r) ==
  /\ pc[r] = "done" /\ Committed(r)
  /\ Answer(r, IF Kind(r) = "store" THEN 201 ELSE 200)
  /\ told' = IF Kind(r) \in {"store", "rotate"} THEN [told EXCEPT ![Cred(r)] = enc[r].secret]
                                                ELSE told
  /\ UNCHANGED <<table, key, req, enc, bounds, issued, given, floor>>

Fault == faults < MaxFaults /\ faults' = faults + 1 /\ UNCHANGED restarts

(* COMMIT takes effect, and the handler's catch block answers. *)
CommitReplyLost(r) ==
  /\ pc[r] = "done" /\ Fault /\ Committed(r) /\ Answer(r, 500)
  /\ UNCHANGED <<table, key, req, enc, issued, given, told, floor>>

Ends(r, code) ==
  /\ Answer(r, code)
  /\ UNCHANGED <<rows, table, key, req, enc, issued, history>>

Missing(r) ==
  /\ pc[r] = "begun" /\ Kind(r) \in {"get", "test", "rotate"} /\ ~Sees(r)
  /\ Ends(r, 404) /\ UNCHANGED bounds

(* Decryption throws, or the rotation's second INSERT has no table.        *)
Throws(r) ==
  /\ \/ pc[r] = "begun" /\ Kind(r) \in {"get", "test"} /\ Sees(r) /\ ~Decrypts(r)
     \/ pc[r] = "written" /\ ~table
  /\ Ends(r, 500) /\ UNCHANGED bounds

FailsUnnoticed(r) ==   \* mutant: the catch block does not throw again
  /\ pc[r] \in InTx /\ Fault /\ Answer(r, 200)
  /\ told' = IF Kind(r) = "rotate" THEN [told EXCEPT ![Cred(r)] = enc[r].secret] ELSE told
  /\ UNCHANGED <<rows, table, key, req, enc, issued, stored, given, floor>>

Fails(r) == pc[r] \in InTx /\ Fault /\ Ends(r, 500)

(* The process is started again, with the key the environment now has.     *)
Restart(k) ==
  /\ restarts < MaxRestarts /\ restarts' = restarts + 1 /\ key' = k
  /\ pc' = [r \in Requests |-> IF pc[r] = "new" THEN "new" ELSE "answered"]
  /\ row' = [r \in Requests |-> None]
  /\ UNCHANGED <<rows, table, req, enc, status, faults, issued, history>>

-----------------------------------------------------------------------------
Progress(r) ==
  \/ Start(r) \/ Store(r) \/ List(r) \/ Read(r) \/ Rotate(r) \/ RotationAudit(r) \/ Delete(r)
  \/ Commit(r) \/ Missing(r) \/ Throws(r)

(* Every request there is has been answered. *)
Finished == (\A r \in Requests : pc[r] = "answered") /\ UNCHANGED vars

Next ==
  \/ \E r \in Requests, q \in Request : Arrive(r, q)
  \/ \E r \in Requests : Refuse(r) \/ Progress(r) \/ CommitReplyLost(r) \/ Fails(r)
  \/ \E k \in Keys : Restart(k)
  \/ Finished

Spec == Init /\ [][Next]_vars

-----------------------------------------------------------------------------
(* Types. *)
TypeOK ==
  /\ rows \in [Creds -> Row \cup {None}] /\ table \in BOOLEAN /\ key \in Keys
  /\ req \in [Requests -> Request \cup {None}]
  /\ pc \in [Requests -> InTx \cup {"new", "queued", "answered"}]
  /\ enc \in [Requests -> Cipher \cup {None}] /\ row \in [Requests -> Row \cup {None}]
  /\ status \in [Requests -> {0, 200, 201, 400, 404, 500}]
  /\ faults \in 0 .. MaxFaults /\ restarts \in 0 .. MaxRestarts
  /\ issued \in Nat /\ stored \in [Creds -> Seq(Nat)] /\ given \in [Requests -> Nat]
  /\ told \in [Creds -> Nat] /\ floor \in [Requests -> Nat]

(* A secret that was given out is one the credential had, and none from    *)
(* before a rotation that was answered when it was asked for.              *)
FreshSecrets ==
  \A r \in Requests : given[r] # 0 =>
    \E i \in 1 .. Len(stored[Cred(r)]) :
      /\ stored[Cred(r)][i] = given[r]
      /\ floor[r] # 0 => \E j \in 1 .. i : stored[Cred(r)][j] = floor[r]

(* A deleted credential stays deleted, whoever was rotating it.            *)
NoResurrection ==
  [][\A c \in Creds : stored[c] # <<>> /\ rows[c] = None => rows'[c] = None]_vars
=============================================================================
