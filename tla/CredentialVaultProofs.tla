----------------------- MODULE CredentialVaultProofs -----------------------
(***************************************************************************)
(* Theorems about CredentialVault, for any requests, credentials, keys,    *)
(* faults and restarts.                                                    *)
(*                                                                         *)
(* What a rotation found it will find again when it commits: nobody        *)
(* deletes or rotates the row before it (OneWriter), and a row that is     *)
(* gone does not come back (NewOnes).                                      *)
(***************************************************************************)
EXTENDS CredentialVault, SequenceTheorems, TLAPS

(* A handler that is under way, before its transaction or in it.           *)
Waits == InTx \cup {"queued"}

Typed ==
  /\ TypeOK
  /\ \A r \in Requests : pc[r] \in Waits => req[r] \in Request
  /\ \A r \in Requests : pc[r] \in Waits /\ Kind(r) \in {"store", "rotate"} => enc[r] \in Cipher

(* Secret n is one of those that c has had.                                *)
Had(c, n) == \E j \in 1 .. Len(stored[c]) : stored[c][j] = n

(* r has changed a row that was there, and holds its lock.                 *)
Holds(r) ==
  pc[r] \in {"written", "done"} /\ Kind(r) \in {"rotate", "delete"} /\ row[r] # None

CallInv(r) ==
  /\ pc[r] = "new" => req[r] = None /\ given[r] = 0
  /\ given[r] # 0 => pc[r] \in {"done", "answered"} /\ Kind(r) = "get"
  /\ req[r] # None => floor[r] = 0 \/ Had(Cred(r), floor[r])
  /\ pc[r] \notin {"written", "done"} => row[r] = None
  /\ pc[r] = "written" => Kind(r) = "rotate"
  /\ pc[r] = "done" /\ Kind(r) \notin {"store", "rotate", "delete"} => row[r] = None

(* What is about to be committed. *)
WriteInv(r) ==
  /\ pc[r] \in {"written", "done"} /\ Kind(r) = "rotate" =>
       row[r] # None /\ row[r].payload = enc[r] /\ rows[Cred(r)] # None
  /\ pc[r] = "done" /\ Kind(r) = "delete" /\ row[r] # None => rows[Cred(r)] # None
  /\ pc[r] = "done" /\ Kind(r) = "store" => row[r] # None /\ row[r].payload = enc[r]

(* A row holds the last secret that was stored; what a caller was told is  *)
(* among them.                                                             *)
CredInv(c) ==
  /\ rows[c] # None => Had(c, rows[c].payload.secret)
                    /\ rows[c].payload.secret = stored[c][Len(stored[c])]
  /\ told[c] = 0 \/ Had(c, told[c])

OneWriter == \A r, s \in Requests : Holds(r) /\ Holds(s) /\ Cred(r) = Cred(s) => r = s

(* A credential is stored once, under an id that had no row before.        *)
NewOnes ==
  /\ \A r, s \in Requests :
       Kind(r) = "store" /\ Kind(s) = "store" /\ Cred(r) = Cred(s) => r = s
  /\ \A r \in Requests : Kind(r) = "store" /\ pc[r] \in Waits => stored[Cred(r)] = <<>>

IInv ==
  /\ Typed
  /\ \A r \in Requests : CallInv(r)
  /\ \A r \in Requests : WriteInv(r)
  /\ \A c \in Creds : CredInv(c)
  /\ OneWriter /\ NewOnes
  /\ FreshSecrets

-----------------------------------------------------------------------------
(***************************************************************************)
(* Types.                                                                  *)
(***************************************************************************)
(* The first state has the types.                                          *)
LEMMA InitTyped == Init => Typed
<1> SUFFICES ASSUME Init PROVE Typed
  OBVIOUS
<1>1. rows \in [Creds -> Row \cup {None}]
  BY DEF Init, Row, Cipher
<1>2. stored \in [Creds -> Seq(Nat)]
  BY DEF Init
<1> QED
  BY <1>1, <1>2, ConstantsAssumption DEF Init, Typed, TypeOK, InTx, Waits

(* Every step keeps the types.                                             *)
LEMMA NextTyped == Typed /\ [Next]_vars => Typed'
<1> SUFFICES ASSUME Typed, [Next]_vars PROVE Typed'
  OBVIOUS
<1> USE ConstantsAssumption DEF Typed, TypeOK, InTx, Goes, Waits, Kind, Cred, bounds, history
<1>0. \A r \in Requests : pc[r] \in Waits => req[r] \in Request /\ req[r].cred \in Creds
  BY DEF Request
<1>1. ASSUME NEW r \in Requests, NEW q \in Request, Arrive(r, q) PROVE Typed'
  <2>1. q.cred \in Creds /\ told[q.cred] \in Nat
    BY DEF Request
  <2>2. CASE q.kind \in {"store", "rotate"}
    <3>1. issued' = issued + 1 /\ enc' = [enc EXCEPT ![r] = [secret |-> issued', key |-> key]]
      BY <1>1, <2>2 DEF Arrive
    <3>2. [secret |-> issued', key |-> key] \in Cipher
      BY <3>1 DEF Cipher
    <3> QED
      BY <1>1, <2>1, <3>1, <3>2 DEF Arrive
  <2>3. CASE q.kind \notin {"store", "rotate"}
    BY <1>1, <2>1, <2>3 DEF Arrive
  <2> QED
    BY <2>2, <2>3
<1>2. ASSUME NEW r \in Requests, Refuse(r) PROVE Typed'
  BY <1>2 DEF Refuse
<1>3. ASSUME NEW r \in Requests, NEW place \in InTx, pc[r] \in Waits, Moves(r, place),
             row' \in [Requests -> Row \cup {None}], given' \in [Requests -> Nat]
      PROVE  Typed'
  BY <1>3 DEF Moves
<1>4. ASSUME NEW r \in Requests, Start(r) \/ List(r) \/ RotationAudit(r) PROVE Typed'
  <2>1. CASE Start(r)
    BY <1>3, <2>1 DEF Start
  <2>2. CASE List(r)
    BY <1>3, <2>2 DEF List
  <2>3. CASE RotationAudit(r)
    BY <1>3, <2>3 DEF RotationAudit
  <2> QED
    BY <1>4, <2>1, <2>2, <2>3
<1>5. ASSUME NEW r \in Requests, Store(r) PROVE Typed'
  <2>1. [tenant |-> req[r].tenant, payload |-> enc[r]] \in Row
    BY <1>5 DEF Store, Row, Request
  <2> QED
    BY <1>3, <1>5, <2>1 DEF Store
<1>6. ASSUME NEW r \in Requests, Read(r) PROVE Typed'
  <2>1. rows[Cred(r)] \in Row
    BY <1>0, <1>6 DEF Read, Sees
  <2>2. rows[Cred(r)].payload.secret \in Nat
    BY <2>1 DEF Row, Cipher
  <2> QED
    BY <1>3, <1>6, <2>2 DEF Read
<1>7. ASSUME NEW r \in Requests, Rotate(r) PROVE Typed'
  <2>1. rows[Cred(r)] \in Row /\ enc[r] \in Cipher
    BY <1>0, <1>7 DEF Rotate, Sees
  <2>2. [rows[Cred(r)] EXCEPT !.payload = enc[r]] \in Row
    BY <2>1 DEF Row
  <2> QED
    BY <1>3, <1>7, <2>2 DEF Rotate
<1>8. ASSUME NEW r \in Requests, Delete(r) PROVE Typed'
  BY <1>0, <1>3, <1>8 DEF Delete, Sees
<1>9. ASSUME NEW r \in Requests, Commit(r) \/ CommitReplyLost(r) PROVE Typed'
  <2>1. pc[r] = "done" /\ Committed(r) /\ req[r].cred \in Creds
    BY <1>0, <1>9 DEF Commit, CommitReplyLost
  <2>2. rows' \in [Creds -> Row \cup {None}] /\ stored' \in [Creds -> Seq(Nat)]
    <3>1. CASE row[r] = None \/ Kind(r) = "delete"
      <4>1. (rows' = rows \/ rows' = [rows EXCEPT ![req[r].cred] = None]) /\ stored' = stored
        BY <2>1, <3>1 DEF Committed
      <4>2. CASE rows' = rows
        BY <4>1, <4>2
      <4>3. CASE rows' = [rows EXCEPT ![req[r].cred] = None]
        BY <4>1, <4>3
      <4> QED
        BY <4>1, <4>2, <4>3
    <3>2. CASE row[r] # None /\ Kind(r) # "delete"
      <4>1. row[r] \in Row /\ row[r].payload.secret \in Nat
        BY <3>2 DEF Row, Cipher
      <4>2. /\ rows' = [rows EXCEPT ![req[r].cred] = row[r]]
            /\ stored' = [stored EXCEPT ![req[r].cred] = Append(@, row[r].payload.secret)]
        BY <2>1, <3>2 DEF Committed
      <4>3. Append(stored[req[r].cred], row[r].payload.secret) \in Seq(Nat)
        BY <2>1, <4>1
      <4> QED
        BY <2>1, <4>1, <4>2, <4>3
    <3> QED
      BY <3>1, <3>2
  <2>3. told' \in [Creds -> Nat]
    <3>1. CASE Commit(r)
      BY <2>1, <3>1 DEF Commit, Cipher
    <3>2. CASE CommitReplyLost(r)
      BY <3>2 DEF CommitReplyLost
    <3> QED
      BY <1>9, <3>1, <3>2
  <2>4. \E code \in {200, 201, 500} : Answer(r, code)
    BY <1>9 DEF Commit, CommitReplyLost
  <2>5. /\ faults' \in 0 .. MaxFaults /\ restarts' \in 0 .. MaxRestarts
        /\ UNCHANGED <<table, key, req, enc, issued, given, floor>>
    <3>1. CASE Commit(r)
      BY <3>1 DEF Commit
    <3>2. CASE CommitReplyLost(r)
      BY <3>2 DEF CommitReplyLost, Fault
    <3> QED
      BY <1>9, <3>1, <3>2
  <2> QED
    BY <2>2, <2>3, <2>4, <2>5 DEF Answer
<1>10. ASSUME NEW r \in Requests, Missing(r) \/ Throws(r) \/ Fails(r) PROVE Typed'
  <2>1. \E code \in {404, 500} : Ends(r, code)
    BY <1>10 DEF Missing, Throws, Fails
  <2>2. faults' \in 0 .. MaxFaults /\ restarts' \in 0 .. MaxRestarts
    <3>1. CASE Fails(r)
      BY <3>1 DEF Fails, Fault
    <3>2. CASE Missing(r) \/ Throws(r)
      BY <3>2 DEF Missing, Throws
    <3> QED
      BY <1>10, <3>1, <3>2
  <2> QED
    BY <2>1, <2>2 DEF Ends, Answer
<1>11. ASSUME NEW k \in Keys, Restart(k) PROVE Typed'
  BY <1>11 DEF Restart
<1>12. ASSUME UNCHANGED vars PROVE Typed'
  BY <1>12 DEF vars, handler
<1> QED
  BY <1>1, <1>2, <1>4, <1>5, <1>6, <1>7, <1>8, <1>9, <1>10, <1>11, <1>12
  DEF Next, Progress, Finished

-----------------------------------------------------------------------------
(***************************************************************************)
(* The invariant, action by action.                                        *)
(***************************************************************************)
(* Nobody has asked for anything, and rows hold the one secret there is.   *)
LEMMA InitIInv == Init => IInv
<1> SUFFICES ASSUME Init PROVE IInv
  OBVIOUS
<1>1. Typed
  BY InitTyped
<1>2. \A c \in Creds : CredInv(c)
  <2> SUFFICES ASSUME NEW c \in Creds PROVE CredInv(c)
    OBVIOUS
  <2>1. CASE rows[c] = None
    BY <2>1 DEF Init, CredInv
  <2>2. CASE rows[c] # None
    <3>1. stored[c] = <<1>> /\ told[c] = 1 /\ rows[c].payload.secret = 1
      BY <2>2 DEF Init
    <3> QED
      BY <3>1 DEF CredInv, Had
  <2> QED
    BY <2>1, <2>2
<1> QED
  BY <1>1, <1>2 DEF Init, IInv, InTx, Waits, Kind, CallInv, WriteInv, OneWriter, Holds, NewOnes, FreshSecrets

(* Rows and what was told change only when a transaction commits.          *)
LEMMA StoreSame ==
  ASSUME IInv, UNCHANGED <<rows, stored, told>>
  PROVE  \A c \in Creds : CredInv(c)'
  BY DEF IInv, CredInv, Had

(* A request that arrives has done nothing yet.                            *)
LEMMA ArriveKeeps ==
  ASSUME IInv, Typed', NEW r \in Requests, NEW q \in Request, Arrive(r, q)
  PROVE  IInv'
<1> USE DEF InTx, Waits, Goes, Kind, Cred
<1>0. /\ pc[r] = "new" /\ pc' = [pc EXCEPT ![r] = "queued"] /\ req' = [req EXCEPT ![r] = q]
      /\ floor' = [floor EXCEPT ![r] = told[q.cred]]
      /\ UNCHANGED <<rows, key, row, stored, given, told>>
  BY DEF Arrive
<1>1. /\ pc \in [Requests -> InTx \cup {"new", "queued", "answered"}]
      /\ req \in [Requests -> Request \cup {None}] /\ floor \in [Requests -> Nat]
      /\ enc \in [Requests -> Cipher \cup {None}]
      /\ q.cred \in Creds /\ q # None
  BY ConstantsAssumption DEF IInv, Typed, TypeOK, Request
<1>2. /\ pc'[r] = "queued" /\ req'[r] = q /\ floor'[r] = told[q.cred]
      /\ \A s \in Requests : s # r => pc'[s] = pc[s] /\ req'[s] = req[s] /\ floor'[s] = floor[s]
  BY <1>0, <1>1
<1>3. \A s \in Requests : s # r => enc'[s] = enc[s]
  <2>1. CASE q.kind \in {"store", "rotate"}
    BY <1>1, <2>1 DEF Arrive
  <2>2. CASE q.kind \notin {"store", "rotate"}
    BY <2>2 DEF Arrive
  <2> QED
    BY <2>1, <2>2
<1>4. \A s \in Requests : CallInv(s)'
  <2>1. \A s \in Requests : s # r => CallInv(s)'
    BY <1>0, <1>2, <1>3 DEF IInv, CallInv, Had
  <2>2. CallInv(r)'
    BY <1>0, <1>1, <1>2, <1>3 DEF IInv, CallInv, CredInv, Had
  <2> QED
    BY <2>1, <2>2
<1>5. \A s \in Requests : WriteInv(s)'
  BY <1>0, <1>2, <1>3 DEF IInv, WriteInv
<1>6. \A c \in Creds : CredInv(c)'
  BY <1>0, StoreSame
<1>7. OneWriter'
  BY <1>0, <1>2 DEF IInv, OneWriter, Holds
<1>8. NewOnes'
  BY <1>0, <1>1, <1>2 DEF IInv, NewOnes, Arrive, Fresh
<1>9. FreshSecrets'
  BY <1>0, <1>2 DEF IInv, FreshSecrets, CallInv
<1> QED
  BY <1>4, <1>5, <1>6, <1>7, <1>8, <1>9 DEF IInv

(* One that is refused never gets a transaction.                           *)
LEMMA RefuseKeeps ==
  ASSUME IInv, Typed', NEW r \in Requests, Refuse(r)
  PROVE  IInv'
<1> USE DEF InTx, Waits, Goes, Kind, Cred
<1>0. /\ pc[r] = "new" /\ pc' = [pc EXCEPT ![r] = "answered"]
      /\ UNCHANGED <<rows, key, req, enc, row, stored, given, told, floor>>
  BY DEF Refuse, history
<1>1. pc'[r] = "answered" /\ \A s \in Requests : s # r => pc'[s] = pc[s]
  BY <1>0 DEF IInv, Typed, TypeOK
<1>2. \A s \in Requests : CallInv(s)'
  BY <1>0, <1>1 DEF IInv, CallInv, Had
<1>3. \A s \in Requests : WriteInv(s)'
  BY <1>0, <1>1 DEF IInv, WriteInv
<1>4. \A c \in Creds : CredInv(c)'
  BY <1>0, StoreSame
<1>5. OneWriter'
  BY <1>0, <1>1 DEF IInv, OneWriter, Holds
<1>6. NewOnes'
  BY <1>0, <1>1 DEF IInv, NewOnes
<1>7. FreshSecrets'
  BY <1>0 DEF IInv, FreshSecrets
<1> QED
  BY <1>2, <1>3, <1>4, <1>5, <1>6, <1>7 DEF IInv

(* A step of r alone in its transaction: what is left to show is about r.  *)
LEMMA MovesKeeps ==
  ASSUME IInv, Typed', NEW r \in Requests, pc[r] \in Waits, NEW place \in InTx, Moves(r, place),
         \A s \in Requests : s # r => row'[s] = row[s] /\ given'[s] = given[s],
         CallInv(r)', WriteInv(r)', OneWriter',
         given'[r] \in {0, given[r]} \/ (given'[r] = rows[Cred(r)].payload.secret /\ rows[Cred(r)] # None)
  PROVE  IInv'
<1> USE DEF Goes, Kind, Cred
<1>0. /\ pc' = [pc EXCEPT ![r] = place]
      /\ UNCHANGED <<rows, table, key, req, enc, stored, told, floor>>
  BY DEF Moves
<1>1. pc'[r] = place /\ \A s \in Requests : s # r => pc'[s] = pc[s]
  BY <1>0 DEF IInv, Typed, TypeOK
<1>2. \A s \in Requests : CallInv(s)'
  BY <1>0, <1>1 DEF IInv, CallInv, Had
<1>3. \A s \in Requests : WriteInv(s)'
  BY <1>0, <1>1 DEF IInv, WriteInv
<1>4. \A c \in Creds : CredInv(c)'
  BY <1>0, StoreSame
<1>5. NewOnes'
  BY <1>0, <1>1 DEF IInv, NewOnes, Waits
<1>6. FreshSecrets'
  <2> SUFFICES ASSUME NEW s \in Requests, given'[s] # 0
               PROVE  \E i \in 1 .. Len(stored[Cred(s)]) :
                        /\ stored[Cred(s)][i] = given'[s]
                        /\ floor[s] # 0 => \E j \in 1 .. i : stored[Cred(s)][j] = floor[s]
    BY <1>0 DEF FreshSecrets
  <2>1. CASE given'[s] = given[s]
    BY <2>1 DEF IInv, FreshSecrets
  <2>2. CASE given'[s] # given[s]
    <3>1. s = r /\ given'[r] = rows[req[r].cred].payload.secret /\ rows[req[r].cred] # None
      BY <2>2
    <3>2. req[r].cred \in Creds /\ req[r] # None
      BY ConstantsAssumption DEF IInv, Typed, Request
    <3> DEFINE h == stored[req[r].cred]
    <3>3. h \in Seq(Nat) /\ Had(req[r].cred, given'[r]) /\ given'[r] = h[Len(h)]
      BY <3>1, <3>2 DEF IInv, Typed, TypeOK, CredInv
    <3>4. Len(h) \in Nat /\ Len(h) \in 1 .. Len(h)
      BY <3>3 DEF Had
    <3>5. floor[r] # 0 => Had(req[r].cred, floor[r])
      BY <3>2 DEF IInv, CallInv
    <3> QED
      BY <3>1, <3>3, <3>4, <3>5 DEF Had
  <2> QED
    BY <2>1, <2>2
<1> QED
  BY <1>2, <1>3, <1>4, <1>5, <1>6 DEF IInv

(* BEGIN, the list, and the audit row of a rotation.                       *)
LEMMA QuietKeeps ==
  ASSUME IInv, Typed', NEW r \in Requests, Start(r) \/ List(r) \/ RotationAudit(r)
  PROVE  IInv'
<1> USE DEF Goes, Kind, Cred
<1> DEFINE place == IF pc[r] = "queued" THEN "begun" ELSE "done"
<1>0. /\ pc[r] \in Waits /\ place \in InTx /\ Moves(r, place)
      /\ UNCHANGED <<row, given>>
      /\ pc[r] # "done" /\ (pc[r] = "written" => Kind(r) = "rotate")
      /\ pc[r] = "begun" => Kind(r) = "list"
  BY DEF Start, List, RotationAudit, Waits, InTx, IInv, CallInv
<1>1. /\ pc'[r] = place /\ \A s \in Requests : s # r => pc'[s] = pc[s]
      /\ UNCHANGED <<rows, key, req, enc, stored, told, floor>>
  BY <1>0 DEF Moves, IInv, Typed, TypeOK
<1>2. CallInv(r)' /\ WriteInv(r)'
  <2>1. CallInv(r) /\ WriteInv(r)
    BY DEF IInv
  <2>2. given[r] = 0
    BY <1>0, <2>1 DEF CallInv, Waits, InTx
  <2> QED
    BY <1>0, <1>1, <2>1, <2>2 DEF CallInv, WriteInv, Had, Waits, InTx
<1>3. OneWriter'
  BY <1>0, <1>1 DEF IInv, OneWriter, Holds, CallInv
<1> QED
  BY <1>0, <1>2, <1>3, MovesKeeps

(* INSERT, and GET's and the test's SELECT.                                *)
LEMMA StoreOrReadKeeps ==
  ASSUME IInv, Typed', NEW r \in Requests, Store(r) \/ Read(r)
  PROVE  IInv'
<1> USE DEF Goes, Kind, Cred
<1>0. /\ pc[r] = "begun" /\ Moves(r, "done")
      /\ \A s \in Requests : s # r => row'[s] = row[s] /\ given'[s] = given[s]
      /\ Kind(r) \in {"store", "get", "test"}
  <2>1. CASE Store(r)
    BY <2>1 DEF Store, IInv, Typed, TypeOK
  <2>2. CASE Read(r)
    BY <2>2 DEF Read, IInv, Typed, TypeOK
  <2> QED
    BY <2>1, <2>2
<1>1. /\ pc'[r] = "done" /\ \A s \in Requests : s # r => pc'[s] = pc[s]
      /\ UNCHANGED <<rows, key, req, enc, stored, told, floor>>
  BY <1>0 DEF Moves, IInv, Typed, TypeOK
<1>2. CallInv(r) /\ WriteInv(r) /\ given[r] = 0 /\ row[r] = None
  BY <1>0 DEF IInv, CallInv
<1>3. /\ given'[r] # 0 => Kind(r) = "get" /\ given'[r] = rows[Cred(r)].payload.secret /\ rows[Cred(r)] # None
      /\ Kind(r) # "store" => row'[r] = None
  <2>1. CASE Store(r)
    BY <1>2, <2>1 DEF Store
  <2>2. CASE Read(r)
    BY <1>2, <2>2 DEF Read, Sees, IInv, Typed, TypeOK
  <2> QED
    BY <2>1, <2>2
<1>4. Kind(r) = "store" => row'[r] # None /\ row'[r].payload = enc[r]
  <2> SUFFICES ASSUME Kind(r) = "store" PROVE row'[r] # None /\ row'[r].payload = enc[r]
    OBVIOUS
  <2>1. row'[r] = [tenant |-> req[r].tenant, payload |-> enc[r]]
    BY DEF Store, Read, IInv, Typed, TypeOK
  <2>2. enc[r] \in Cipher /\ req[r] \in Request
    BY <1>0 DEF IInv, Typed, Waits, InTx
  <2>3. row'[r] \in Row
    BY <2>1, <2>2 DEF Row, Request
  <2> QED
    BY <2>1, <2>3, ConstantsAssumption
<1>5. CallInv(r)' /\ WriteInv(r)'
  BY <1>0, <1>1, <1>2, <1>3, <1>4 DEF CallInv, WriteInv, Had, Waits, InTx
<1>6. OneWriter'
  BY <1>0, <1>1 DEF IInv, OneWriter, Holds
<1> QED
  BY <1>0, <1>3, <1>5, <1>6, MovesKeeps DEF Waits, InTx

(* UPDATE and DELETE get the row's lock.                                   *)
LEMMA ChangeKeeps ==
  ASSUME IInv, Typed', NEW r \in Requests, Rotate(r) \/ Delete(r)
  PROVE  IInv'
<1> USE DEF Goes, Kind, Cred
<1> DEFINE place == IF Kind(r) = "rotate" THEN "written" ELSE "done"
<1>0. /\ pc[r] = "begun" /\ Moves(r, place) /\ place \in InTx /\ Unlocked(Cred(r))
      /\ \A s \in Requests : s # r => row'[s] = row[s] /\ given'[s] = given[s]
      /\ given'[r] = given[r] /\ Kind(r) \in {"rotate", "delete"}
  <2>1. CASE Rotate(r)
    BY <2>1 DEF Rotate, InTx, IInv, Typed, TypeOK
  <2>2. CASE Delete(r)
    BY <2>2 DEF Delete, InTx, IInv, Typed, TypeOK
  <2> QED
    BY <2>1, <2>2
<1>1. /\ pc'[r] = place /\ \A s \in Requests : s # r => pc'[s] = pc[s]
      /\ UNCHANGED <<rows, key, req, enc, stored, told, floor>>
  BY <1>0 DEF Moves, IInv, Typed, TypeOK
<1>2. CallInv(r) /\ WriteInv(r) /\ given[r] = 0 /\ row[r] = None
  BY <1>0 DEF IInv, CallInv
<1>3. Kind(r) = "rotate" => row'[r] # None /\ row'[r].payload = enc[r] /\ rows[Cred(r)] # None
  <2> SUFFICES ASSUME Kind(r) = "rotate"
               PROVE  row'[r] # None /\ row'[r].payload = enc[r] /\ rows[Cred(r)] # None
    OBVIOUS
  <2>1. row'[r] = [rows[Cred(r)] EXCEPT !.payload = enc[r]] /\ rows[Cred(r)] # None
    BY DEF Rotate, Delete, Sees, IInv, Typed, TypeOK
  <2>2. enc[r] \in Cipher /\ rows[Cred(r)] \in Row
    BY <1>0, <2>1 DEF IInv, Typed, TypeOK, Waits, InTx, Request
  <2>3. row'[r] \in Row /\ row'[r].payload = enc[r]
    BY <2>1, <2>2 DEF Row
  <2> QED
    BY <2>1, <2>3, ConstantsAssumption
<1>4. Kind(r) = "delete" /\ row'[r] # None => rows[Cred(r)] # None
  BY DEF Rotate, Delete, Sees, IInv, Typed, TypeOK
<1>5. CallInv(r)' /\ WriteInv(r)'
  BY <1>0, <1>1, <1>2, <1>3, <1>4 DEF CallInv, WriteInv, Had, Waits, InTx
<1>6. OneWriter'
  <2>1. \A s \in Requests : s # r /\ Holds(s) => Cred(s) # Cred(r)
    BY <1>0 DEF Unlocked, Holds, Running, InTx
  <2>2. \A s \in Requests : s # r => (Holds(s)' <=> Holds(s)) /\ Cred(s)' = Cred(s)
    BY <1>0, <1>1 DEF Holds
  <2>3. Cred(r)' = Cred(r)
    BY <1>1
  <2> QED
    BY <2>1, <2>2, <2>3 DEF IInv, OneWriter
<1> QED
  BY <1>0, <1>5, <1>6, MovesKeeps DEF Waits, InTx

(* A handler that ends without COMMIT leaves nothing.                      *)
LEMMA EndsKeeps ==
  ASSUME IInv, Typed', NEW r \in Requests, Missing(r) \/ Throws(r) \/ Fails(r)
  PROVE  IInv'
<1> USE DEF Goes, Kind, Cred, InTx, Waits
<1>0. /\ pc[r] \in InTx /\ pc' = [pc EXCEPT ![r] = "answered"] /\ row' = [row EXCEPT ![r] = None]
      /\ UNCHANGED <<rows, key, req, enc, stored, given, told, floor>>
  <2>1. pc[r] \in InTx /\ \E code \in {404, 500} : Ends(r, code)
    BY DEF Missing, Throws, Fails
  <2> QED
    BY <2>1 DEF Ends, Answer, history
<1>1. /\ pc'[r] = "answered" /\ row'[r] = None
      /\ \A s \in Requests : s # r => pc'[s] = pc[s] /\ row'[s] = row[s]
  BY <1>0 DEF IInv, Typed, TypeOK
<1>2. \A s \in Requests : CallInv(s)'
  BY <1>0, <1>1 DEF IInv, CallInv, Had
<1>3. \A s \in Requests : WriteInv(s)'
  BY <1>0, <1>1 DEF IInv, WriteInv
<1>4. \A c \in Creds : CredInv(c)'
  BY <1>0, StoreSame
<1>5. OneWriter'
  BY <1>0, <1>1 DEF IInv, OneWriter, Holds
<1>6. NewOnes'
  BY <1>0, <1>1 DEF IInv, NewOnes
<1>7. FreshSecrets'
  BY <1>0 DEF IInv, FreshSecrets
<1> QED
  BY <1>2, <1>3, <1>4, <1>5, <1>6, <1>7 DEF IInv

(* A restart leaves no handler under way.                                  *)
LEMMA RestartKeeps ==
  ASSUME IInv, Typed', NEW k \in Keys, Restart(k)
  PROVE  IInv'
<1> USE DEF Kind, Cred, InTx, Waits
<1>0. /\ pc' = [s \in Requests |-> IF pc[s] = "new" THEN "new" ELSE "answered"]
      /\ row' = [s \in Requests |-> None]
      /\ UNCHANGED <<rows, req, enc, stored, given, told, floor>>
  BY DEF Restart, history
<1>1. \A s \in Requests : pc'[s] \in {"new", "answered"} /\ (pc'[s] = "new" <=> pc[s] = "new") /\ row'[s] = None
  BY <1>0
<1>2. \A s \in Requests : CallInv(s)'
  BY <1>0, <1>1 DEF IInv, CallInv, Had
<1>3. \A s \in Requests : WriteInv(s)'
  BY <1>1 DEF WriteInv
<1>4. \A c \in Creds : CredInv(c)'
  BY <1>0, StoreSame
<1>5. OneWriter'
  BY <1>1 DEF OneWriter, Holds
<1>6. NewOnes'
  BY <1>0, <1>1 DEF IInv, NewOnes
<1>7. FreshSecrets'
  BY <1>0 DEF IInv, FreshSecrets
<1> QED
  BY <1>2, <1>3, <1>4, <1>5, <1>6, <1>7 DEF IInv

(* What a COMMIT does: nothing, or the row goes, or it gets a new secret.  *)
Ended(r) ==
  /\ pc[r] = "done" /\ pc' = [pc EXCEPT ![r] = "answered"] /\ row' = [row EXCEPT ![r] = None]
  /\ UNCHANGED <<key, req, enc, given, floor>>

Nothing(r) ==
  UNCHANGED <<rows, stored, told>> /\ Kind(r) \notin {"store", "rotate"}

Removes(r) ==
  /\ Holds(r) /\ Kind(r) = "delete"
  /\ rows' = [rows EXCEPT ![Cred(r)] = None] /\ UNCHANGED <<stored, told>>

Stores(r) ==
  LET n == enc[r].secret
  IN  /\ Kind(r) \in {"store", "rotate"} /\ row[r] # None /\ row[r].payload = enc[r]
      /\ rows' = [rows EXCEPT ![Cred(r)] = row[r]]
      /\ stored' = [stored EXCEPT ![Cred(r)] = Append(@, n)]
      /\ told' = told \/ told' = [told EXCEPT ![Cred(r)] = n]

(* A commit is one of these three.                                         *)
LEMMA CommitDoes ==
  ASSUME IInv, NEW r \in Requests, Commit(r) \/ CommitReplyLost(r)
  PROVE  /\ Ended(r) /\ Cred(r) \in Creds
         /\ Nothing(r) \/ Removes(r) \/ Stores(r)
<1>1. /\ Ended(r) /\ Committed(r)
      /\ told' = told \/ (Kind(r) \in {"store", "rotate"} /\ told' = [told EXCEPT ![Cred(r)] = enc[r].secret])
  <2>1. CASE Commit(r)
    BY <2>1 DEF Commit, Answer, Goes, Ended
  <2>2. CASE CommitReplyLost(r)
    BY <2>2 DEF CommitReplyLost, Answer, Goes, Ended
  <2> QED
    BY <2>1, <2>2
<1>2. Cred(r) \in Creds /\ CallInv(r) /\ WriteInv(r)
  BY <1>1 DEF Ended, IInv, Typed, Waits, InTx, Cred, Request
<1>3. CASE Kind(r) \in {"store", "rotate"}
  <2>1. row[r] # None /\ row[r].payload = enc[r]
    BY <1>1, <1>2, <1>3 DEF WriteInv, Ended
  <2> QED
    BY <1>1, <1>2, <1>3, <2>1 DEF Committed, Stores
<1>4. CASE Kind(r) \notin {"store", "rotate"}
  <2>1. CASE row[r] = None
    BY <1>1, <1>2, <1>4, <2>1 DEF Committed, Nothing
  <2>2. CASE row[r] # None
    <3>1. Kind(r) = "delete"
      BY <1>1, <1>2, <1>4, <2>2 DEF CallInv, Ended
    <3> QED
      BY <1>1, <1>2, <2>2, <3>1 DEF Committed, Removes, Holds, Ended
  <2> QED
    BY <2>1, <2>2
<1> QED
  BY <1>3, <1>4

(* What a commit that stores does to the credential it is about, and that  *)
(* nobody else has anything to do with that credential's row.              *)
LEMMA StoresFacts ==
  ASSUME IInv, NEW r \in Requests, Ended(r), Stores(r), Cred(r) \in Creds
  PROVE  LET c == Cred(r)
             n == enc[r].secret
             h == stored[c]
         IN  /\ n \in Nat /\ row[r].payload.secret = n
             /\ rows'[c] = row[r] /\ rows'[c] # None
             /\ stored'[c] \in Seq(Nat) /\ Len(h) \in Nat /\ Len(stored'[c]) = Len(h) + 1
             /\ stored'[c][Len(h) + 1] = n
             /\ \A i \in 1 .. Len(h) : stored'[c][i] = h[i]
             /\ \A d \in Creds : d # c => /\ rows'[d] = rows[d] /\ stored'[d] = stored[d]
                                          /\ told'[d] = told[d]
             /\ told'[c] \in {told[c], n}
             /\ \A s \in Requests : s # r => ~Holds(s) \/ Cred(s) # c
             /\ \A s \in Requests : s # r /\ Kind(s) = "store" /\ Cred(s) = c => pc[s] \notin Waits
<1> DEFINE c == Cred(r)
           n == enc[r].secret
           h == stored[c]
<1>1. /\ rows \in [Creds -> Row \cup {None}] /\ stored \in [Creds -> Seq(Nat)]
      /\ told \in [Creds -> Nat] /\ h \in Seq(Nat)
  BY DEF IInv, Typed, TypeOK
<1>2. enc[r] \in Cipher /\ n \in Nat
  BY DEF IInv, Typed, Ended, Stores, Waits, InTx, Cipher
<1>3. /\ row[r].payload.secret = n /\ rows'[c] = row[r] /\ rows'[c] # None
      /\ stored'[c] = Append(h, n) /\ told'[c] \in {told[c], n}
      /\ \A d \in Creds : d # c => /\ rows'[d] = rows[d] /\ stored'[d] = stored[d]
                                   /\ told'[d] = told[d]
  BY <1>1 DEF Stores
<1>4. /\ Append(h, n) \in Seq(Nat) /\ Len(h) \in Nat /\ Len(Append(h, n)) = Len(h) + 1
      /\ Append(h, n)[Len(h) + 1] = n /\ \A i \in 1 .. Len(h) : Append(h, n)[i] = h[i]
  BY <1>1, <1>2
<1>5. Kind(r) = "rotate" => rows[c] # None /\ Holds(r)
  BY DEF IInv, WriteInv, Ended, Stores, Holds
<1>6. rows[c] # None => h # <<>>
  BY <1>1 DEF IInv, CredInv, Had
<1>7. Kind(r) = "store" => h = <<>>
  BY DEF IInv, NewOnes, Ended, Waits, InTx
<1>8. \A s \in Requests : s # r => ~Holds(s) \/ Cred(s) # c
  <2> SUFFICES ASSUME NEW s \in Requests, s # r, Holds(s), Cred(s) = c PROVE FALSE
    OBVIOUS
  <2>1. CASE Kind(r) = "rotate"
    BY <1>5, <2>1 DEF IInv, OneWriter
  <2>2. CASE Kind(r) = "store"
    <3>1. rows[c] = None
      BY <1>6, <1>7, <2>2
    <3>2. Kind(s) = "delete"
      BY <3>1 DEF Holds, IInv, WriteInv
    <3>3. pc[s] = "done" /\ row[s] # None
      BY <3>2 DEF Holds, IInv, CallInv
    <3> QED
      BY <3>1, <3>2, <3>3 DEF IInv, WriteInv
  <2> QED
    BY <2>1, <2>2 DEF Stores
<1>9. \A s \in Requests : s # r /\ Kind(s) = "store" /\ Cred(s) = c => pc[s] \notin Waits
  BY <1>5, <1>6 DEF IInv, NewOnes, Stores
<1> QED
  BY <1>2, <1>3, <1>4, <1>8, <1>9

(* COMMIT, answered or not. *)
LEMMA CommitKeeps ==
  ASSUME IInv, Typed', NEW r \in Requests, Commit(r) \/ CommitReplyLost(r)
  PROVE  IInv'
<1> DEFINE c == req[r].cred
<1> USE DEF Kind, Cred, InTx, Waits
<1>0. /\ Ended(r) /\ c \in Creds /\ pc[r] = "done"
      /\ Nothing(r) \/ Removes(r) \/ Stores(r)
      /\ UNCHANGED <<key, req, enc, given, floor>>
  BY CommitDoes DEF Ended
<1>1. /\ pc'[r] = "answered" /\ row'[r] = None
      /\ \A s \in Requests : s # r => pc'[s] = pc[s] /\ row'[s] = row[s]
  BY <1>0 DEF Ended, IInv, Typed, TypeOK
<1>2. \A d \in Creds : /\ Len(stored[d]) \in Nat /\ Len(stored'[d]) \in Nat
                         /\ Len(stored[d]) <= Len(stored'[d])
                         /\ \A i \in 1 .. Len(stored[d]) : stored'[d][i] = stored[d][i]
  <2>1. CASE Stores(r)
    <3> TAKE d \in Creds
    <3>1. stored[d] \in Seq(Nat) /\ Len(stored[d]) \in Nat
      BY DEF IInv, Typed, TypeOK
    <3>2. CASE d = c
      BY <1>0, <2>1, <3>1, <3>2, StoresFacts
    <3>3. CASE d # c
      BY <1>0, <2>1, <3>1, <3>3, StoresFacts
    <3> QED
      BY <3>2, <3>3
  <2>2. CASE stored' = stored
    <3> TAKE d \in Creds
    <3>1. stored[d] \in Seq(Nat) /\ Len(stored[d]) \in Nat
      BY DEF IInv, Typed, TypeOK
    <3> QED
      BY <2>2, <3>1
  <2> QED
    BY <1>0, <2>1, <2>2 DEF Nothing, Removes
<1>3. \A d \in Creds, n \in Nat : Had(d, n) => Had(d, n)'
  BY <1>2 DEF Had
<1>4. \A s \in Requests : CallInv(s)'
  <2> TAKE s \in Requests
  <2>1. CallInv(s) /\ floor[s] \in Nat /\ (req[s] # None => req[s].cred \in Creds)
    BY DEF IInv, Typed, TypeOK, Request
  <2>2. req[s] # None => floor[s] = 0 \/ Had(req[s].cred, floor[s])'
    <3> SUFFICES ASSUME NEW d \in Creds, NEW n \in Nat, d = req[s].cred, n = floor[s], req[s] # None
                 PROVE  n = 0 \/ Had(d, n)'
      BY <1>0, <2>1
    <3> QED
      BY <1>3, <2>1 DEF CallInv
  <2> QED
    BY <1>0, <1>1, <2>1, <2>2 DEF CallInv, Had
<1>5. \A s \in Requests : WriteInv(s)'
  <2> TAKE s \in Requests
  <2>1. s # r => WriteInv(s)
    BY DEF IInv
  <2>2. s # r /\ Holds(s) => rows'[req[s].cred] = rows[req[s].cred]
    <3> SUFFICES ASSUME s # r, Holds(s) PROVE rows'[req[s].cred] = rows[req[s].cred]
      OBVIOUS
    <3>1. CASE Nothing(r)
      BY <3>1 DEF Nothing
    <3>2. CASE Removes(r)
      BY <3>2 DEF Removes, IInv, OneWriter, Typed, TypeOK
    <3>3. CASE Stores(r)
      <4>1. req[s].cred \in Creds /\ req[s].cred # c
        BY <1>0, <3>3, StoresFacts DEF Holds, IInv, Typed, Request
      <4> QED
        BY <1>0, <3>3, <4>1, StoresFacts
    <3> QED
      BY <1>0, <3>1, <3>2, <3>3
  <2>3. CASE s = r
    BY <1>1, <2>3 DEF WriteInv
  <2>4. CASE s # r
    BY <1>0, <1>1, <2>1, <2>2, <2>4 DEF WriteInv, Holds
  <2> QED
    BY <2>3, <2>4
<1>6. \A d \in Creds : CredInv(d)'
  <2> TAKE d \in Creds
  <2>1. CredInv(d) /\ told[d] \in Nat /\ stored[d] \in Seq(Nat)
    BY DEF IInv, Typed, TypeOK
  <2>2. CASE Nothing(r)
    BY <2>1, <2>2 DEF Nothing, CredInv, Had
  <2>3. CASE Removes(r)
    <3>1. rows'[d] \in {None, rows[d]} /\ stored' = stored /\ told' = told
      BY <2>3 DEF Removes, IInv, Typed, TypeOK
    <3> QED
      BY <2>1, <3>1 DEF CredInv, Had
  <2>4. CASE Stores(r)
    <3>1. CASE d = c
      <4> DEFINE n == enc[r].secret
      <4>1. n \in Nat /\ rows'[d].payload.secret = n /\ stored'[d][Len(stored'[d])] = n
            /\ Len(stored'[d]) \in Nat \ {0} /\ told'[d] \in {told[d], n}
        BY <1>0, <2>4, <3>1, StoresFacts
      <4>2. Had(d, n)'
        BY <4>1, <1>0 DEF Had
      <4>3. Had(d, told[d]) => Had(d, told[d])'
        BY <4>1, <1>2 DEF Had
      <4> QED
        BY <2>1, <4>1, <4>2, <4>3 DEF CredInv, Had
    <3>2. CASE d # c
      <4>1. rows'[d] = rows[d] /\ stored'[d] = stored[d] /\ told'[d] = told[d]
        BY <1>0, <2>4, <3>2, StoresFacts
      <4> QED
        BY <2>1, <4>1 DEF CredInv, Had
    <3> QED
      BY <3>1, <3>2
  <2> QED
    BY <1>0, <2>2, <2>3, <2>4
<1>7. OneWriter'
  BY <1>0, <1>1 DEF IInv, OneWriter, Holds
<1>8. NewOnes'
  <2>1. ASSUME NEW s \in Requests, Kind(s) = "store", pc'[s] \in Waits
        PROVE  stored'[req[s].cred] = <<>>
    <3>1. s # r /\ pc[s] \in Waits
      BY <1>1, <2>1
    <3>2. stored[req[s].cred] = <<>> /\ req[s].cred \in Creds
      BY <2>1, <3>1 DEF IInv, NewOnes, Typed, Request
    <3>3. CASE Stores(r)
      BY <1>0, <2>1, <3>1, <3>2, <3>3, StoresFacts
    <3> QED
      BY <1>0, <3>2, <3>3 DEF Nothing, Removes
  <2> QED
    BY <1>0, <2>1 DEF IInv, NewOnes
<1>9. FreshSecrets'
  <2> SUFFICES ASSUME NEW s \in Requests, given[s] # 0
               PROVE  \E i \in 1 .. Len(stored'[req[s].cred]) :
                        /\ stored'[req[s].cred][i] = given[s]
                        /\ floor[s] # 0 => \E j \in 1 .. i : stored'[req[s].cred][j] = floor[s]
    BY <1>0 DEF FreshSecrets
  <2>1. req[s].cred \in Creds
    BY DEF IInv, CallInv, Typed, TypeOK, Request
  <2>2. PICK i \in 1 .. Len(stored[req[s].cred]) :
          /\ stored[req[s].cred][i] = given[s]
          /\ floor[s] # 0 => \E j \in 1 .. i : stored[req[s].cred][j] = floor[s]
    BY DEF IInv, FreshSecrets
  <2>3. i \in 1 .. Len(stored'[req[s].cred]) /\ stored'[req[s].cred][i] = given[s]
    BY <1>2, <2>1, <2>2
  <2>4. \A j \in 1 .. i : stored'[req[s].cred][j] = stored[req[s].cred][j]
    BY <1>2, <2>1, <2>2
  <2> QED
    BY <2>2, <2>3, <2>4
<1> QED
  BY <1>4, <1>5, <1>6, <1>7, <1>8, <1>9 DEF IInv

(* Every step keeps the invariant.                                         *)
LEMMA NextIInv == IInv /\ [Next]_vars => IInv'
<1> SUFFICES ASSUME IInv, [Next]_vars PROVE IInv'
  OBVIOUS
<1>1. Typed'
  BY NextTyped DEF IInv
<1>2. CASE UNCHANGED vars
  BY <1>2 DEF IInv, Typed, TypeOK, CallInv, WriteInv, CredInv, OneWriter, Holds, NewOnes, FreshSecrets,
    Had, Kind, Cred, vars, handler, bounds, history
<1>3. CASE Next
  <2>1. ASSUME NEW r \in Requests, Progress(r) PROVE IInv'
    BY <1>1, <2>1, QuietKeeps, StoreOrReadKeeps, ChangeKeeps, CommitKeeps, EndsKeeps DEF Progress
  <2> QED
    BY <1>1, <1>2, <1>3, <2>1, ArriveKeeps, RefuseKeeps, CommitKeeps, EndsKeeps, RestartKeeps
    DEF Next, Finished
<1> QED
  BY <1>2, <1>3

(* The invariant of the vault.                                             *)
THEOREM Invariance == Spec => []IInv
<1>1. Init => IInv
  BY InitIInv
<1> QED
  BY <1>1, NextIInv, PTL DEF Spec

(* The vault's state keeps its types.                                      *)
THEOREM TypeCorrect == Spec => []TypeOK
<1>1. IInv => TypeOK
  BY DEF IInv, Typed
<1> QED
  BY <1>1, Invariance, PTL

(* A GET answers with a secret its credential has had, and with none from  *)
(* before a rotation that was answered when the GET arrived.               *)
THEOREM FreshSecretsGiven == Spec => []FreshSecrets
<1>1. IInv => FreshSecrets
  BY DEF IInv
<1> QED
  BY <1>1, Invariance, PTL

(* Rows are changed by commits alone.                                      *)
LEMMA RowsChange ==
  ASSUME IInv, [Next]_vars, rows' # rows
  PROVE  \E r \in Requests : /\ Ended(r) /\ Cred(r) \in Creds
                             /\ Removes(r) \/ Stores(r)
<1>1. Next
  BY DEF vars
<1>2. PICK r \in Requests : Commit(r) \/ CommitReplyLost(r)
  BY <1>1 DEF Next, Progress, Finished, vars, Arrive, Refuse, Start, Store, List, Read, Rotate,
    RotationAudit, Delete, Moves, Missing, Throws, Fails, Ends, Restart
<1> QED
  BY <1>2, CommitDoes DEF Nothing

(* A deleted credential stays deleted: a rotation that had seen its row    *)
(* holds the row's lock, and an id is given to one credential only.        *)
THEOREM StaysDeleted == Spec => NoResurrection
<1> DEFINE Gone == \A c \in Creds : stored[c] # <<>> /\ rows[c] = None => rows'[c] = None
<1>1. ASSUME IInv, [Next]_vars PROVE [Gone]_vars
  <2> SUFFICES ASSUME NEW c \in Creds, stored[c] # <<>>, rows[c] = None, rows' # rows
               PROVE  rows'[c] = None
    OBVIOUS
  <2>1. PICK r \in Requests : Ended(r) /\ Cred(r) \in Creds /\ (Removes(r) \/ Stores(r))
    BY <1>1, RowsChange
  <2>2. CASE Removes(r)
    BY <1>1, <2>2 DEF Removes, IInv, Typed, TypeOK
  <2>3. CASE Stores(r)
    <3>1. c # Cred(r)
      BY <1>1, <2>1, <2>3 DEF Stores, Ended, IInv, WriteInv, NewOnes, Waits, InTx
    <3> QED
      BY <1>1, <2>1, <2>3, <3>1, StoresFacts
  <2> QED
    BY <2>1, <2>2, <2>3
<1> QED
  BY <1>1, Invariance, PTL DEF Spec, NoResurrection
=============================================================================
