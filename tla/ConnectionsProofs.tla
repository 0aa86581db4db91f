------------------------- MODULE ConnectionsProofs -------------------------
(***************************************************************************)
(* Theorems about Connections on a pool of one client, db.ts's, for any    *)
(* requests, tenants, connections and faults.                              *)
(*                                                                         *)
(* On such a pool at most one transaction is under way (Alone), so what a  *)
(* refresh has read stays what is stored until it ends, and the tokens it  *)
(* was given are newer than everything stored (Newer).  The tokens of a    *)
(* connect need not be: its refresh token is unspent or one of shared.     *)
(***************************************************************************)
EXTENDS Connections, FiniteSetTheorems, TLAPS

PoolOfOne == PoolSize = 1

Alone == \A r, s \in Running : r = s

Typed ==
  /\ TypeOK
  /\ \A r \in Requests : pc[r] \notin {"new", "answered"} => req[r] \in Request
  /\ \A r \in Requests : pc[r] = "renewed" => conns[req[r].conn] \in Row

Asks(r, kind) == req[r] # None /\ req[r].kind = kind

(* Token n is newer than all that is stored or has been spent.             *)
Newer(n) ==
  /\ n \in Nat /\ 0 < n /\ n <= issued
  /\ \A d \in Conns : conns[d] # None => conns[d].access < n /\ conns[d].refresh < n
  /\ \A t \in traded : t[1] < n

(* What r has read is what is stored, and was traded for something newer.  *)
Trading(r) ==
  LET c == req[r].conn
  IN  /\ conns[c] # None /\ conns[c].refresh = got[r].old /\ got[r].old # 0
      /\ <<got[r].old, got[r].new>> \in traded /\ Newer(got[r].new)

(* Refresh token n is of no other row, or was brought a second time.       *)
Unspent(n) == n = 0 \/ n \in shared \/ n \notin Stored \cup Spent

(* The pair a running refresh or connect has written.                      *)
NewPair(r) ==
  /\ row[r] # None /\ row[r].access \in Nat /\ row[r].refresh \in Nat
  /\ row[r].access <= issued /\ row[r].refresh <= issued
  /\ told[req[r].conn] <= row[r].access /\ Unspent(row[r].refresh)

CallInv(r) ==
  /\ req[r] # None => floor[r] <= told[req[r].conn]
  /\ pc[r] = "new" => used[r] = 0
  /\ pc[r] \notin InTx => row[r] = None
  /\ pc[r] \in {"new", "queued", "begun"} => got[r] = NoTokens
  /\ pc[r] \in {"begun", "renewed"} => row[r] = None
  /\ pc[r] \in InTx /\ got[r] # NoTokens => Asks(r, "refresh")

TxInv(r) ==
  /\ pc[r] = "renewed" => Asks(r, "refresh") /\ Trading(r)
  /\ pc[r] = "written" => Asks(r, "refresh") \/ Asks(r, "connect")
  /\ pc[r] \in {"written", "done"} /\ Asks(r, "refresh") =>
       Trading(r) /\ NewPair(r) /\ row[r].refresh = got[r].new
  /\ pc[r] \in {"written", "done"} /\ Asks(r, "connect") => NewPair(r)
  /\ pc[r] = "done" /\ row[r] # None => Asks(r, "refresh") \/ Asks(r, "connect")

ConnInv(c) ==
  /\ conns[c] = None => told[c] = 0
  /\ conns[c] # None =>
       told[c] <= conns[c].access /\ conns[c].access <= issued /\ conns[c].refresh <= issued

Distinct ==
  \A c, d \in Conns :
    conns[c] # None /\ conns[d] # None /\ c # d => 
      \/ conns[c].refresh = 0 \/ conns[c].refresh \in shared
      \/ conns[c].refresh # conns[d].refresh

OneConnect ==
  /\ \A r, s \in Requests :
       Asks(r, "connect") /\ Asks(s, "connect") /\ req[r].conn = req[s].conn => r = s
  /\ \A r \in Requests :
       Asks(r, "connect") /\ pc[r] # "answered" => conns[req[r].conn] = None

StoreInv ==
  /\ \A c \in Conns : ConnInv(c)
  /\ \A t \in traded : t[1] # 0 /\ t[1] <= issued
  /\ Distinct

IInv ==
  /\ Typed /\ Alone
  /\ \A r \in Requests : CallInv(r)
  /\ \A r \in Requests : TxInv(r)
  /\ StoreInv /\ OneConnect
  /\ SpentOnlyIfUnlucky /\ FreshTokens

-----------------------------------------------------------------------------
(***************************************************************************)
(* Types.                                                                  *)
(***************************************************************************)
(* The first state has the types.                                          *)
LEMMA InitTyped == Init => Typed
  BY ConstantsAssumption DEF Init, Typed, TypeOK, InTx, NoTokens, Row

(* Every step keeps the types, on a pool of any size.                      *)
LEMMA NextTyped == Typed /\ [Next]_vars => Typed'
<1> SUFFICES ASSUME Typed, [Next]_vars PROVE Typed'
  OBVIOUS
<1> USE ConstantsAssumption DEF Typed, TypeOK, InTx, Goes
<1>0. \A r \in Requests : pc[r] \notin {"new", "answered"} =>
        /\ req[r] \in Request /\ req[r].conn \in Conns
        /\ Sees(r) => conns[req[r].conn] \in Row
  BY DEF Request, Sees
<1>1. ASSUME NEW r \in Requests, NEW q \in Request, Arrive(r, q) PROVE Typed'
  <2>1. q.conn \in Conns
    BY DEF Request
  <2> QED
    BY <1>1, <2>1 DEF Arrive
<1>2. ASSUME NEW r \in Requests, AnswerAtOnce(r) PROVE Typed'
  BY <1>2 DEF AnswerAtOnce, history
<1>3. ASSUME NEW r \in Requests, Start(r) \/ List(r) \/ Audit(r) PROVE Typed'
  <2>1. CASE Start(r)
    BY <1>0, <2>1 DEF Start, Moves
  <2>2. CASE List(r)
    BY <1>0, <2>2 DEF List, Moves
  <2>3. CASE Audit(r)
    BY <1>0, <2>3 DEF Audit, Moves
  <2> QED
    BY <1>3, <2>1, <2>2, <2>3
<1>4. ASSUME NEW r \in Requests, Connect(r) PROVE Typed'
  <2>1. /\ pc[r] = "begun" /\ pc' = [pc EXCEPT ![r] = "written"] /\ req[r] \in Request
        /\ UNCHANGED <<conns, req, got, status, faults, traded, used, told, floor, unlucky>>
    BY <1>0, <1>4 DEF Connect
  <2>2. PICK access \in 1 .. issued + 1, refresh \in 0 .. issued + 1 :
          /\ row' = [row EXCEPT ![r] = [tenant |-> req[r].tenant, provider |-> req[r].provider,
                                        access |-> access, refresh |-> refresh]]
          /\ issued' = IF issued + 1 \in {access, refresh} THEN issued + 1 ELSE issued
          /\ shared' = shared \cup ({refresh} \cap (Stored \cup Spent))
    BY <1>4 DEF Connect
  <2>3. issued' \in Nat /\ access \in Nat /\ refresh \in Nat
    BY <2>2
  <2>6. shared' \subseteq Nat
    BY <2>2, <2>3
  <2>4. [tenant |-> req[r].tenant, provider |-> req[r].provider, access |-> access, refresh |-> refresh] \in Row
    BY <2>1, <2>3 DEF Row, Request
  <2>5. row' \in [Requests -> Row \cup {None}]
    BY <2>2, <2>4
  <2>7. TypeOK'
    BY <2>1, <2>3, <2>5, <2>6
  <2>8. \A s \in Requests : pc'[s] # pc[s] => s = r /\ pc'[s] = "written"
    BY <2>1
  <2> QED
    BY <2>1, <2>7, <2>8
<1>5. ASSUME NEW r \in Requests, Renew(r) PROVE Typed'
  BY <1>0, <1>5 DEF Renew, Moves, Row
<1>6. ASSUME NEW r \in Requests, Update(r) PROVE Typed'
  <2>1. conns[req[r].conn] \in Row
    BY <1>6 DEF Update
  <2>2. [conns[req[r].conn] EXCEPT !.access = got[r].new, !.refresh = got[r].new] \in Row
    BY <2>1 DEF Row
  <2> QED
    BY <1>0, <1>6, <2>2 DEF Update, Moves
<1>7. ASSUME NEW r \in Requests, UseToken(r) PROVE Typed'
  BY <1>0, <1>7 DEF UseToken, Moves, Row
<1>8. ASSUME NEW r \in Requests, Commit(r) \/ CommitReplyLost(r) PROVE Typed'
  <2>1. pc[r] = "done" /\ req[r].conn \in Conns
    BY <1>0, <1>8 DEF Commit, CommitReplyLost
  <2>2. conns' \in [Conns -> Row \cup {None}] /\ \A c \in Conns : conns[c] \in Row => conns'[c] \in Row
    <3>1. Committed(r)
      BY <1>8 DEF Commit, CommitReplyLost
    <3>2. CASE row[r] = None
      BY <3>1, <3>2 DEF Committed
    <3>3. CASE row[r] # None
      <4>1. conns' = [conns EXCEPT ![req[r].conn] = row[r]] /\ row[r] \in Row
        BY <3>1, <3>3 DEF Committed
      <4> QED
        BY <2>1, <4>1
    <3> QED
      BY <3>2, <3>3
  <2>3. told' \in [Conns -> Nat]
    BY <1>8, <2>1 DEF Commit, CommitReplyLost, Row
  <2>4. /\ pc' = [pc EXCEPT ![r] = "answered"] /\ row' = [row EXCEPT ![r] = None]
        /\ status' \in [Requests -> {0, 200, 201, 400, 500}] /\ faults' \in 0 .. MaxFaults
        /\ UNCHANGED <<req, got, issued, traded, used, floor, unlucky, shared>>
    BY <1>8 DEF Commit, CommitReplyLost, Answer, Fault
  <2> QED
    BY <1>0, <2>2, <2>3, <2>4
<1>9. ASSUME NEW r \in Requests, Fails(r) \/ Throws(r) PROVE Typed'
  <2>1. Wasted({r}) \subseteq Conns
    BY <1>0 DEF Wasted, Running
  <2>2. /\ pc' = [pc EXCEPT ![r] = "answered"] /\ row' = [row EXCEPT ![r] = None]
        /\ status' \in [Requests -> {0, 200, 201, 400, 500}] /\ faults' \in 0 .. MaxFaults
        /\ unlucky' \subseteq Conns
        /\ UNCHANGED <<conns, req, got, issued, traded, used, told, floor, shared>>
    <3>1. RollsBack(r)
      BY <1>9 DEF Fails, Throws
    <3>2. faults' \in 0 .. MaxFaults
      BY <1>9 DEF Fails, Throws, Fault
    <3> QED
      BY <2>1, <3>1, <3>2 DEF RollsBack, Answer
  <2> QED
    BY <1>0, <2>1, <2>2
<1>10. ASSUME Crash PROVE Typed'
  <2>1. Wasted(Requests) \subseteq Conns
    BY <1>0 DEF Wasted, Running
  <2> QED
    BY <1>10, <2>1 DEF Crash, Fault
<1>11. ASSUME UNCHANGED vars PROVE Typed'
  BY <1>11 DEF vars, handler, history
<1> QED
  BY <1>1, <1>2, <1>3, <1>4, <1>5, <1>6, <1>7, <1>8, <1>9, <1>10, <1>11
  DEF Next, Progress, Finished

-----------------------------------------------------------------------------
(***************************************************************************)
(* The invariant, action by action.                                        *)
(***************************************************************************)
(* Nothing is stored and nobody has the client.                            *)
LEMMA InitIInv == Init => IInv
<1> SUFFICES ASSUME Init PROVE IInv
  OBVIOUS
<1>1. Typed
  BY InitTyped
<1> QED
  BY <1>1 DEF Init, IInv, Alone, Running, InTx, CallInv, TxInv, StoreInv, ConnInv, Distinct,
    OneConnect, Asks, SpentOnlyIfUnlucky, FreshTokens

(* While r has the client nobody else has one.                             *)
LEMMA Solo ==
  ASSUME IInv, NEW r \in Requests, pc[r] \in InTx
  PROVE  \A s \in Requests : s # r => pc[s] \notin InTx
  BY DEF IInv, Alone, Running

(* StoreInv is about the store and the tokens there are.                   *)
LEMMA StoreSame ==
  ASSUME IInv, UNCHANGED <<conns, told, issued, traded, shared>>
  PROVE  StoreInv'
  BY DEF IInv, StoreInv, ConnInv, Distinct

(* A request that arrives knows what it was told, and nothing else.        *)
LEMMA ArriveKeeps ==
  ASSUME IInv, Typed', NEW r \in Requests, NEW q \in Request, Arrive(r, q)
  PROVE  IInv'
<1> USE DEF InTx, Running, Goes
<1>0. /\ pc[r] = "new" /\ pc' = [pc EXCEPT ![r] = "queued"] /\ req' = [req EXCEPT ![r] = q]
      /\ floor' = [floor EXCEPT ![r] = told[q.conn]]
      /\ UNCHANGED <<conns, got, row, issued, traded, used, told, unlucky, shared>>
  BY DEF Arrive
<1>1. pc \in [Requests -> InTx \cup {"new", "queued", "answered"}]
      /\ req \in [Requests -> Request \cup {None}] /\ floor \in [Requests -> Nat]
      /\ told \in [Conns -> Nat] /\ q.conn \in Conns
  BY DEF IInv, Typed, TypeOK, Request
<1>2. Running' = Running /\ r \notin Running
  BY <1>0, <1>1
<1>3. Alone'
  BY <1>2 DEF IInv, Alone
<1>4. \A s \in Requests : CallInv(s)'
  BY <1>0, <1>1 DEF IInv, CallInv, Asks
<1>5. \A s \in Requests : TxInv(s)'
  BY <1>0, <1>1 DEF IInv, TxInv, Asks, Trading, NewPair, Unspent, Stored, Spent, Newer
<1>6. StoreInv'
  BY <1>0, StoreSame
<1>7. OneConnect'
  BY <1>0, <1>1 DEF IInv, OneConnect, Asks, Arrive, Fresh
<1>8. SpentOnlyIfUnlucky'
  BY <1>0, <1>1, <1>2 DEF IInv, SpentOnlyIfUnlucky, Spent
<1>9. FreshTokens'
  BY <1>0, <1>1 DEF IInv, FreshTokens, CallInv
<1> QED
  BY <1>3, <1>4, <1>5, <1>6, <1>7, <1>8, <1>9 DEF IInv

(* One that is answered at once never has the client.                      *)
LEMMA AnswerAtOnceKeeps ==
  ASSUME IInv, Typed', NEW r \in Requests, AnswerAtOnce(r)
  PROVE  IInv'
<1> USE DEF InTx, Running, Goes
<1>0. /\ pc[r] = "new" /\ pc' = [pc EXCEPT ![r] = "answered"]
      /\ UNCHANGED <<conns, req, got, row, issued, traded, used, told, floor, unlucky, shared>>
  BY DEF AnswerAtOnce, history
<1>1. pc \in [Requests -> InTx \cup {"new", "queued", "answered"}]
  BY DEF IInv, Typed, TypeOK
<1>2. Running' = Running
  BY <1>0, <1>1
<1>3. Alone'
  BY <1>2 DEF IInv, Alone
<1>4. \A s \in Requests : CallInv(s)'
  BY <1>0, <1>1 DEF IInv, CallInv, Asks
<1>5. \A s \in Requests : TxInv(s)'
  BY <1>0, <1>1 DEF IInv, TxInv, Asks, Trading, NewPair, Unspent, Stored, Spent, Newer
<1>6. StoreInv'
  BY <1>0, StoreSame
<1>7. OneConnect'
  BY <1>0, <1>1 DEF IInv, OneConnect, Asks
<1>8. SpentOnlyIfUnlucky'
  BY <1>0, <1>2 DEF IInv, SpentOnlyIfUnlucky, Spent
<1>9. FreshTokens'
  BY <1>0 DEF IInv, FreshTokens
<1> QED
  BY <1>3, <1>4, <1>5, <1>6, <1>7, <1>8, <1>9 DEF IInv

(* The pool has a client to give only if nobody has one.                   *)
LEMMA StartKeeps ==
  ASSUME IInv, Typed', PoolOfOne, NEW r \in Requests, Start(r)
  PROVE  IInv'
<1> USE DEF InTx, Goes
<1>0. /\ pc[r] = "queued" /\ pc' = [pc EXCEPT ![r] = "begun"]
      /\ UNCHANGED <<conns, req, got, row, issued, traded, used, told, floor, unlucky, shared>>
  BY DEF Start, Moves
<1>1. pc \in [Requests -> InTx \cup {"new", "queued", "answered"}]
  BY DEF IInv, Typed, TypeOK
<1>2. Running = {}
  <2>1. CASE \E s \in Running : TRUE
    <3>1. PICK s \in Running : TRUE
      BY <2>1
    <3>2. Running = {s}
      BY <3>1 DEF IInv, Alone
    <3>3. Cardinality(Running) = 1
      BY <3>2, FS_Singleton
    <3> QED
      BY <3>3 DEF Start, PoolOfOne
  <2> QED
    BY <2>1
<1>3. Running' = {r}
  BY <1>0, <1>1, <1>2 DEF Running
<1>4. Alone'
  BY <1>3 DEF Alone
<1>5. \A s \in Requests : CallInv(s)'
  BY <1>0, <1>1 DEF IInv, CallInv, Asks
<1>6. \A s \in Requests : TxInv(s)'
  BY <1>0, <1>1, <1>2 DEF TxInv, Running
<1>7. StoreInv'
  BY <1>0, StoreSame
<1>8. OneConnect'
  BY <1>0, <1>1 DEF IInv, OneConnect, Asks
<1>9. SpentOnlyIfUnlucky'
  BY <1>0, <1>2 DEF IInv, SpentOnlyIfUnlucky, Spent
<1>10. FreshTokens'
  BY <1>0 DEF IInv, FreshTokens
<1> QED
  BY <1>4, <1>5, <1>6, <1>7, <1>8, <1>9, <1>10 DEF IInv

(* A step from one place in the transaction to another.                    *)
LEMMA Stays ==
  ASSUME IInv, NEW r \in Requests, pc[r] \in InTx,
         NEW place \in InTx, pc' = [pc EXCEPT ![r] = place]
  PROVE  /\ Running' = Running /\ Alone' /\ pc'[r] = place
         /\ \A s \in Requests : s # r => pc'[s] = pc[s] /\ pc[s] \notin InTx
<1>1. pc \in [Requests -> InTx \cup {"new", "queued", "answered"}]
  BY DEF IInv, Typed, TypeOK
<1>2. Running' = Running /\ pc'[r] = place /\ \A s \in Requests : s # r => pc'[s] = pc[s]
  BY <1>1 DEF Running
<1>3. Alone'
  BY <1>2 DEF IInv, Alone
<1> QED
  BY <1>2, <1>3, Solo

(* A request that has arrived asks for something.                          *)
LEMMA Called ==
  ASSUME IInv, NEW r \in Requests, pc[r] \notin {"new", "answered"}
  PROVE  req[r] \in Request /\ req[r] # None /\ req[r].conn \in Conns
  BY ConstantsAssumption DEF IInv, Typed, Request

(* Reads change nothing but what the connector has used.                   *)
LEMMA ReadKeeps ==
  ASSUME IInv, Typed', NEW r \in Requests, List(r) \/ UseToken(r)
  PROVE  IInv'
<1> DEFINE c == req[r].conn
<1>0. /\ pc[r] = "begun" /\ pc' = [pc EXCEPT ![r] = "done"]
      /\ req[r].kind \in {"list", "connector"}
      /\ UNCHANGED <<conns, req, got, row, issued, traded, told, floor, unlucky, shared>>
  BY DEF List, UseToken, Moves, Goes
<1>1. req[r] # None /\ c \in Conns
  BY <1>0, Called
<1>2. /\ Running' = Running /\ Alone' /\ pc'[r] = "done"
      /\ \A s \in Requests : s # r => pc'[s] = pc[s] /\ pc[s] \notin InTx
  BY <1>0, Stays DEF InTx
<1>3. used \in [Requests -> Nat] /\ \A s \in Requests : s # r => used'[s] = used[s]
  BY DEF List, UseToken, IInv, Typed, TypeOK
<1>4. \A s \in Requests : CallInv(s)'
  BY <1>0, <1>2, <1>3 DEF IInv, CallInv, Asks, InTx
<1>5. \A s \in Requests : TxInv(s)'
  <2>1. TxInv(r)'
    BY <1>0, <1>2 DEF IInv, CallInv, TxInv, Asks
  <2>2. \A s \in Requests : s # r => TxInv(s)'
    BY <1>2 DEF TxInv, InTx
  <2> QED
    BY <2>1, <2>2
<1>6. StoreInv'
  BY <1>0, StoreSame
<1>7. OneConnect'
  BY <1>0, <1>2 DEF IInv, OneConnect, Asks
<1>8. SpentOnlyIfUnlucky'
  BY <1>0, <1>2 DEF IInv, SpentOnlyIfUnlucky, Spent
<1>9. used'[r] # 0 => used'[r] >= floor[r]
  <2>1. CASE List(r)
    BY <2>1 DEF List, IInv, FreshTokens
  <2>2. CASE UseToken(r)
    <3>1. conns[c] # None /\ used'[r] = conns[c].access
      BY <1>3, <2>2 DEF UseToken, Sees
    <3>2. floor[r] <= told[c] /\ told[c] <= conns[c].access
      BY <1>1, <3>1 DEF IInv, CallInv, StoreInv, ConnInv
    <3>3. floor[r] \in Nat /\ told[c] \in Nat /\ conns[c].access \in Nat
      BY <1>1, <3>1 DEF IInv, Typed, TypeOK, Row
    <3> QED
      BY <3>1, <3>2, <3>3
  <2> QED
    BY <2>1, <2>2
<1>10. FreshTokens'
  BY <1>0, <1>3, <1>9 DEF IInv, FreshTokens
<1> QED
  BY <1>2, <1>4, <1>5, <1>6, <1>7, <1>8, <1>10 DEF IInv

(* The audit row is no part of what the invariant is about.                *)
LEMMA AuditKeeps ==
  ASSUME IInv, Typed', NEW r \in Requests, Audit(r)
  PROVE  IInv'
<1>0. /\ pc[r] = "written" /\ pc' = [pc EXCEPT ![r] = "done"]
      /\ UNCHANGED <<conns, req, got, row, issued, traded, used, told, floor, unlucky, shared>>
  BY DEF Audit, Moves, Goes
<1>1. req[r] # None
  BY <1>0, Called
<1>2. /\ Running' = Running /\ Alone' /\ pc'[r] = "done"
      /\ \A s \in Requests : s # r => pc'[s] = pc[s] /\ pc[s] \notin InTx
  BY <1>0, Stays DEF InTx
<1>4. \A s \in Requests : CallInv(s)'
  BY <1>0, <1>2 DEF IInv, CallInv, Asks, InTx
<1>5. \A s \in Requests : TxInv(s)'
  <2>1. TxInv(r)'
    BY <1>0, <1>2 DEF IInv, TxInv, Asks, Trading, NewPair, Unspent, Stored, Spent, Newer
  <2>2. \A s \in Requests : s # r => TxInv(s)'
    BY <1>2 DEF TxInv, InTx
  <2> QED
    BY <2>1, <2>2
<1>6. StoreInv'
  BY <1>0, StoreSame
<1>7. OneConnect'
  BY <1>0, <1>2 DEF IInv, OneConnect, Asks
<1>8. SpentOnlyIfUnlucky'
  BY <1>0, <1>2 DEF IInv, SpentOnlyIfUnlucky, Spent
<1>9. FreshTokens'
  BY <1>0 DEF IInv, FreshTokens
<1> QED
  BY <1>2, <1>4, <1>5, <1>6, <1>7, <1>8, <1>9 DEF IInv

(* New tokens are above everything; what is stored stays what it is.       *)
LEMMA StoreIssued ==
  ASSUME IInv, UNCHANGED <<conns, told>>, issued' \in {issued, issued + 1}, shared \subseteq shared',
         \A t \in traded' : t \in traded \/ (t[1] \in Nat \ {0} /\ t[1] <= issued)
  PROVE  StoreInv'
<1>1. issued \in Nat /\ traded \subseteq Nat \X Nat /\ conns \in [Conns -> Row \cup {None}]
  BY DEF IInv, Typed, TypeOK
<1>2. \A c \in Conns : conns[c] # None => conns[c].access \in Nat /\ conns[c].refresh \in Nat
  BY <1>1 DEF Row
<1>3. \A c \in Conns : ConnInv(c)'
  BY <1>1, <1>2 DEF IInv, StoreInv, ConnInv
<1>4. \A t \in traded : t[1] \in Nat /\ t[1] # 0 /\ t[1] <= issued
  BY <1>1 DEF IInv, StoreInv
<1>5. \A t \in traded' : t[1] # 0 /\ t[1] <= issued'
  <2> TAKE t \in traded'
  <2>1. CASE t \in traded
    BY <1>1, <1>4, <2>1
  <2>2. CASE t[1] \in Nat \ {0} /\ t[1] <= issued
    BY <1>1, <2>2
  <2> QED
    BY <2>1, <2>2
<1>6. Distinct'
  BY DEF IInv, StoreInv, Distinct
<1> QED
  BY <1>3, <1>5, <1>6 DEF StoreInv

(* The next token is newer than everything.                                *)
LEMMA IssuedIsNewer ==
  ASSUME IInv PROVE
    /\ issued + 1 \in Nat
    /\ \A d \in Conns : conns[d] # None => conns[d].access < issued + 1 /\ conns[d].refresh < issued + 1
    /\ \A t \in traded : t[1] < issued + 1
<1>1. issued \in Nat /\ traded \subseteq Nat \X Nat /\ conns \in [Conns -> Row \cup {None}]
  BY DEF IInv, Typed, TypeOK
<1>2. \A c \in Conns : conns[c] # None => conns[c].access \in Nat /\ conns[c].refresh \in Nat
  BY <1>1 DEF Row
<1>3. \A t \in traded : t[1] \in Nat
  BY <1>1
<1> QED
  BY <1>1, <1>2, <1>3 DEF IInv, StoreInv, ConnInv

(* The caller's tokens, new ones or old ones.                              *)
LEMMA ConnectKeeps ==
  ASSUME IInv, Typed', NEW r \in Requests, Connect(r)
  PROVE  IInv'
<1>0. /\ pc[r] = "begun" /\ pc' = [pc EXCEPT ![r] = "written"]
      /\ req[r].kind = "connect"
      /\ UNCHANGED <<conns, req, got, traded, used, told, floor, unlucky>>
  BY DEF Connect, Goes
<1>1. /\ req[r] # None /\ req[r] \in Request /\ req[r].conn \in Conns
      /\ row \in [Requests -> Row \cup {None}] /\ issued \in Nat
  BY <1>0, Called DEF IInv, Typed, TypeOK
<1>2. /\ Running' = Running /\ Alone' /\ pc'[r] = "written"
      /\ \A s \in Requests : s # r => pc'[s] = pc[s] /\ pc[s] \notin InTx
  BY <1>0, Stays DEF InTx
<1>3. PICK access \in 1 .. issued + 1, refresh \in 0 .. issued + 1 :
        /\ row' = [row EXCEPT ![r] = [tenant |-> req[r].tenant, provider |-> req[r].provider,
                                      access |-> access, refresh |-> refresh]]
        /\ issued' = IF issued + 1 \in {access, refresh} THEN issued + 1 ELSE issued
        /\ shared' = shared \cup ({refresh} \cap (Stored \cup Spent))
  BY DEF Connect
<1>4. /\ row'[r] = [tenant |-> req[r].tenant, provider |-> req[r].provider,
                    access |-> access, refresh |-> refresh]
      /\ \A s \in Requests : s # r => row'[s] = row[s]
  BY <1>1, <1>3
<1>5. /\ row'[r] # None /\ row'[r].access = access /\ row'[r].refresh = refresh
      /\ access \in Nat /\ refresh \in Nat /\ access <= issued' /\ refresh <= issued'
  <2>1. row'[r] \in Row
    BY <1>1, <1>4 DEF Row, Request
  <2>2. access \in Nat /\ refresh \in Nat /\ access <= issued' /\ refresh <= issued'
    BY <1>1, <1>3
  <2> QED
    BY <1>4, <2>1, <2>2, ConstantsAssumption
<1>6. \A s \in Requests : CallInv(s)'
  BY <1>0, <1>2, <1>4 DEF IInv, CallInv, Asks, InTx
<1>7. \A s \in Requests : TxInv(s)'
  <2>1. told[req[r].conn] = 0
    BY <1>0, <1>1 DEF IInv, OneConnect, Asks, StoreInv, ConnInv
  <2>2. Unspent(refresh)'
    BY <1>0, <1>3 DEF Unspent, Stored, Spent
  <2>3. NewPair(r)'
    BY <1>0, <1>5, <2>1, <2>2 DEF NewPair, Unspent
  <2>4. TxInv(r)'
    BY <1>0, <1>1, <1>2, <2>3 DEF TxInv, Asks
  <2>5. \A s \in Requests : s # r => TxInv(s)'
    BY <1>2 DEF TxInv, InTx
  <2> QED
    BY <2>4, <2>5
<1>8. StoreInv'
  BY <1>0, <1>3, StoreIssued
<1>9. OneConnect'
  BY <1>0, <1>2 DEF IInv, OneConnect, Asks
<1>10. SpentOnlyIfUnlucky'
  BY <1>0, <1>2, <1>3 DEF IInv, SpentOnlyIfUnlucky, Spent
<1>11. FreshTokens'
  BY <1>0 DEF IInv, FreshTokens
<1> QED
  BY <1>2, <1>6, <1>7, <1>8, <1>9, <1>10, <1>11 DEF IInv

(* The stored refresh token is spent, by a refresh that is under way.      *)
LEMMA RenewKeeps ==
  ASSUME IInv, Typed', NEW r \in Requests, Renew(r)
  PROVE  IInv'
<1> DEFINE c == req[r].conn
           old == conns[c].refresh
<1>0. /\ pc[r] = "begun" /\ pc' = [pc EXCEPT ![r] = "renewed"] /\ issued' = issued + 1
      /\ req[r].kind = "refresh" /\ conns[c] # None /\ old # 0
      /\ got' = [got EXCEPT ![r] = [old |-> old, new |-> issued']]
      /\ traded' = traded \cup {<<old, issued'>>}
      /\ UNCHANGED <<conns, req, row, used, told, floor, unlucky, shared>>
  BY DEF Renew, Moves, Goes, Sees
<1>1. /\ req[r] # None /\ c \in Conns /\ got \in [Requests -> [old : Nat, new : Nat]]
      /\ old \in Nat /\ old <= issued
  BY <1>0, Called DEF IInv, Typed, TypeOK, StoreInv, ConnInv, Row
<1>2. /\ Running' = Running /\ Alone' /\ pc'[r] = "renewed" /\ r \in Running
      /\ \A s \in Requests : s # r => pc'[s] = pc[s] /\ pc[s] \notin InTx
  BY <1>0, Stays DEF InTx, Running
<1>3. got'[r] = [old |-> old, new |-> issued'] /\ \A s \in Requests : s # r => got'[s] = got[s]
  BY <1>0, <1>1
<1>4. issued \in Nat /\ issued' \in Nat
  BY <1>0 DEF IInv, Typed, TypeOK
<1>n. PICK n \in Nat : n = issued'
  BY <1>4
<1>5. Newer(n)'
  BY <1>0, <1>1, <1>4, <1>n, IssuedIsNewer DEF Newer
<1>6. \A s \in Requests : CallInv(s)'
  BY <1>0, <1>1, <1>2, <1>3 DEF IInv, CallInv, Asks, InTx
<1>7. \A s \in Requests : TxInv(s)'
  <2>1. Trading(r)'
    BY <1>0, <1>3, <1>n, <1>5 DEF Trading
  <2>2. TxInv(r)'
    BY <1>0, <1>1, <1>2, <2>1 DEF TxInv, Asks
  <2>3. \A s \in Requests : s # r => TxInv(s)'
    BY <1>2 DEF TxInv, InTx
  <2> QED
    BY <2>2, <2>3
<1>8. StoreInv'
  BY <1>0, <1>1, StoreIssued
<1>9. OneConnect'
  BY <1>0, <1>2 DEF IInv, OneConnect, Asks
<1>10. SpentOnlyIfUnlucky'
  <2> SUFFICES ASSUME NEW d \in Conns, conns[d] # None, NEW t \in traded', t[1] = conns[d].refresh,
                      conns[d].refresh \notin shared
               PROVE  d \in unlucky \/ \E s \in Running : req[s].conn = d /\ got'[s].old = conns[d].refresh
    BY <1>0, <1>2 DEF SpentOnlyIfUnlucky, Spent
  <2>1. CASE d = c
    BY <1>2, <1>3, <2>1
  <2>2. CASE d # c
    <3>1. old # conns[d].refresh
      BY <1>0, <1>1, <2>2 DEF IInv, StoreInv, Distinct
    <3>2. t \in traded
      BY <1>0, <3>1
    <3>3. d \in unlucky \/ \E s \in Running : req[s].conn = d /\ got[s].old = conns[d].refresh
      BY <3>2 DEF IInv, SpentOnlyIfUnlucky, Spent
    <3> QED
      BY <1>3, <2>2, <3>3 DEF Running
  <2> QED
    BY <2>1, <2>2
<1>11. FreshTokens'
  BY <1>0 DEF IInv, FreshTokens
<1> QED
  BY <1>2, <1>6, <1>7, <1>8, <1>9, <1>10, <1>11 DEF IInv

(* What is newer than everything is nowhere yet.                           *)
LEMMA NewerUnspent ==
  ASSUME IInv, NEW n, Newer(n)
  PROVE  n \notin Stored \cup Spent /\ \A c \in Conns : told[c] <= n
<1>1. /\ conns \in [Conns -> Row \cup {None}] /\ told \in [Conns -> Nat]
      /\ traded \subseteq Nat \X Nat /\ n \in Nat
  BY DEF IInv, Typed, TypeOK, Newer
<1>2. \A c \in Conns : conns[c] # None => conns[c].access \in Nat /\ conns[c].refresh \in Nat
  BY <1>1 DEF Row
<1>3. n \notin Stored
  BY <1>1, <1>2 DEF Newer, Stored
<1>4. n \notin Spent
  BY <1>1 DEF Newer, Spent
<1>5. ASSUME NEW c \in Conns PROVE told[c] <= n
  <2>1. told[c] \in Nat /\ (conns[c] = None => told[c] = 0)
    BY <1>1 DEF IInv, StoreInv, ConnInv
  <2>2. CASE conns[c] # None
    BY <1>1, <1>2, <2>1, <2>2 DEF IInv, StoreInv, ConnInv, Newer
  <2> QED
    BY <1>1, <2>1, <2>2
<1> QED
  BY <1>3, <1>4, <1>5

(* The pair is written over the token it was traded for.                   *)
LEMMA UpdateKeeps ==
  ASSUME IInv, Typed', NEW r \in Requests, Update(r)
  PROVE  IInv'
<1> DEFINE c == req[r].conn
<1>0. /\ pc[r] = "renewed" /\ pc' = [pc EXCEPT ![r] = "written"]
      /\ row' = [row EXCEPT ![r] = [conns[c] EXCEPT !.access = got[r].new, !.refresh = got[r].new]]
      /\ UNCHANGED <<conns, req, got, issued, traded, used, told, floor, unlucky, shared>>
  BY DEF Update, Moves, Goes
<1>1. /\ req[r] # None /\ c \in Conns /\ row \in [Requests -> Row \cup {None}]
      /\ Asks(r, "refresh") /\ Trading(r)
  BY <1>0, Called DEF IInv, Typed, TypeOK, TxInv
<1>2. /\ Running' = Running /\ Alone' /\ pc'[r] = "written"
      /\ \A s \in Requests : s # r => pc'[s] = pc[s] /\ pc[s] \notin InTx
  BY <1>0, Stays DEF InTx
<1>3. /\ row'[r] = [conns[c] EXCEPT !.access = got[r].new, !.refresh = got[r].new]
      /\ \A s \in Requests : s # r => row'[s] = row[s]
  BY <1>0, <1>1
<1>4. conns[c] \in Row
  BY <1>1 DEF Trading, IInv, Typed, TypeOK
<1>5. row'[r].access = got[r].new /\ row'[r].refresh = got[r].new /\ row'[r] # None
  <2>1. row'[r] \in Row /\ row'[r].access = got[r].new /\ row'[r].refresh = got[r].new
    BY <1>0, <1>3, <1>4 DEF Row, IInv, Typed, TypeOK
  <2> QED
    BY <2>1, ConstantsAssumption
<1>6. \A s \in Requests : CallInv(s)'
  BY <1>0, <1>2, <1>3 DEF IInv, CallInv, Asks, InTx
<1>7. \A s \in Requests : TxInv(s)'
  <2>1. Trading(r)' /\ Newer(got[r].new)
    BY <1>0, <1>1 DEF Trading, Newer
  <2>2. NewPair(r)'
    <3>1. got[r].new \notin Stored \cup Spent
      BY <2>1, NewerUnspent
    <3>2. told[c] <= got[r].new
      BY <1>1, <2>1, NewerUnspent
    <3> QED
      BY <1>0, <1>5, <2>1, <3>1, <3>2 DEF NewPair, Unspent, Newer, Stored, Spent
  <2>3. TxInv(r)'
    BY <1>0, <1>1, <1>2, <1>5, <2>1, <2>2 DEF TxInv, Asks
  <2>4. \A s \in Requests : s # r => TxInv(s)'
    BY <1>2 DEF TxInv, InTx
  <2> QED
    BY <2>3, <2>4
<1>8. StoreInv'
  BY <1>0, StoreSame
<1>9. OneConnect'
  BY <1>0, <1>2 DEF IInv, OneConnect, Asks
<1>10. SpentOnlyIfUnlucky'
  BY <1>0, <1>2 DEF IInv, SpentOnlyIfUnlucky, Spent
<1>11. FreshTokens'
  BY <1>0 DEF IInv, FreshTokens
<1> QED
  BY <1>2, <1>6, <1>7, <1>8, <1>9, <1>10, <1>11 DEF IInv

(* Whoever has the client gives it back, and nobody has it then.           *)
LEMMA GoesOut ==
  ASSUME IInv, NEW r \in Requests, pc[r] \in InTx, pc' = [pc EXCEPT ![r] = "answered"]
  PROVE  /\ Running = {r} /\ Running' = {} /\ Alone' /\ pc'[r] = "answered"
         /\ \A s \in Requests : s # r => pc'[s] = pc[s]
         /\ \A s \in Requests : pc'[s] \notin InTx
         /\ \A s \in Requests : TxInv(s)'
<1>1. pc \in [Requests -> InTx \cup {"new", "queued", "answered"}]
  BY DEF IInv, Typed, TypeOK
<1>2. /\ pc'[r] = "answered" /\ \A s \in Requests : s # r => pc'[s] = pc[s]
      /\ \A s \in Requests : pc'[s] \notin InTx
  BY <1>1, Solo DEF InTx
<1>3. Running = {r} /\ Running' = {}
  BY <1>2, Solo DEF Running
<1>4. Alone'
  BY <1>3 DEF Alone
<1>5. \A s \in Requests : TxInv(s)'
  BY <1>2 DEF TxInv, InTx
<1> QED
  BY <1>2, <1>3, <1>4, <1>5

(* What a commit does: nothing, or the next pair of one connection.        *)
Stores(r) ==
  /\ row[r] # None /\ NewPair(r) /\ (Asks(r, "refresh") \/ Asks(r, "connect"))
  /\ conns' = [conns EXCEPT ![req[r].conn] = row[r]]
  /\ told' = told \/ told' = [told EXCEPT ![req[r].conn] = row[r].access]
  /\ Asks(r, "refresh") => Trading(r) /\ row[r].refresh = got[r].new

Ended(r) ==
  /\ pc[r] = "done" /\ pc' = [pc EXCEPT ![r] = "answered"] /\ row' = [row EXCEPT ![r] = None]
  /\ UNCHANGED <<req, got, issued, traded, used, floor, unlucky, shared>>

(* A commit ends the transaction, and stores the pair it has written.      *)
LEMMA CommitStores ==
  ASSUME IInv, NEW r \in Requests, Commit(r) \/ CommitReplyLost(r)
  PROVE  /\ Ended(r)
         /\ Stores(r) \/ (row[r] = None /\ ~Asks(r, "refresh") /\ UNCHANGED <<conns, told>>)
<1>1. Ended(r)
  BY DEF Commit, CommitReplyLost, Answer, Goes, Ended
<1>2. CASE row[r] = None
  BY <1>1, <1>2 DEF Commit, CommitReplyLost, Committed, IInv, TxInv, NewPair, Ended
<1>3. CASE row[r] # None
  <2>1. Asks(r, "refresh") \/ Asks(r, "connect")
    BY <1>1, <1>3 DEF IInv, TxInv, Ended
  <2>2. NewPair(r) /\ (Asks(r, "refresh") => Trading(r) /\ row[r].refresh = got[r].new)
    BY <1>1, <2>1 DEF IInv, TxInv, Ended
  <2>3. /\ conns' = [conns EXCEPT ![req[r].conn] = row[r]]
        /\ told' = told \/ told' = [told EXCEPT ![req[r].conn] = row[r].access]
    BY <1>3 DEF Commit, CommitReplyLost, Committed
  <2> QED
    BY <1>1, <1>3, <2>1, <2>2, <2>3 DEF Stores
<1> QED
  BY <1>2, <1>3

(* Of one connection what is stored only gets newer, and so does what      *)
(* anyone was told.                                                        *)
LEMMA StoresNewer ==
  ASSUME IInv, Typed', NEW r \in Requests, Ended(r), Stores(r)
  PROVE  LET c == req[r].conn
             n == row[r].access
         IN  /\ c \in Conns /\ n \in Nat /\ n <= issued /\ row[r].refresh <= issued
             /\ conns'[c] = row[r] /\ conns'[c] # None /\ Unspent(row[r].refresh)
             /\ \A d \in Conns : d # c => conns'[d] = conns[d] /\ told'[d] = told[d]
             /\ \A d \in Conns : told[d] <= told'[d]
             /\ told'[c] <= n
<1> DEFINE c == req[r].conn
           n == row[r].access
<1>1. /\ c \in Conns /\ row[r] # None /\ n \in Nat /\ n <= issued /\ row[r].refresh <= issued
      /\ told[c] <= n /\ Unspent(row[r].refresh)
  BY Called DEF Ended, Stores, NewPair
<1>2. /\ conns \in [Conns -> Row \cup {None}] /\ told \in [Conns -> Nat]
  BY DEF IInv, Typed, TypeOK
<1>3. conns' = [conns EXCEPT ![c] = row[r]] /\ (told' = told \/ told' = [told EXCEPT ![c] = n])
  BY DEF Stores
<1>4. conns'[c] = row[r] /\ \A d \in Conns : d # c => conns'[d] = conns[d] /\ told'[d] = told[d]
  BY <1>1, <1>2, <1>3
<1>5. /\ \A d \in Conns : told[d] <= told'[d]
      /\ told'[c] <= n
  BY <1>1, <1>2, <1>3
<1> QED
  BY <1>1, <1>4, <1>5

(* A commit that stores a pair.                                            *)
LEMMA StoresKeeps ==
  ASSUME IInv, Typed', NEW r \in Requests, Ended(r), Stores(r)
  PROVE  StoreInv' /\ OneConnect' /\ SpentOnlyIfUnlucky'
<1> DEFINE c == req[r].conn
           n == row[r].access
<1>0. /\ UNCHANGED <<req, got, issued, traded, used, floor, unlucky, shared>>
      /\ pc[r] \in InTx /\ pc' = [pc EXCEPT ![r] = "answered"]
      /\ Asks(r, "refresh") \/ Asks(r, "connect")
      /\ Asks(r, "refresh") => conns[c] # None
  BY DEF Ended, Stores, InTx, Trading
<1>1. /\ c \in Conns /\ n \in Nat /\ n <= issued /\ row[r].refresh <= issued
      /\ conns'[c] = row[r] /\ row[r].access = n
      /\ \A d \in Conns : d # c => conns'[d] = conns[d] /\ told'[d] = told[d]
      /\ told'[c] <= n
  BY StoresNewer
<1>2. Unspent(row[r].refresh) /\ conns'[c] # None
  BY StoresNewer
<1>3. /\ Running = {r} /\ Running' = {} /\ pc'[r] = "answered"
      /\ \A s \in Requests : s # r => pc'[s] = pc[s]
  BY <1>0, GoesOut
<1>4. /\ issued \in Nat /\ traded \subseteq Nat \X Nat
      /\ \A d \in Conns : conns[d] # None => conns[d].refresh \in Nat
  BY DEF IInv, Typed, TypeOK, Row
<1>5. \A d \in Conns : ConnInv(d)'
  <2>1. ASSUME NEW d \in Conns, d = c PROVE ConnInv(d)'
    BY <1>0, <1>1, <1>2, <1>4, <2>1 DEF ConnInv
  <2>2. ASSUME NEW d \in Conns, d # c PROVE ConnInv(d)'
    BY <1>0, <1>1, <2>2 DEF IInv, StoreInv, ConnInv
  <2> QED
    BY <2>1, <2>2
<1>6. Distinct'
  <2>1. \A d \in Conns : conns[d] # None /\ conns[d].refresh = row[r].refresh =>
          row[r].refresh = 0 \/ row[r].refresh \in shared
    BY <1>2 DEF Unspent, Stored
  <2> QED
    BY <1>0, <1>1, <2>1 DEF IInv, StoreInv, Distinct
<1>7. StoreInv'
  BY <1>0, <1>5, <1>6 DEF IInv, StoreInv
<1>8. OneConnect'
  <2>1. ASSUME NEW s \in Requests, Asks(s, "connect"), pc'[s] # "answered"
        PROVE  conns'[req[s].conn] = None
    <3>1. s # r /\ pc[s] # "answered"
      BY <1>3, <2>1
    <3>2. conns[req[s].conn] = None
      BY <2>1, <3>1 DEF IInv, OneConnect
    <3>3. req[s].conn # c
      BY <1>0, <2>1, <3>1, <3>2 DEF IInv, OneConnect
    <3>4. req[s].conn \in Conns
      BY <2>1 DEF Asks, IInv, Typed, TypeOK, Request
    <3> QED
      BY <1>1, <3>2, <3>3, <3>4
  <2> QED
    BY <1>0, <2>1 DEF IInv, OneConnect, Asks
<1>9. SpentOnlyIfUnlucky'
  <2> SUFFICES ASSUME NEW d \in Conns, conns'[d] # None, NEW t \in traded, t[1] = conns'[d].refresh
               PROVE  d \in unlucky \/ conns'[d].refresh \in shared
    BY <1>0, <1>3 DEF SpentOnlyIfUnlucky, Spent
  <2>1. CASE d = c
    <3>1. t[1] # 0
      BY DEF IInv, StoreInv
    <3> QED
      BY <1>1, <1>2, <2>1, <3>1 DEF Unspent, Spent
  <2>2. CASE d # c
    BY <1>1, <1>3, <2>2 DEF IInv, SpentOnlyIfUnlucky, Spent
  <2> QED
    BY <2>1, <2>2
<1> QED
  BY <1>7, <1>8, <1>9

(* A transaction that wrote nothing commits nothing.                       *)
LEMMA StoresNothingKeeps ==
  ASSUME IInv, Typed', NEW r \in Requests, Ended(r),
         ~Asks(r, "refresh"), UNCHANGED <<conns, told>>
  PROVE  StoreInv' /\ OneConnect' /\ SpentOnlyIfUnlucky'
<1>0. /\ UNCHANGED <<req, got, issued, traded, used, floor, unlucky, shared>>
      /\ pc[r] \in InTx /\ pc' = [pc EXCEPT ![r] = "answered"]
  BY DEF Ended, InTx
<1>1. /\ Running = {r} /\ Running' = {} /\ pc'[r] = "answered"
      /\ \A s \in Requests : s # r => pc'[s] = pc[s]
  BY <1>0, GoesOut
<1>2. StoreInv'
  BY <1>0, StoreSame
<1>3. OneConnect'
  BY <1>0, <1>1 DEF IInv, OneConnect, Asks
<1>4. got[r].old = 0
  BY <1>0 DEF IInv, CallInv, NoTokens
<1>5. SpentOnlyIfUnlucky'
  BY <1>0, <1>1, <1>4 DEF IInv, StoreInv, SpentOnlyIfUnlucky, Spent
<1> QED
  BY <1>2, <1>3, <1>5

(* COMMIT, answered or not.                                                *)
LEMMA CommitKeeps ==
  ASSUME IInv, Typed', NEW r \in Requests, Commit(r) \/ CommitReplyLost(r)
  PROVE  IInv'
<1>0. /\ Ended(r) /\ pc[r] \in InTx /\ pc' = [pc EXCEPT ![r] = "answered"]
      /\ UNCHANGED <<req, got, issued, traded, used, floor, unlucky, shared>>
  BY CommitStores DEF Ended, InTx
<1>1. /\ Alone' /\ pc'[r] = "answered" /\ \A s \in Requests : s # r => pc'[s] = pc[s]
      /\ \A s \in Requests : pc'[s] \notin InTx
      /\ \A s \in Requests : TxInv(s)'
  BY <1>0, GoesOut
<1>2. \A d \in Conns : told[d] <= told'[d]
  <2>1. CASE Stores(r)
    BY <1>0, <2>1, StoresNewer
  <2>2. CASE UNCHANGED told
    BY <2>2 DEF IInv, Typed, TypeOK
  <2> QED
    BY <2>1, <2>2, CommitStores
<1>3. \A s \in Requests : row'[s] = None
  BY <1>0, <1>1 DEF Ended, IInv, Typed, TypeOK, CallInv
<1>4. \A s \in Requests : CallInv(s)'
  <2> TAKE s \in Requests
  <2>1. ASSUME req[s] # None PROVE floor[s] <= told'[req[s].conn]
    <3>1. req[s].conn \in Conns /\ floor[s] \in Nat
      BY <2>1 DEF IInv, Typed, TypeOK, Request
    <3>2. floor[s] <= told[req[s].conn] /\ told[req[s].conn] <= told'[req[s].conn]
      BY <1>2, <2>1, <3>1 DEF IInv, CallInv
    <3>3. told[req[s].conn] \in Nat /\ told'[req[s].conn] \in Nat
      BY <3>1 DEF IInv, Typed, TypeOK
    <3> QED
      BY <3>1, <3>2, <3>3
  <2> QED
    BY <1>0, <1>1, <1>3, <2>1 DEF IInv, CallInv, InTx
<1>5. StoreInv' /\ OneConnect' /\ SpentOnlyIfUnlucky'
  BY <1>0, CommitStores, StoresKeeps, StoresNothingKeeps
<1>6. FreshTokens'
  BY <1>0 DEF IInv, FreshTokens
<1> QED
  BY <1>1, <1>4, <1>5, <1>6 DEF IInv

(* What failed after the provider answered is written down as unlucky.     *)
LEMMA LuckyNoMore ==
  ASSUME IInv, NEW R, NEW c \in Conns, NEW r \in Running \cap R,
         req[r].conn = c, got[r].old = conns[c].refresh, NEW t \in traded, t[1] = conns[c].refresh
  PROVE  c \in Wasted(R)
<1>1. got[r].old # 0
  BY DEF IInv, StoreInv
<1>2. got[r] # NoTokens
  BY <1>1 DEF NoTokens
<1> QED
  BY <1>2 DEF Wasted, Running

(* A rollback leaves what is committed as it was.                          *)
LEMMA RollsBackKeeps ==
  ASSUME IInv, Typed', NEW r \in Requests, Fails(r) \/ Throws(r)
  PROVE  IInv'
<1>0. /\ pc[r] \in InTx /\ pc' = [pc EXCEPT ![r] = "answered"] /\ row' = [row EXCEPT ![r] = None]
      /\ unlucky' = unlucky \cup Wasted({r})
      /\ UNCHANGED <<conns, req, got, issued, traded, used, told, floor, shared>>
  <2>1. pc[r] \in InTx /\ RollsBack(r)
    BY DEF Fails, Throws, InTx
  <2> QED
    BY <2>1 DEF RollsBack, Answer, Goes
<1>1. /\ Running = {r} /\ Running' = {} /\ Alone' /\ pc'[r] = "answered"
      /\ \A s \in Requests : s # r => pc'[s] = pc[s]
      /\ \A s \in Requests : pc'[s] \notin InTx
      /\ \A s \in Requests : TxInv(s)'
  BY <1>0, GoesOut
<1>2. \A s \in Requests : row'[s] = None
  BY <1>0, <1>1 DEF IInv, Typed, TypeOK, CallInv
<1>3. \A s \in Requests : CallInv(s)'
  BY <1>0, <1>1, <1>2 DEF IInv, CallInv, InTx
<1>4. StoreInv'
  BY <1>0, StoreSame
<1>5. OneConnect'
  BY <1>0, <1>1 DEF IInv, OneConnect, Asks
<1>6. SpentOnlyIfUnlucky'
  <2> SUFFICES ASSUME NEW c \in Conns, conns[c] # None, NEW t \in traded, t[1] = conns[c].refresh,
                      conns[c].refresh \notin shared
               PROVE  c \in unlucky \cup Wasted({r})
    BY <1>0, <1>1 DEF SpentOnlyIfUnlucky, Spent
  <2>1. c \in unlucky \/ \E s \in Running : req[s].conn = c /\ got[s].old = conns[c].refresh
    BY DEF IInv, SpentOnlyIfUnlucky, Spent
  <2> QED
    BY <1>1, <2>1, LuckyNoMore
<1>7. FreshTokens'
  BY <1>0 DEF IInv, FreshTokens
<1> QED
  BY <1>1, <1>3, <1>4, <1>5, <1>6, <1>7 DEF IInv

(* A crash is a rollback for everybody.                                    *)
LEMMA CrashKeeps ==
  ASSUME IInv, Typed', Crash
  PROVE  IInv'
<1>0. /\ unlucky' = unlucky \cup Wasted(Requests)
      /\ pc' = [s \in Requests |-> IF pc[s] = "new" THEN "new" ELSE "answered"]
      /\ row' = [s \in Requests |-> None]
      /\ UNCHANGED <<conns, req, got, issued, traded, used, told, floor, shared>>
  BY DEF Crash
<1>1. \A s \in Requests : pc'[s] \in {"new", "answered"} /\ (pc'[s] = "new" => pc[s] = "new")
  BY <1>0
<1>2. Running' = {}
  BY <1>1 DEF Running, InTx
<1>3. Alone'
  BY <1>2 DEF Alone
<1>4. \A s \in Requests : CallInv(s)'
  BY <1>0, <1>1 DEF IInv, CallInv, InTx
<1>5. \A s \in Requests : TxInv(s)'
  BY <1>1 DEF TxInv
<1>6. StoreInv'
  BY <1>0, StoreSame
<1>7. OneConnect'
  BY <1>0 DEF IInv, OneConnect, Asks
<1>8. SpentOnlyIfUnlucky'
  <2> SUFFICES ASSUME NEW c \in Conns, conns[c] # None, NEW t \in traded, t[1] = conns[c].refresh,
                      conns[c].refresh \notin shared
               PROVE  c \in unlucky \cup Wasted(Requests)
    BY <1>0, <1>2 DEF SpentOnlyIfUnlucky, Spent
  <2>1. c \in unlucky \/ \E s \in Running : req[s].conn = c /\ got[s].old = conns[c].refresh
    BY DEF IInv, SpentOnlyIfUnlucky, Spent
  <2> QED
    BY <2>1, LuckyNoMore DEF Running
<1>9. FreshTokens'
  BY <1>0 DEF IInv, FreshTokens
<1> QED
  BY <1>3, <1>4, <1>5, <1>6, <1>7, <1>8, <1>9 DEF IInv

(* Every step keeps the invariant.                                         *)
LEMMA NextIInv ==
  ASSUME PoolOfOne, IInv, [Next]_vars
  PROVE  IInv'
<1>0. Typed'
  BY NextTyped DEF IInv
<1>1. CASE UNCHANGED vars
  BY <1>1 DEF IInv, Typed, TypeOK, Alone, Running, CallInv, TxInv, StoreInv, ConnInv, Distinct,
    OneConnect, Asks, Trading, NewPair, Unspent, Stored, Spent, Newer, SpentOnlyIfUnlucky, FreshTokens, vars, handler, history
<1>2. CASE Next
  <2>1. ASSUME NEW r \in Requests, Progress(r) PROVE IInv'
    BY <1>0, <2>1, StartKeeps, ReadKeeps, ConnectKeeps, RenewKeeps, UpdateKeeps, AuditKeeps,
      CommitKeeps, RollsBackKeeps DEF Progress
  <2> QED
    BY <1>0, <1>1, <1>2, <2>1, ArriveKeeps, AnswerAtOnceKeeps, CommitKeeps, RollsBackKeeps,
      CrashKeeps DEF Next, Finished
<1> QED
  BY <1>1, <1>2

(* The invariant of the gateway's OAuth routes on a pool of one client.    *)
THEOREM Invariance ==
  ASSUME PoolOfOne
  PROVE  Spec => []IInv
<1>1. Init => IInv
  BY InitIInv
<1>2. IInv /\ [Next]_vars => IInv'
  BY NextIInv
<1> QED
  BY <1>1, <1>2, PTL DEF Spec

(* The routes keep to the types of their state, on a pool of any size.     *)
THEOREM TypeCorrect == Spec => []TypeOK
<1>1. Init => Typed
  BY InitTyped
<1>2. Typed /\ [Next]_vars => Typed'
  BY NextTyped
<1>3. Typed => TypeOK
  BY DEF Typed
<1> QED
  BY <1>1, <1>2, <1>3, PTL DEF Spec

(* No commit writes over the successor of a refresh token: what a refresh  *)
(* stores was traded for what is stored until then, because on a pool of   *)
(* one nobody else commits between its SELECT and its UPDATE.              *)
THEOREM Unbroken ==
  ASSUME PoolOfOne
  PROVE  Spec => UnbrokenChain
<1> DEFINE Linked == \A c \in Conns : conns[c] # None /\ conns'[c] # conns[c] =>
                       <<conns[c].refresh, conns'[c].refresh>> \in traded
<1>1. ASSUME IInv, [Next]_vars PROVE [Linked]_vars
  <2>1. CASE conns' = conns
    BY <2>1
  <2>2. CASE conns' # conns
    <3>1. PICK r \in Requests : Commit(r) \/ CommitReplyLost(r)
      BY <1>1, <2>2 DEF Next, Progress, Finished, vars, Arrive, AnswerAtOnce, Start, List, Connect,
        Renew, Update, Audit, UseToken, Moves, Fails, Throws, RollsBack, Crash, history
    <3>2. Stores(r)
      BY <1>1, <2>2, <3>1, CommitStores
    <3>3. Ended(r)
      BY <1>1, <3>1, CommitStores
    <3>4. Typed'
      BY <1>1, NextTyped DEF IInv
    <3>5. /\ conns'[req[r].conn] = row[r]
          /\ \A d \in Conns : d # req[r].conn => conns'[d] = conns[d]
      BY <1>1, <3>2, <3>3, <3>4, StoresNewer
    <3>6. conns[req[r].conn] # None => Asks(r, "refresh")
      BY <1>1, <3>2, <3>3 DEF Stores, Ended, IInv, OneConnect
    <3>7. Asks(r, "refresh") =>
            <<conns[req[r].conn].refresh, row[r].refresh>> \in traded
      BY <3>2 DEF Stores, Trading
    <3> QED
      BY <3>5, <3>6, <3>7
  <2> QED
    BY <2>1, <2>2
<1>2. Spec => []IInv
  BY Invariance
<1> QED
  BY <1>1, <1>2, PTL DEF Spec, UnbrokenChain

(* A refresh token that the provider has taken back is stored only while   *)
(* its refresh is under way, for a connection one of whose refreshes did   *)
(* not commit, or if a caller brought it though it was stored or spent.    *)
THEOREM SpentExplained ==
  ASSUME PoolOfOne
  PROVE  Spec => []SpentOnlyIfUnlucky
<1>1. IInv => SpentOnlyIfUnlucky
  BY DEF IInv
<1> QED
  BY <1>1, Invariance, PTL

(* A connector uses a token no older than the one its connection was said  *)
(* to have when it was called.                                             *)
THEOREM FreshTokensUsed ==
  ASSUME PoolOfOne
  PROVE  Spec => []FreshTokens
<1>1. IInv => FreshTokens
  BY DEF IInv
<1> QED
  BY <1>1, Invariance, PTL
=============================================================================
