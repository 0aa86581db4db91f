--------------------------- MODULE TenantTxProofs ---------------------------
(***************************************************************************)
(* Proofs about TenantTx, for any number of requests, tenants, rows,       *)
(* processes, pools and connections.  None of the properties is inductive: *)
(* what a statement sees depends on what BEGIN and set_config left in the  *)
(* session, that on the state in which the previous holder gave the        *)
(* connection back, and what a COMMIT may touch on the row locks.  IInv    *)
(* says all of it at once.                                                 *)
(***************************************************************************)
EXTENDS TenantTx, TLAPS

(* What is known of a request from its phase. *)
RequestInv ==
  \A r \in Requests :
    /\ phase[r] = "idle" => tenantOf[r] = NoTenant /\ seen[r] = {}
    /\ phase[r] \in {"waiting"} \cup InBracket => tenantOf[r] \in Tenants
    /\ phase[r] = "changing" => target[r] \in Rows
    /\ phase[r] # "done" => answer[r] = "none"
    /\ r \in applied => phase[r] \in {"rollback", "done"}
    /\ PoolOf[r] \notin BodyTenant => caller[r] = tenantOf[r]

(* What is known of a connection from the phase of its holder. *)
ConnOK(c) ==
  LET r == holder[c] IN
    /\ r = NoRequest => session[c] = Fresh /\ pend[c] = NoWrites
    /\ r # NoRequest =>
         /\ phase[r] \in InBracket /\ PoolOf[r] = ConnPool[c]
         /\ phase[r] = "connected" => session[c] = Fresh
         /\ phase[r] = "begun" =>
              session[c] = [up |-> TRUE, tx |-> "open", tenant |-> NoTenant]
         /\ phase[r] \in InCallback =>
              session[c] = [up |-> TRUE, tx |-> "open", tenant |-> tenantOf[r]]
         /\ phase[r] \in {"connected", "begun"} \/ ~session[c].up => pend[c] = NoWrites

ConnInv == \A c \in Conns : ConnOK(c)

(* No request has two connections. *)
OneHolder ==
  \A c, d \in Conns : holder[c] = holder[d] /\ holder[c] # NoRequest => c = d

IInv ==
  TypeOK /\ RequestInv /\ ConnInv /\ OneHolder /\ WritesConfined /\ ReadsOneTenant

USE DEF Phases, InBracket, InCallback

(* Reject preserves the invariant. *)
LEMMA RejectStep ==
  ASSUME IInv, NEW r \in Requests, Reject(r)
  PROVE  IInv'
<1> USE ConstantsAssumption DEF IInv
<1>1. TypeOK'
  BY DEF TypeOK, Reject
<1>2. RequestInv'
  BY DEF RequestInv, Reject, TypeOK
<1>3. ConnInv'
  BY DEF ConnInv, Reject, TypeOK, ConnOK
<1>4. OneHolder'
  BY DEF OneHolder, Reject
<1>5. WritesConfined'
  BY DEF WritesConfined, Reject, Unlocked
<1>6. ReadsOneTenant'
  BY DEF ReadsOneTenant, Reject
<1> QED
  BY <1>1, <1>2, <1>3, <1>4, <1>5, <1>6

(* Arrive preserves the invariant. *)
LEMMA ArriveStep ==
  ASSUME IInv, NEW r \in Requests, NEW t \in Tenants, NEW named \in Tenants,
         Arrive(r, t, named)
  PROVE  IInv'
<1> USE ConstantsAssumption DEF IInv
<1>1. TypeOK'
  BY DEF TypeOK, Arrive
<1>2. RequestInv'
  BY DEF RequestInv, Arrive, TypeOK
<1>3. ConnInv'
  BY DEF ConnInv, Arrive, TypeOK, ConnOK
<1>4. OneHolder'
  BY DEF OneHolder, Arrive
<1>5. WritesConfined'
  BY DEF WritesConfined, Arrive, ConnInv, ConnOK, RequestInv, Unlocked
<1>6. ReadsOneTenant'
  BY DEF ReadsOneTenant, Arrive, RequestInv
<1> QED
  BY <1>1, <1>2, <1>3, <1>4, <1>5, <1>6

(* Checkout preserves the invariant. *)
LEMMA CheckoutStep ==
  ASSUME IInv, NEW r \in Requests, NEW c \in Conns, Checkout(r, c)
  PROVE  IInv'
<1> USE ConstantsAssumption DEF IInv
<1>1. TypeOK'
  <2>1. queue' \in [Pools -> Seq(Requests)]
    <3>1. /\ queue[PoolOf[r]] \in Seq(Requests) /\ queue[PoolOf[r]] # <<>>
          /\ queue' = [queue EXCEPT ![PoolOf[r]] = Tail(@)]
      BY DEF TypeOK, Checkout, NextInLine
    <3>2. Tail(queue[PoolOf[r]]) \in Seq(Requests)
      BY <3>1
    <3> QED
      BY <3>1 DEF TypeOK
  <2> QED
    BY <2>1 DEF TypeOK, Checkout
<1>2. RequestInv'
  BY DEF RequestInv, Checkout, NextInLine
<1>3. ConnInv'
  <2> SUFFICES ASSUME NEW e \in Conns PROVE ConnOK(e)'
    BY DEF ConnInv
  <2>1. CASE e = c
    BY DEF Checkout, NextInLine, ConnInv, ConnOK, TypeOK
  <2>2. CASE e # c
    BY DEF Checkout, NextInLine, ConnInv, ConnOK, TypeOK
  <2> QED
    BY <2>1, <2>2
<1>4. OneHolder'
  BY DEF OneHolder, Checkout, NextInLine, ConnInv, ConnOK, TypeOK
<1>5. WritesConfined'
  BY DEF WritesConfined, Checkout, NextInLine, Unlocked
<1>6. ReadsOneTenant'
  BY DEF ReadsOneTenant, Checkout
<1> QED
  BY <1>1, <1>2, <1>3, <1>4, <1>5, <1>6

(* Begin preserves the invariant. *)
LEMMA BeginStep ==
  ASSUME IInv, NEW r \in Requests, NEW c \in Conns, Begin(r, c)
  PROVE  IInv'
<1> USE ConstantsAssumption DEF IInv
<1>0. holder[c] = r /\ r # NoRequest /\ phase[r] \in InBracket /\ tenantOf[r] \in Tenants
  BY DEF Begin, RequestInv
<1>1. TypeOK'
  BY DEF TypeOK, Begin, Session
<1>2. RequestInv'
  BY DEF RequestInv, Begin
<1>3. ConnInv'
  <2> SUFFICES ASSUME NEW e \in Conns PROVE ConnOK(e)'
    BY DEF ConnInv
  <2>1. CASE e = c
    <3>1. session[c] = Fresh /\ pend[c] = NoWrites
      BY DEF Begin, ConnInv, ConnOK
    <3>2. session'[c] = [up |-> TRUE, tx |-> "open", tenant |-> NoTenant]
      BY <3>1 DEF Begin, Fresh, TypeOK
    <3>3. holder'[c] = r /\ phase'[r] = "begun" /\ pend'[c] = NoWrites
      BY <3>1 DEF Begin, TypeOK
    <3> QED
      BY <2>1, <3>2, <3>3, <1>0 DEF ConnOK, ConnInv, Begin
  <2>2. CASE e # c
    BY <2>2 DEF Begin, ConnInv, ConnOK, TypeOK, OneHolder
  <2> QED
    BY <2>1, <2>2
<1>4. OneHolder'
  BY DEF OneHolder, Begin
<1>5. WritesConfined'
  BY DEF WritesConfined, Begin, Unlocked
<1>6. ReadsOneTenant'
  BY DEF ReadsOneTenant, Begin
<1> QED
  BY <1>1, <1>2, <1>3, <1>4, <1>5, <1>6

(* SetTenant preserves the invariant. *)
LEMMA SetTenantStep ==
  ASSUME IInv, NEW r \in Requests, NEW c \in Conns, SetTenant(r, c)
  PROVE  IInv'
<1> USE ConstantsAssumption DEF IInv
<1>0. holder[c] = r /\ r # NoRequest /\ phase[r] \in InBracket /\ tenantOf[r] \in Tenants
  BY DEF SetTenant, RequestInv
<1>1. TypeOK'
  BY DEF TypeOK, SetTenant, Session
<1>2. RequestInv'
  BY DEF RequestInv, SetTenant
<1>3. ConnInv'
  <2> SUFFICES ASSUME NEW e \in Conns PROVE ConnOK(e)'
    BY DEF ConnInv
  <2>1. CASE e = c
    <3>1. session[c] = [up |-> TRUE, tx |-> "open", tenant |-> NoTenant]
      BY DEF SetTenant, ConnInv, ConnOK
    <3>2. session'[c] = [up |-> TRUE, tx |-> "open", tenant |-> tenantOf[r]]
      BY <3>1 DEF SetTenant, TypeOK
    <3>3. holder'[c] = r /\ phase'[r] = "scoped" /\ tenantOf' = tenantOf
      BY DEF SetTenant, TypeOK
    <3> QED
      BY <2>1, <3>2, <3>3, <1>0 DEF ConnOK, ConnInv
  <2>2. CASE e # c
    BY <2>2 DEF SetTenant, ConnInv, ConnOK, TypeOK, OneHolder
  <2> QED
    BY <2>1, <2>2
<1>4. OneHolder'
  BY DEF OneHolder, SetTenant
<1>5. WritesConfined'
  BY DEF WritesConfined, SetTenant, Unlocked
<1>6. ReadsOneTenant'
  BY DEF ReadsOneTenant, SetTenant
<1> QED
  BY <1>1, <1>2, <1>3, <1>4, <1>5, <1>6

(* Select preserves the invariant. *)
LEMMA SelectStep ==
  ASSUME IInv, NEW r \in Requests, NEW c \in Conns, Select(r, c)
  PROVE  IInv'
<1> USE ConstantsAssumption DEF IInv
<1>0. holder[c] = r /\ r # NoRequest /\ phase[r] \in InBracket /\ tenantOf[r] \in Tenants
  BY DEF Select, ConnInv, ConnOK, RequestInv
<1>1. TypeOK'
  BY DEF TypeOK, Select, Visible, Session
<1>2. RequestInv'
  BY <1>0 DEF RequestInv, Select
<1>3. ConnInv'
  BY DEF ConnInv, Select, ConnOK
<1>4. OneHolder'
  BY DEF OneHolder, Select
<1>5. WritesConfined'
  BY DEF WritesConfined, Select, Unlocked
<1>6. ReadsOneTenant'
  BY DEF ReadsOneTenant, Select, Idling, Visible, TypeOK, ConnInv, ConnOK
<1> QED
  BY <1>1, <1>2, <1>3, <1>4, <1>5, <1>6

(* SendChange preserves the invariant. *)
LEMMA SendChangeStep ==
  ASSUME IInv, NEW r \in Requests, NEW c \in Conns, NEW x \in Rows, SendChange(r, c, x)
  PROVE  IInv'
<1> USE ConstantsAssumption DEF IInv
<1>0. holder[c] = r /\ r # NoRequest /\ phase[r] \in InBracket /\ tenantOf[r] \in Tenants
  BY DEF SendChange, RequestInv
<1>1. TypeOK'
  BY DEF TypeOK, SendChange
<1>2. RequestInv'
  BY DEF RequestInv, SendChange, TypeOK
<1>3. ConnInv'
  BY DEF ConnInv, SendChange, TypeOK, ConnOK
<1>4. OneHolder'
  BY DEF OneHolder, SendChange
<1>5. WritesConfined'
  BY DEF WritesConfined, SendChange, Unlocked
<1>6. ReadsOneTenant'
  BY DEF ReadsOneTenant, SendChange
<1> QED
  BY <1>1, <1>2, <1>3, <1>4, <1>5, <1>6

(* Insert preserves the invariant. *)
LEMMA InsertStep ==
  ASSUME IInv, NEW r \in Requests, NEW c \in Conns, NEW x \in Rows, Insert(r, c, x)
  PROVE  IInv'
<1> USE ConstantsAssumption DEF IInv
<1>0. holder[c] = r /\ r # NoRequest /\ phase[r] \in InBracket /\ tenantOf[r] \in Tenants
  BY DEF Insert, TypeOK, ConnInv, ConnOK, RequestInv
<1>1. TypeOK'
  BY <1>0 DEF TypeOK, Insert, Row
<1>2. RequestInv'
  BY DEF RequestInv, Insert, Idling
<1>3. ConnInv'
  BY DEF ConnInv, Insert, Idling, TypeOK, ConnOK
<1>4. OneHolder'
  BY DEF OneHolder, Insert
<1>5. WritesConfined'
  BY DEF WritesConfined, Insert, Unlocked
<1>6. ReadsOneTenant'
  BY DEF ReadsOneTenant, Insert
<1> QED
  BY <1>1, <1>2, <1>3, <1>4, <1>5, <1>6

(* DoChange preserves the invariant. *)
LEMMA DoChangeStep ==
  ASSUME IInv, NEW r \in Requests, NEW c \in Conns,
         NEW new \in {Absent, [tenant |-> tenantOf[r], by |-> r]}, DoChange(r, c, new)
  PROVE  IInv'
<1> USE ConstantsAssumption DEF IInv
<1>0. holder[c] = r /\ r # NoRequest /\ phase[r] \in InBracket /\ tenantOf[r] \in Tenants
  BY DEF DoChange, RequestInv
<1>1. TypeOK'
  <2>1. target[r] \in Rows /\ new \in Row \cup {Absent}
    BY DEF DoChange, RequestInv, Row
  <2>2. pend' \in [Conns -> [Rows -> Row \cup {Absent, Untouched}]]
    <3>1. CASE pend' = pend
      BY <3>1 DEF TypeOK
    <3>2. CASE pend' = [pend EXCEPT ![c][target[r]] = new]
      BY <3>2, <2>1 DEF TypeOK
    <3> QED
      BY <3>1, <3>2 DEF DoChange
  <2> QED
    BY <2>2 DEF DoChange, TypeOK
<1>2. RequestInv'
  BY DEF RequestInv, DoChange, TypeOK
<1>3. ConnInv'
  <2> SUFFICES ASSUME NEW e \in Conns PROVE ConnOK(e)'
    BY DEF ConnInv
  <2>1. CASE e = c
    BY <2>1 DEF DoChange, ConnInv, ConnOK
  <2>2. CASE e # c
    BY DEF DoChange, ConnInv, ConnOK, TypeOK
  <2> QED
    BY <2>1, <2>2
<1>4. OneHolder'
  BY DEF OneHolder, DoChange
<1>5. WritesConfined'
  <2> DEFINE x == target[r]
  <2>1. CASE x \notin Visible(c)
    BY <2>1 DEF WritesConfined, DoChange, Unlocked
  <2>2. CASE x \in Visible(c)
    <3>1. /\ x \in Rows /\ Unlocked(c, x)
          /\ pend' = [pend EXCEPT ![c][x] = new]
          /\ new \in {Absent, [tenant |-> tenantOf[r], by |-> r]}
          /\ UNCHANGED <<holder, tenantOf, table>>
      BY <2>2 DEF DoChange, RequestInv
    <3>2. session[c] = [up |-> TRUE, tx |-> "open", tenant |-> tenantOf[r]]
      BY DEF DoChange, ConnInv, ConnOK
    <3>3. table[x] = Absent \/ table[x].tenant = tenantOf[r]
      BY <2>2, <3>2 DEF Visible, RowAt, WritesConfined
    <3> SUFFICES ASSUME NEW e \in Conns, NEW y \in Rows, pend'[e][y] # Untouched
                 PROVE  /\ holder[e] # NoRequest
                        /\ pend'[e][y] \in {Absent, [tenant |-> tenantOf[holder[e]], by |-> holder[e]]}
                        /\ table[y] = Absent \/ table[y].tenant = tenantOf[holder[e]]
                        /\ \A d \in Conns \ {e} : pend'[d][y] = Untouched
      BY <3>1 DEF WritesConfined, Unlocked
    <3>4. CASE y = x
      <4>1. e = c
        BY <3>1, <3>4 DEF Unlocked
      <4> QED
        BY <1>0, <3>1, <3>3, <3>4 DEF Unlocked, TypeOK
    <3>5. CASE y # x
      BY <3>1, <3>5 DEF WritesConfined, Unlocked
    <3> QED
      BY <3>4, <3>5
  <2> QED
    BY <2>1, <2>2
<1>6. ReadsOneTenant'
  BY DEF ReadsOneTenant, DoChange
<1> QED
  BY <1>1, <1>2, <1>3, <1>4, <1>5, <1>6

(* Commit preserves the invariant. *)
LEMMA CommitStep ==
  ASSUME IInv, NEW r \in Requests, NEW c \in Conns, Commit(r, c)
  PROVE  IInv'
<1> USE ConstantsAssumption DEF IInv
<1>0. holder[c] = r /\ r # NoRequest /\ phase[r] \in InBracket /\ tenantOf[r] \in Tenants
  BY DEF Commit, TypeOK, ConnInv, ConnOK, RequestInv
<1>1. TypeOK'
  BY DEF TypeOK, Commit, Committed, RowAt, EndTx, Release, Session, NoWrites
<1>2. RequestInv'
  BY DEF RequestInv, Commit, Release, TypeOK
<1>3. ConnInv'
  <2> SUFFICES ASSUME NEW e \in Conns PROVE ConnOK(e)'
    BY DEF ConnInv
  <2>1. CASE e = c
    <3>1. session[c] = [up |-> TRUE, tx |-> "open", tenant |-> tenantOf[r]]
      BY DEF Commit, Idling, ConnInv, ConnOK
    <3>2. session'[c] = Fresh
      BY <3>1 DEF Commit, EndTx, Fresh, TypeOK
    <3>3. holder'[c] = NoRequest /\ pend'[c] = NoWrites
      BY DEF Commit, Release, TypeOK
    <3> QED
      BY <2>1, <3>2, <3>3 DEF ConnOK
  <2>2. CASE e # c
    BY <2>2 DEF Commit, Release, ConnInv, ConnOK, TypeOK, OneHolder
  <2> QED
    BY <2>1, <2>2
<1>4. OneHolder'
  BY DEF OneHolder, Commit, Release
<1>5. WritesConfined'
  BY DEF WritesConfined, Commit, Committed, RowAt, Release, TypeOK, Unlocked,
     NoWrites
<1>6. ReadsOneTenant'
  BY DEF ReadsOneTenant, Commit
<1> QED
  BY <1>1, <1>2, <1>3, <1>4, <1>5, <1>6

(* Rollback preserves the invariant. *)
LEMMA RollbackStep ==
  ASSUME IInv, NEW r \in Requests, NEW c \in Conns, Rollback(r, c)
  PROVE  IInv'
<1> USE ConstantsAssumption DEF IInv
<1>0. holder[c] = r /\ r # NoRequest /\ phase[r] \in InBracket /\ tenantOf[r] \in Tenants
  BY DEF Rollback, RequestInv
<1>1. TypeOK'
  BY DEF TypeOK, Rollback, EndTx, Release, Session, NoWrites
<1>2. RequestInv'
  BY DEF RequestInv, Rollback, Release, TypeOK
<1>3. ConnInv'
  BY DEF ConnInv, Rollback, EndTx, Release, TypeOK, OneHolder, Fresh, ConnOK
<1>4. OneHolder'
  BY DEF OneHolder, Rollback, Release
<1>5. WritesConfined'
  BY DEF WritesConfined, Rollback, Release, TypeOK, Unlocked, NoWrites
<1>6. ReadsOneTenant'
  BY DEF ReadsOneTenant, Rollback
<1> QED
  BY <1>1, <1>2, <1>3, <1>4, <1>5, <1>6

(* RollbackRejected preserves the invariant. *)
LEMMA RollbackRejectedStep ==
  ASSUME IInv, NEW r \in Requests, NEW c \in Conns, RollbackRejected(r, c)
  PROVE  IInv'
<1> USE ConstantsAssumption DEF IInv
<1>0. holder[c] = r /\ r # NoRequest /\ phase[r] \in InBracket /\ tenantOf[r] \in Tenants
  BY DEF RollbackRejected, RequestInv
<1>1. TypeOK'
  BY DEF TypeOK, RollbackRejected, Release, Session, Fresh
<1>2. RequestInv'
  BY DEF RequestInv, RollbackRejected, Release, TypeOK
<1>3. ConnInv'
  BY DEF ConnInv, RollbackRejected, Release, TypeOK, OneHolder, ConnOK
<1>4. OneHolder'
  BY DEF OneHolder, RollbackRejected, Release
<1>5. WritesConfined'
  BY DEF WritesConfined, RollbackRejected, Release, TypeOK, ConnInv, ConnOK,
     Unlocked, NoWrites
<1>6. ReadsOneTenant'
  BY DEF ReadsOneTenant, RollbackRejected
<1> QED
  BY <1>1, <1>2, <1>3, <1>4, <1>5, <1>6

(* ConnectFails preserves the invariant. *)
LEMMA ConnectFailsStep ==
  ASSUME IInv, NEW r \in Requests, NEW c \in Conns, ConnectFails(r, c)
  PROVE  IInv'
<1> USE ConstantsAssumption DEF IInv
<1>1. TypeOK'
  BY DEF TypeOK, ConnectFails, NextInLine
<1>2. RequestInv'
  BY DEF RequestInv, ConnectFails, TypeOK
<1>3. ConnInv'
  BY DEF ConnInv, ConnectFails, NextInLine, TypeOK, ConnOK
<1>4. OneHolder'
  BY DEF OneHolder, ConnectFails
<1>5. WritesConfined'
  BY DEF WritesConfined, ConnectFails, Unlocked
<1>6. ReadsOneTenant'
  BY DEF ReadsOneTenant, ConnectFails
<1> QED
  BY <1>1, <1>2, <1>3, <1>4, <1>5, <1>6

(* StatementFails preserves the invariant. *)
LEMMA StatementFailsStep ==
  ASSUME IInv, NEW r \in Requests, NEW c \in Conns, StatementFails(r, c)
  PROVE  IInv'
<1> USE ConstantsAssumption DEF IInv
<1>0. holder[c] = r /\ r # NoRequest /\ phase[r] \in InBracket /\ tenantOf[r] \in Tenants
  BY DEF StatementFails, RequestInv
<1>1. TypeOK'
  BY DEF TypeOK, StatementFails, Session
<1>2. RequestInv'
  BY <1>0 DEF RequestInv, StatementFails, TypeOK, ConnInv, ConnOK
<1>3. ConnInv'
  <2> SUFFICES ASSUME NEW e \in Conns PROVE ConnOK(e)'
    BY DEF ConnInv
  <2>1. CASE e = c
    BY <2>1 DEF StatementFails, ConnInv, ConnOK, TypeOK
  <2>2. CASE e # c
    BY <2>2 DEF StatementFails, ConnInv, ConnOK, TypeOK
  <2> QED
    BY <2>1, <2>2
<1>4. OneHolder'
  BY DEF OneHolder, StatementFails
<1>5. WritesConfined'
  BY DEF WritesConfined, StatementFails, Unlocked
<1>6. ReadsOneTenant'
  BY DEF ReadsOneTenant, StatementFails
<1> QED
  BY <1>1, <1>2, <1>3, <1>4, <1>5, <1>6

(* HandlerThrows preserves the invariant. *)
LEMMA HandlerThrowsStep ==
  ASSUME IInv, NEW r \in Requests, NEW c \in Conns, HandlerThrows(r, c)
  PROVE  IInv'
<1> USE ConstantsAssumption DEF IInv
<1>0. holder[c] = r /\ r # NoRequest /\ phase[r] \in InBracket /\ tenantOf[r] \in Tenants
  BY DEF HandlerThrows, ConnInv, ConnOK, RequestInv
<1>1. TypeOK'
  BY DEF TypeOK, HandlerThrows
<1>2. RequestInv'
  BY <1>0 DEF RequestInv, HandlerThrows
<1>3. ConnInv'
  BY DEF ConnInv, HandlerThrows, TypeOK, ConnOK
<1>4. OneHolder'
  BY DEF OneHolder, HandlerThrows
<1>5. WritesConfined'
  BY DEF WritesConfined, HandlerThrows, Unlocked
<1>6. ReadsOneTenant'
  BY DEF ReadsOneTenant, HandlerThrows
<1> QED
  BY <1>1, <1>2, <1>3, <1>4, <1>5, <1>6

(* CommitReplyLost preserves the invariant. *)
LEMMA CommitReplyLostStep ==
  ASSUME IInv, NEW r \in Requests, NEW c \in Conns, CommitReplyLost(r, c)
  PROVE  IInv'
<1> USE ConstantsAssumption DEF IInv
<1>0. holder[c] = r /\ r # NoRequest /\ phase[r] \in InBracket /\ tenantOf[r] \in Tenants
  BY DEF CommitReplyLost, ConnInv, ConnOK, RequestInv
<1>1. TypeOK'
  BY DEF TypeOK, CommitReplyLost, Committed, RowAt, Broken, Session, NoWrites
<1>2. RequestInv'
  BY <1>0 DEF RequestInv, CommitReplyLost, TypeOK
<1>3. ConnInv'
  <2> SUFFICES ASSUME NEW e \in Conns PROVE ConnOK(e)'
    BY DEF ConnInv
  <2>1. CASE e = c
    BY <2>1 DEF CommitReplyLost, ConnInv, ConnOK, TypeOK
  <2>2. CASE e # c
    BY <2>2 DEF CommitReplyLost, ConnInv, ConnOK, TypeOK
  <2> QED
    BY <2>1, <2>2
<1>4. OneHolder'
  BY DEF OneHolder, CommitReplyLost
<1>5. WritesConfined'
  BY DEF WritesConfined, CommitReplyLost, Committed, RowAt, Unlocked, NoWrites
<1>6. ReadsOneTenant'
  BY DEF ReadsOneTenant, CommitReplyLost
<1> QED
  BY <1>1, <1>2, <1>3, <1>4, <1>5, <1>6

(* ConnectionLost preserves the invariant. *)
LEMMA ConnectionLostStep ==
  ASSUME IInv, NEW r \in Requests, NEW c \in Conns, ConnectionLost(r, c)
  PROVE  IInv'
<1> USE ConstantsAssumption DEF IInv
<1>0. holder[c] = r /\ r # NoRequest /\ phase[r] \in InBracket /\ tenantOf[r] \in Tenants
  BY DEF ConnectionLost, ConnInv, ConnOK, RequestInv
<1>1. TypeOK'
  BY DEF TypeOK, ConnectionLost, Broken, Session, NoWrites
<1>2. RequestInv'
  BY <1>0 DEF RequestInv, ConnectionLost, TypeOK
<1>3. ConnInv'
  <2> SUFFICES ASSUME NEW e \in Conns PROVE ConnOK(e)'
    BY DEF ConnInv
  <2>1. CASE e = c
    BY <2>1 DEF ConnectionLost, ConnInv, ConnOK, TypeOK
  <2>2. CASE e # c
    BY <2>2 DEF ConnectionLost, ConnInv, ConnOK, TypeOK
  <2> QED
    BY <2>1, <2>2
<1>4. OneHolder'
  BY DEF OneHolder, ConnectionLost
<1>5. WritesConfined'
  BY DEF WritesConfined, ConnectionLost, Unlocked, NoWrites
<1>6. ReadsOneTenant'
  BY DEF ReadsOneTenant, ConnectionLost
<1> QED
  BY <1>1, <1>2, <1>3, <1>4, <1>5, <1>6

(* Crash preserves the invariant. *)
LEMMA CrashStep ==
  ASSUME IInv, NEW p \in Processes, Crash(p)
  PROVE  IInv'
<1> USE ConstantsAssumption DEF IInv
<1>1. TypeOK'
  BY DEF TypeOK, Crash, Session, Fresh, NoWrites
<1>2. RequestInv'
  BY DEF RequestInv, Crash
<1>3. ConnInv'
  BY DEF ConnInv, Crash, RequestsOf, ConnsOf, TypeOK, ConnOK
<1>4. OneHolder'
  BY DEF OneHolder, Crash
<1>5. WritesConfined'
  BY DEF WritesConfined, Crash, Unlocked, NoWrites
<1>6. ReadsOneTenant'
  BY DEF ReadsOneTenant, Crash
<1> QED
  BY <1>1, <1>2, <1>3, <1>4, <1>5, <1>6

(* The invariant holds initially ... *)
LEMMA InitIInv == Init => IInv
<1> SUFFICES ASSUME Init PROVE IInv
  OBVIOUS
<1> USE ConstantsAssumption DEF Init
<1>1. TypeOK
  BY DEF TypeOK, Session, Row, Fresh, NoWrites
<1>2. RequestInv
  BY DEF RequestInv
<1>3. ConnInv /\ OneHolder
  BY DEF ConnInv, ConnOK, OneHolder
<1>4. WritesConfined /\ ReadsOneTenant
  BY DEF WritesConfined, NoWrites, ReadsOneTenant
<1> QED
  BY <1>1, <1>2, <1>3, <1>4 DEF IInv

(* ... and every step preserves it. *)
LEMMA NextIInv == IInv /\ [Next]_vars => IInv'
<1> SUFFICES ASSUME IInv, [Next]_vars PROVE IInv'
  OBVIOUS
<1>1. CASE UNCHANGED vars
  BY <1>1 DEF vars, IInv, TypeOK, RequestInv, ConnInv, ConnOK, OneHolder,
     WritesConfined, ReadsOneTenant, Unlocked
<1>2. CASE \E r \in Requests : Reject(r) \/ \E t, named \in Tenants : Arrive(r, t, named)
  BY <1>2, RejectStep, ArriveStep
<1>3. CASE \E r \in Requests, c \in Conns : Checkout(r, c)
  BY <1>3, CheckoutStep
<1>4. ASSUME NEW r \in Requests, NEW c \in Conns, Progress(r, c) PROVE IInv'
  BY <1>4, BeginStep, SetTenantStep, SelectStep, SendChangeStep, InsertStep,
     DoChangeStep, CommitStep, RollbackStep, RollbackRejectedStep DEF Progress
<1>5. ASSUME NEW r \in Requests, NEW c \in Conns, Failure(r, c) PROVE IInv'
  BY <1>5, ConnectFailsStep, StatementFailsStep, HandlerThrowsStep,
     CommitReplyLostStep, ConnectionLostStep DEF Failure
<1>6. CASE \E p \in Processes : Crash(p)
  BY <1>6, CrashStep
<1>7. CASE Finished
  BY <1>1, <1>7 DEF Finished
<1> QED
  BY <1>1, <1>2, <1>3, <1>4, <1>5, <1>6, <1>7 DEF Next

(* IInv holds throughout. *)
THEOREM Invariance == Spec => []IInv
BY InitIInv, NextIInv, PTL DEF Spec

(* The variables keep their types. *)
THEOREM TypeCorrect == Spec => []TypeOK
<1>1. IInv => TypeOK
  BY DEF IInv
<1> QED
  BY <1>1, Invariance, PTL

(* A callback's statements run inside a transaction scoped to the tenant   *)
(* of the request that runs it, whatever earlier users of the connection   *)
(* did and however they failed.                                            *)
THEOREM Scoped == Spec => []ScopedStatements
<1>1. IInv => ScopedStatements
  BY DEF IInv, ConnInv, ConnOK, ScopedStatements
<1> QED
  BY <1>1, Invariance, PTL

(* A connection goes back to its pool as good as new.                      *)
THEOREM Clean == Spec => []CleanIdle
<1>1. IInv => CleanIdle
  BY DEF IInv, ConnInv, ConnOK, CleanIdle
<1> QED
  BY <1>1, Invariance, PTL

(* No transaction reads rows of a tenant other than its own.               *)
THEOREM Isolation == Spec => []ReadsOneTenant
<1>1. IInv => ReadsOneTenant
  BY DEF IInv
<1> QED
  BY <1>1, Invariance, PTL

(* Uncommitted writes stay within the tenant and exclude one another.      *)
THEOREM Confinement == Spec => []WritesConfined
<1>1. IInv => WritesConfined
  BY DEF IInv
<1> QED
  BY <1>1, Invariance, PTL

(* What a transaction reads and writes are rows of the one tenant it was   *)
(* set up for, and that is the caller's wherever the handler takes no      *)
(* tenant from the body: for the vault nothing is said of the caller.      *)
THEOREM Isolated == Spec => []TenantIsolation
<1>1. ASSUME IInv, NEW r \in Requests, PoolOf[r] \notin BodyTenant
      PROVE  OwnRowsOnly(r)
  <2>1. caller[r] = tenantOf[r]
    BY <1>1 DEF IInv, RequestInv
  <2>2. seen[r] \subseteq {caller[r]}
    BY <1>1, <2>1 DEF IInv, ReadsOneTenant
  <2>3. ASSUME NEW c \in Conns, NEW x \in Rows,
               holder[c] = r, pend[c][x] # Untouched
        PROVE  /\ table[x] = Absent \/ table[x].tenant = caller[r]
               /\ pend[c][x] = Absent \/ pend[c][x].tenant = caller[r]
    BY <1>1, <2>1, <2>3 DEF IInv, WritesConfined
  <2> QED
    BY <2>2, <2>3 DEF OwnRowsOnly
<1>2. IInv => TenantIsolation
  BY <1>1 DEF IInv, TenantIsolation
<1> QED
  BY <1>2, Invariance, PTL

-----------------------------------------------------------------------------
(* Steps that change nothing the abstract store knows of. *)
LEMMA Stutter ==
  ASSUME UNCHANGED <<table, tenantOf, applied, answer>>
  PROVE  [Store!Next]_(Store!vars)
BY DEF Store!vars

(* The step in which a transaction commits is the abstract store's Apply.  *)
LEMMA CommitIsApply ==
  ASSUME IInv, NEW r \in Requests, NEW c \in Conns, Commit(r, c) \/ CommitReplyLost(r, c)
  PROVE  Store!Apply(r)
<1> USE ConstantsAssumption DEF IInv
<1>1. /\ holder[c] = r /\ r # NoRequest /\ phase[r] \in InCallback
      /\ table' = Committed(c) /\ tenantOf' = tenantOf
  BY DEF Commit, CommitReplyLost, Idling
<1>2. tenantOf[r] # NoTenant /\ r \notin applied /\ answer[r] = "none"
  BY <1>1 DEF RequestInv
<1>3. session[c] = [up |-> TRUE, tx |-> "open", tenant |-> tenantOf[r]]
  BY <1>1 DEF ConnInv, ConnOK
<1>4. table' = [x \in Rows |-> RowAt(c, x)]
  BY <1>1, <1>3 DEF Committed
<1>5. applied' = applied \cup {r}
  BY <1>3 DEF Commit, CommitReplyLost
<1>6. Store!ChangesOnlyRowsOf(r)
  <2> SUFFICES ASSUME NEW x \in Rows, table'[x] # table[x]
               PROVE  /\ table[x] = Absent \/ table[x].tenant = tenantOf[r]
                      /\ table'[x] \in {Absent, [tenant |-> tenantOf[r], by |-> r]}
    BY DEF Store!ChangesOnlyRowsOf, Store!OwnedBy
  <2>1. pend[c][x] # Untouched /\ table'[x] = pend[c][x]
    BY <1>4 DEF RowAt
  <2> QED
    BY <1>1, <2>1 DEF WritesConfined
<1>7. answer' \in {answer, [answer EXCEPT ![r] = "ok"]}
  BY DEF Commit, CommitReplyLost, Release
<1> QED
  BY <1>1, <1>2, <1>5, <1>6, <1>7 DEF Store!Apply

(* A request that ends without a commit of its own is a Fail. *)
LEMMA EndIsFail ==
  ASSUME IInv, NEW r \in Requests, phase[r] # "done",
         answer' = [answer EXCEPT ![r] = "error"],
         UNCHANGED <<table, tenantOf, applied>>
  PROVE  Store!Next
<1>1. Store!Fail({r})
  BY DEF IInv, RequestInv, TypeOK, Store!Fail
<1> QED
  BY <1>1 DEF Store!Next

(* Every step of the bracket is a step of the store, or none. *)
LEMMA StepSimulation == IInv /\ [Next]_vars => [Store!Next]_(Store!vars)
<1> SUFFICES ASSUME IInv, [Next]_vars PROVE [Store!Next]_(Store!vars)
  OBVIOUS
<1> USE Stutter
<1>1. CASE UNCHANGED vars
  BY <1>1 DEF vars
<1>2. ASSUME NEW r \in Requests, Reject(r) PROVE Store!Next
  BY <1>2, EndIsFail DEF Reject
<1>3. ASSUME NEW r \in Requests, NEW t \in Tenants, NEW named \in Tenants,
             Arrive(r, t, named)
      PROVE  Store!Next
  <2>1. Store!Accept(r, named)
    BY <1>3 DEF Arrive, IInv, RequestInv, Store!Accept
  <2> QED
    BY <2>1 DEF Store!Next
<1>4. ASSUME NEW r \in Requests, NEW c \in Conns, Checkout(r, c)
      PROVE  [Store!Next]_(Store!vars)
  BY <1>4 DEF Checkout
<1>5. ASSUME NEW r \in Requests, NEW c \in Conns, Progress(r, c)
      PROVE  [Store!Next]_(Store!vars)
  <2>1. CASE Commit(r, c)
    BY <2>1, CommitIsApply DEF Store!Next
  <2>2. CASE Rollback(r, c) \/ RollbackRejected(r, c)
    <3>1. phase[r] # "done"
      BY <2>2 DEF Rollback, RollbackRejected
    <3> QED
      BY <2>2, EndIsFail DEF Rollback, RollbackRejected, Release
  <2>3. CASE ~(Commit(r, c) \/ Rollback(r, c) \/ RollbackRejected(r, c))
    BY <1>5, <2>3 DEF Progress, Begin, SetTenant, Select, SendChange, Insert,
       DoChange
  <2> QED
    BY <2>1, <2>2, <2>3
<1>6. ASSUME NEW r \in Requests, NEW c \in Conns, Failure(r, c)
      PROVE  [Store!Next]_(Store!vars)
  <2>1. CASE ConnectFails(r, c)
    BY <2>1, EndIsFail DEF ConnectFails, NextInLine
  <2>2. CASE CommitReplyLost(r, c)
    BY <2>2, CommitIsApply DEF Store!Next
  <2>3. CASE StatementFails(r, c) \/ HandlerThrows(r, c) \/ ConnectionLost(r, c)
    BY <2>3 DEF StatementFails, HandlerThrows, ConnectionLost
  <2> QED
    BY <1>6, <2>1, <2>2, <2>3 DEF Failure
<1>7. ASSUME NEW p \in Processes, Crash(p) PROVE Store!Next
  <2>1. Store!Fail(RequestsOf(p))
    BY <1>7 DEF Crash, RequestsOf, IInv, RequestInv, Store!Fail
  <2>2. RequestsOf(p) \in SUBSET Requests
    BY DEF RequestsOf
  <2> QED
    BY <2>1, <2>2 DEF Store!Next
<1>8. CASE Finished
  BY <1>8 DEF Finished, vars
<1> QED
  BY <1>1, <1>2, <1>3, <1>4, <1>5, <1>6, <1>7, <1>8 DEF Next

(* The transaction bracket implements the abstract tenant store.           *)
THEOREM Refinement == Spec => ImplementsStore
<1>1. Init => Store!Init
  BY DEF Init, Store!Init
<1> QED
  BY <1>1, StepSimulation, Invariance, PTL DEF Spec, ImplementsStore, Store!Spec
=============================================================================
