--------------------------- MODULE ErasureProofs ---------------------------
(***************************************************************************)
(* Proofs about Erasure, for any number of requests, tenants and calls of  *)
(* the function, any set of handlers and any migrations.  That no orphan   *)
(* is left rests on the handshake over the tenant's row: whoever has       *)
(* inserted a row of a tenant keeps the function from its last DELETE, and *)
(* after that DELETE nobody can insert one.                                *)
(***************************************************************************)
EXTENDS Erasure, TLAPS

(* Requests insert and delete rows of their own tenant only; one that has  *)
(* inserted a row has a tenant, and not one whose row is deleted.          *)
RequestInv ==
  \A r \in Requests :
    /\ \A x \in inserted[r] \cup removed[r] : x.tenant = who[r]
    /\ status[r] # "running" => inserted[r] = {} /\ removed[r] = {}
    /\ inserted[r] # {} => who[r] \in tenants /\ ~(step = Checking /\ target = who[r])

(* What the function deletes is its target's, and nothing between calls.   *)
EraserInv ==
  /\ \A x \in snapshot \cup erased : x.tenant = target
  /\ step = 0 => snapshot = {} /\ erased = {}
  /\ scanned => step \in 1 .. 9

IInv == TypeOK /\ NoOrphans /\ RequestInv /\ EraserInv

USE DEF Upserts, Changes

-----------------------------------------------------------------------------
(* Every handler is a list of statements.                                  *)
LEMMA HandlerType ==
  ASSUME NEW h \in HandlerNames
  PROVE  Statements(h) \in Seq(Statement)
<1>1. \A op \in {"insert", "find"} \cup Upserts \cup Changes, table \in Children :
        Do(op, table) \in Statement
  BY DEF Do, Statement
<1>2. CASE h = "createWorkflow"
  BY <1>1, <1>2 DEF Statements, CreateWorkflow, Children
<1>3. CASE h = "execute"
  BY <1>1, <1>3 DEF Statements, Execute, Children
<1>4. CASE h = "connect"
  BY <1>1, <1>4 DEF Statements, Connect, Children
<1>5. CASE h = "refresh"
  BY <1>1, <1>5 DEF Statements, Refresh, Children
<1>6. CASE h = "store"
  BY <1>1, <1>6 DEF Statements, Store, Children
<1>7. CASE h = "rotate"
  BY <1>1, <1>7 DEF Statements, Rotate, Children
<1>8. CASE h = "delete"
  BY <1>1, <1>8 DEF Statements, Delete, Children
<1>9. CASE h = "getSettings"
  BY <1>1, <1>9 DEF Statements, GetSettings, Children
<1>10. CASE h = "patchSettings"
  BY <1>1, <1>10 DEF Statements, PatchSettings, Children
<1> QED
  BY <1>2, <1>3, <1>4, <1>5, <1>6, <1>7, <1>8, <1>9, <1>10 DEF HandlerNames

(* A request at a statement has its tail yet to run, and is about a row.   *)
LEMMA NextStatement ==
  ASSUME TypeOK, NEW r \in Requests, left[r] # <<>>
  PROVE  /\ Stmt(r) \in Statement /\ Tail(left[r]) \in Seq(Statement)
         /\ RowOf(r).tenant = who[r]
         /\ who[r] \in Tenants => RowOf(r) \in Row
<1>1. left[r] \in Seq(Statement)
  BY DEF TypeOK
<1>2. Stmt(r) \in Statement /\ Tail(left[r]) \in Seq(Statement)
  BY <1>1 DEF Stmt
<1>3. RowOf(r).id \in Ids
  BY DEF RowOf, Ids, TypeOK
<1> QED
  BY <1>2, <1>3 DEF RowOf, Row, Statement

-----------------------------------------------------------------------------
(* The initial states satisfy the invariant ... *)
LEMMA InitIInv == Init => IInv
<1> SUFFICES ASSUME Init PROVE IInv
  OBVIOUS
<1>1. TypeOK
  <2>1. rows \in SUBSET Row
    BY ConstantsAssumption DEF Init, Row, Ids
  <2>2. step \in 0 .. Checking
    BY DEF Init, Checking, LastStep, EraseOrder
  <2>3. left \in [Requests -> Seq(Statement)]
    BY DEF Init
  <2> QED
    BY <2>1, <2>2, <2>3 DEF Init, TypeOK, Ids
<1>2. NoOrphans
  BY <1>1 DEF Init, NoOrphans, TypeOK, Row
<1> QED
  BY <1>1, <1>2 DEF Init, IInv, RequestInv, EraserInv

(* A request begins: it has done nothing yet. *)
LEMMA StartStep ==
  ASSUME IInv, NEW r \in Requests, NEW h \in Handlers, NEW t \in Tenants, NEW k \in Ids,
         Start(r, h, t, k)
  PROVE  IInv'
<1> USE DEF IInv
<1>1. Statements(h) \in Seq(Statement)
  BY HandlerType, ConstantsAssumption
<1>2. TypeOK'
  BY <1>1 DEF TypeOK, Start, function, bounds
<1>3. NoOrphans' /\ EraserInv'
  BY DEF NoOrphans, EraserInv, Start, function
<1>4. RequestInv'
  BY DEF RequestInv, Start, TypeOK, function
<1> QED
  BY <1>2, <1>3, <1>4

(* An INSERT checks the tenant and shares it from then on. *)
LEMMA InsertStep ==
  ASSUME IInv, NEW r \in Requests, Insert(r)
  PROVE  IInv'
<1> USE DEF IInv
<1>1. left[r] # <<>> /\ who[r] \in tenants /\ status[r] = "running"
  BY DEF Insert, Runs
<1>2. /\ RowOf(r) \in Row /\ RowOf(r).tenant = who[r]
      /\ Tail(left[r]) \in Seq(Statement)
  BY <1>1, NextStatement DEF TypeOK
<1>3. ~(step = Checking /\ target = who[r])
  <2>1. r # Eraser
    BY ConstantsAssumption
  <2>2. ~RequestWaits(r, Eraser)
    BY <2>1 DEF Insert, Runs, Blocked, WaitsFor, Actors
  <2> QED
    BY <1>1, <2>2 DEF Insert, RequestWaits
<1>4. TypeOK'
  BY <1>2 DEF TypeOK, Insert, Runs, function, bounds
<1>5. NoOrphans' /\ EraserInv'
  BY DEF NoOrphans, EraserInv, Insert, Runs, function
<1>6. RequestInv'
  BY <1>1, <1>2, <1>3 DEF RequestInv, Insert, Runs, TypeOK, function
<1> QED
  BY <1>4, <1>5, <1>6

(* A row that is changed or deleted is the request's tenant's. *)
LEMMA ChangeStep ==
  ASSUME IInv, NEW r \in Requests, Change(r) \/ Miss(r)
  PROVE  IInv'
<1> USE DEF IInv
<1>1. /\ left[r] # <<>> /\ inserted' = inserted /\ status[r] = "running"
      /\ UNCHANGED <<tenants, rows, status, who, key, function, bounds>>
  BY DEF Change, Miss, Runs
<1>2. RowOf(r).tenant = who[r] /\ Tail(left[r]) \in Seq(Statement)
  BY <1>1, NextStatement
<1>3. RowOf(r) \in rows => RowOf(r) \in Row
  BY DEF TypeOK
<1>4. inserted[r] \in SUBSET Row
  BY DEF TypeOK
<1>5. /\ touched' \in [Requests -> SUBSET Row] /\ removed' \in [Requests -> SUBSET Row]
      /\ \A q \in Requests : removed'[q] \subseteq removed[q] \cup {RowOf(q)}
      /\ \A q \in Requests : q # r => removed'[q] = removed[q]
  <2>1. CASE Change(r)
    BY <2>1, <1>3, <1>4 DEF Change, TypeOK
  <2>2. CASE Miss(r)
    BY <2>2 DEF Miss, TypeOK
  <2> QED
    BY <2>1, <2>2
<1>6. left' \in [Requests -> Seq(Statement)]
  <2>1. CASE Change(r)
    BY <2>1, <1>2 DEF Change, TypeOK
  <2>2. CASE Miss(r)
    BY <2>2, <1>2 DEF Miss, TypeOK
  <2> QED
    BY <2>1, <2>2
<1>7. TypeOK'
  BY <1>1, <1>5, <1>6 DEF TypeOK, function, bounds
<1>8. NoOrphans' /\ EraserInv'
  BY <1>1 DEF NoOrphans, EraserInv, function
<1>9. RequestInv'
  BY <1>1, <1>2, <1>5 DEF RequestInv, function
<1> QED
  BY <1>7, <1>8, <1>9

(* A transaction that ends, with a commit or without one, has inserted no   *)
(* orphans and holds on to nothing.                                         *)
LEMMA EndStep ==
  ASSUME IInv, NEW r \in Requests, Ends(r), faults' \in Nat,
         rows' \in {rows, (rows \ removed[r]) \cup inserted[r]}
  PROVE  IInv'
<1> USE DEF IInv
<1>1. TypeOK'
  BY DEF TypeOK, Ends, function, Ids
<1>2. NoOrphans'
  BY DEF NoOrphans, RequestInv, Ends
<1>3. EraserInv'
  BY DEF EraserInv, Ends, function
<1>4. RequestInv'
  BY DEF RequestInv, Ends, TypeOK, function
<1> QED
  BY <1>1, <1>2, <1>3, <1>4

(* The function's call, its snapshots and its DELETEs below tenants. *)
LEMMA EraseStep ==
  ASSUME IInv, (\E t \in Tenants : Erase(t)) \/ EraseScan \/ EraseDelete
  PROVE  IInv'
<1> USE DEF IInv
<1>1. step \in 0 .. 11 /\ Len(EraseOrder) = 9 /\ LastStep = 10 /\ Checking = 11
  BY DEF TypeOK, Checking, LastStep, EraseOrder
<1>2. CASE \E t \in Tenants : Erase(t)
  <2>1. PICK t \in Tenants : Erase(t)
    BY <1>2
  <2>2. TypeOK'
    BY <1>1, <2>1 DEF TypeOK, Erase, requests
  <2> QED
    BY <1>1, <2>1, <2>2 DEF Erase, NoOrphans, RequestInv, EraserInv, requests
<1>3. CASE EraseScan
  <2>1. TypeOK'
    BY <1>3 DEF TypeOK, EraseScan, requests, bounds
  <2>2. step \in 1 .. 9
    BY <1>3 DEF EraseScan, EraseOrder
  <2> QED
    BY <1>3, <2>1, <2>2 DEF EraseScan, NoOrphans, RequestInv, EraserInv, requests
<1>4. CASE EraseDelete
  <2>1. step \in 1 .. 9
    BY <1>4 DEF EraseDelete, EraserInv
  <2>2. /\ step' \in 0 .. Checking /\ scanned' = FALSE
        /\ snapshot' = {} /\ erased' \in SUBSET Row
    BY <1>1, <1>4, <2>1 DEF TypeOK, EraseDelete
  <2>3. TypeOK'
    BY <1>4, <2>2 DEF TypeOK, EraseDelete, requests, bounds
  <2> QED
    BY <1>1, <1>4, <2>1, <2>3 DEF EraseDelete, NoOrphans, RequestInv, EraserInv, requests
<1> QED
  BY <1>2, <1>3, <1>4

(* The last DELETE waits for whoever has inserted a row of the tenant. *)
LEMMA EraseTenantStep ==
  ASSUME IInv, EraseTenant
  PROVE  IInv'
<1> USE DEF IInv
<1>1. LastStep = 10 /\ Checking = 11
  BY DEF Checking, LastStep, EraseOrder
<1>2. \A r \in Requests : ~SharesTenant(r, target)
  BY DEF EraseTenant, Blocked, WaitsFor, EraserWaits, Actors
<1>3. TypeOK'
  BY <1>1 DEF TypeOK, EraseTenant, requests, bounds
<1>4. RequestInv'
  BY <1>2 DEF RequestInv, EraseTenant, SharesTenant, requests
<1> QED
  BY <1>1, <1>3, <1>4 DEF EraseTenant, NoOrphans, EraserInv, requests

(* Refused, broken off or not, the function is then over. *)
LEMMA EraseEndStep ==
  ASSUME IInv, EraseEnds, faults' \in Nat,
         \/ UNCHANGED <<tenants, rows>>
         \/ EraseCommit
  PROVE  IInv'
<1> USE DEF IInv
<1>1. Checking = 11
  BY DEF Checking, LastStep, EraseOrder
<1>2. TypeOK'
  <2>1. tenants' \in SUBSET Tenants /\ rows' \in SUBSET Row
    BY DEF TypeOK, EraseCommit
  <2>2. /\ target' \in Tenants \cup {NoTenant} /\ step' \in 0 .. Checking
        /\ scanned' = FALSE /\ snapshot' = {} /\ erased' = {}
    BY <1>1 DEF EraseEnds
  <2> QED
    BY <2>1, <2>2 DEF TypeOK, EraseEnds, requests
<1>3. NoOrphans'
  BY DEF NoOrphans, EraseCommit, Leftover
<1>4. RequestInv'
  BY <1>1 DEF RequestInv, EraseEnds, EraseCommit, requests
<1>5. EraserInv'
  BY DEF EraserInv, EraseEnds
<1> QED
  BY <1>2, <1>3, <1>4, <1>5

(* ... and every step preserves it. *)
LEMMA NextIInv == IInv /\ [Next]_vars => IInv'
<1> SUFFICES ASSUME IInv, [Next]_vars PROVE IInv'
  OBVIOUS
<1>1. CASE UNCHANGED vars
  BY <1>1 DEF vars, requests, function, bounds, IInv, TypeOK, NoOrphans, RequestInv, EraserInv
<1>2. ASSUME NEW r \in Requests,
             NEW h \in Handlers, NEW t \in Tenants, NEW k \in Ids, Start(r, h, t, k)
      PROVE  IInv'
  BY <1>2, StartStep
<1>3. ASSUME NEW r \in Requests, Advance(r)
      PROVE  IInv'
  <2>1. CASE Insert(r)
    BY <2>1, InsertStep
  <2>2. CASE Change(r) \/ Miss(r)
    BY <2>2, ChangeStep
  <2>3. CASE Commit(r) \/ Refused(r)
    BY <2>3, EndStep DEF Commit, Refused, IInv, TypeOK
  <2> QED
    BY <1>3, <2>1, <2>2, <2>3 DEF Advance
<1>4. ASSUME NEW r \in Requests, Fails(r) PROVE IInv'
  BY <1>4, EndStep DEF Fails, IInv, TypeOK
<1>5. CASE \E t \in Tenants : Erase(t)
  BY <1>5, EraseStep
<1>6. CASE EraseAdvance
  <2>1. CASE EraseScan \/ EraseDelete
    BY <2>1, EraseStep
  <2>2. CASE EraseTenant
    BY <2>2, EraseTenantStep
  <2>3. CASE EraseCommit \/ EraseRefused
    BY <2>3, EraseEndStep DEF EraseCommit, EraseRefused, IInv, TypeOK
  <2> QED
    BY <1>6, <2>1, <2>2, <2>3 DEF EraseAdvance
<1>7. CASE EraseFails
  BY <1>7, EraseEndStep DEF EraseFails, IInv, TypeOK
<1>8. CASE Finished
  BY <1>1, <1>8 DEF Finished
<1> QED
  BY <1>1, <1>2, <1>3, <1>4, <1>5, <1>6, <1>7, <1>8 DEF Next

(* IInv holds throughout. *)
THEOREM Invariance == Spec => []IInv
  BY InitIInv, NextIInv, PTL DEF Spec

(* The variables keep their types. *)
THEOREM TypeCorrect == Spec => []TypeOK
<1>1. IInv => TypeOK
  BY DEF IInv
<1> QED
  BY <1>1, Invariance, PTL

(* No row outlives its tenant, however requests and the function of 008    *)
(* interleave.                                                             *)
THEOREM NoneOrphaned == Spec => []NoOrphans
<1>1. IInv => NoOrphans
  BY DEF IInv
<1> QED
  BY <1>1, Invariance, PTL

(* The step in which a tenant goes takes all of its rows and no others, and *)
(* no other step of the function takes any.                                 *)
THEOREM Atomicity == Spec => ErasureIsAtomic
<1> DEFINE A ==
      /\ \A t \in tenants \ tenants' : rows' = {x \in rows : x.tenant # t}
      /\ \A x \in rows \ rows' :
           x.tenant \in tenants' => \E r \in Requests : who[r] = x.tenant /\ x \in removed[r]
<1>1. IInv /\ [Next]_vars => [A]_vars
  <2> SUFFICES ASSUME IInv, Next PROVE A
    OBVIOUS
  <2>1. CASE UNCHANGED <<tenants, rows>>
    BY <2>1
  <2>2. ASSUME NEW r \in Requests, Commit(r) PROVE A
    BY <2>2 DEF Commit, Ends, IInv, RequestInv
  <2>3. CASE EraseCommit
    <3>1. \A x \in rows : x.tenant = target <=> x \in erased
      BY <2>3 DEF EraseCommit, Leftover, IInv, EraserInv
    <3> QED
      BY <2>3, <3>1 DEF EraseCommit
  <2> QED
    BY <2>1, <2>2, <2>3 DEF Next, Start, Advance, Insert, Change, Miss, Runs, Refused,
       Fails, Ends, Erase, EraseAdvance, EraseScan, EraseDelete, EraseTenant,
       EraseRefused, EraseFails, Finished, vars
<1> QED
  BY <1>1, Invariance, PTL DEF Spec, ErasureIsAtomic

-----------------------------------------------------------------------------
(***************************************************************************)
(* Nobody waits in a circle.  Handlers change a row before they insert     *)
(* one, and a DELETE is the last statement of its handler: so a request    *)
(* that waits for a row lock holds nothing, and one that holds something   *)
(* waits for the function at most, whose foreign keys are then being       *)
(* checked; what that waits for is a request with no statement left.       *)
(***************************************************************************)
Ordered(s) ==
  \A i \in DOMAIN s :
    /\ s[i].op \in Changes \cup Upserts => \A j \in 1 .. (i - 1) : s[j].op = "find"
    /\ s[i].op = "delete" => i = Len(s)

OnlyInserts(s) == \A i \in DOMAIN s : s[i].op \in {"insert", "find"}

Holds(r) == touched[r] \cup inserted[r] # {}

LockInv ==
  \A r \in Requests :
    /\ Ordered(left[r])
    /\ Holds(r) => OnlyInserts(left[r])
    /\ removed[r] \subseteq touched[r]
    /\ removed[r] # {} => left[r] = <<>>
    /\ status[r] # "running" => touched[r] = {}

(* Every handler's statements are in that order. *)
LEMMA HandlersOrdered ==
  ASSUME NEW h \in HandlerNames PROVE Ordered(Statements(h))
<1> USE DEF Do, Ordered
<1>1. CASE h = "createWorkflow"
  BY <1>1 DEF Statements, CreateWorkflow
<1>2. CASE h = "execute"
  BY <1>2 DEF Statements, Execute
<1>3. CASE h = "connect"
  BY <1>3 DEF Statements, Connect
<1>4. CASE h = "refresh"
  BY <1>4 DEF Statements, Refresh
<1>5. CASE h = "store"
  BY <1>5 DEF Statements, Store
<1>6. CASE h = "rotate"
  BY <1>6 DEF Statements, Rotate
<1>7. CASE h = "delete"
  BY <1>7 DEF Statements, Delete
<1>8. CASE h = "getSettings"
  BY <1>8 DEF Statements, GetSettings
<1>9. CASE h = "patchSettings"
  BY <1>9 DEF Statements, PatchSettings
<1> QED
  BY <1>1, <1>2, <1>3, <1>4, <1>5, <1>6, <1>7, <1>8, <1>9 DEF HandlerNames

(* What is left after a statement that takes a lock. *)
LEMMA TailOrdered ==
  ASSUME NEW s \in Seq(Statement), s # <<>>, Ordered(s)
  PROVE  /\ Ordered(Tail(s))
         /\ Head(s).op # "find" => OnlyInserts(Tail(s))
         /\ OnlyInserts(s) => OnlyInserts(Tail(s))
         /\ Head(s).op = "delete" => Tail(s) = <<>>
<1>1. /\ Len(Tail(s)) = Len(s) - 1 /\ Len(s) \in Nat \ {0}
      /\ DOMAIN s = 1 .. Len(s) /\ DOMAIN Tail(s) = 1 .. Len(Tail(s)) /\ Head(s) = s[1]
  OBVIOUS
<1>2. \A i \in DOMAIN Tail(s) : Tail(s)[i] = s[i + 1] /\ i + 1 \in DOMAIN s /\ Tail(s)[i] \in Statement
  BY <1>1
<1>3. Ordered(Tail(s))
  BY <1>1, <1>2 DEF Ordered
<1>4. Head(s).op # "find" => OnlyInserts(Tail(s))
  BY <1>1, <1>2 DEF Ordered, OnlyInserts, Statement
<1>5. Head(s).op = "delete" => Tail(s) = <<>>
  BY <1>1 DEF Ordered
<1>6. OnlyInserts(s) => OnlyInserts(Tail(s))
  BY <1>2 DEF OnlyInserts
<1> QED
  BY <1>3, <1>4, <1>5, <1>6

(* The discipline is kept.                                                 *)
LEMMA NextLockInv == IInv /\ LockInv /\ [Next]_vars => LockInv'
<1> SUFFICES ASSUME IInv, LockInv, [Next]_vars PROVE LockInv'
  OBVIOUS
<1> USE DEF LockInv, Holds
<1>0. Ordered(<<>>) /\ OnlyInserts(<<>>)
  BY DEF Ordered, OnlyInserts
<1>1. CASE UNCHANGED <<status, left, inserted, touched, removed>>
  BY <1>1 DEF Ordered, OnlyInserts
<1>2. ASSUME NEW r \in Requests, NEW h \in Handlers, NEW t \in Tenants, NEW k \in Ids,
             Start(r, h, t, k)
      PROVE  LockInv'
  <2>1. Ordered(Statements(h))
    BY HandlersOrdered, ConstantsAssumption
  <2>2. inserted[r] = {} /\ removed[r] = {}
    BY <1>2 DEF Start, IInv, RequestInv
  <2> QED
    BY <1>2, <2>1, <2>2 DEF Start, IInv, TypeOK
<1>3. ASSUME NEW r \in Requests, left[r] # <<>>, left' = [left EXCEPT ![r] = Tail(@)]
      PROVE  /\ left[r] \in Seq(Statement) /\ left'[r] = Tail(left[r])
             /\ Ordered(left'[r]) /\ \A q \in Requests \ {r} : left'[q] = left[q]
             /\ Stmt(r).op # "find" => OnlyInserts(left'[r])
             /\ OnlyInserts(left[r]) => OnlyInserts(left'[r])
             /\ Stmt(r).op = "delete" => left'[r] = <<>>
  BY <1>3, TailOrdered DEF IInv, TypeOK, Stmt
<1>4. ASSUME NEW r \in Requests, Insert(r) PROVE LockInv'
  BY <1>3, <1>4 DEF Insert, Runs, NewRow, IInv, TypeOK
<1>5. ASSUME NEW r \in Requests, Change(r) PROVE LockInv'
  BY <1>3, <1>5 DEF Change, Runs, IInv, TypeOK
<1>6. ASSUME NEW r \in Requests, Miss(r) PROVE LockInv'
  <2>1. UNCHANGED <<inserted, touched, removed, status>> /\ Stmt(r).op # "find" /\ left[r] # <<>>
    BY <1>6 DEF Miss, Runs
  <2>2. CASE left' = [left EXCEPT ![r] = Tail(@)]
    BY <1>3, <2>1, <2>2
  <2>3. CASE left' = [left EXCEPT ![r] = <<>>]
    BY <1>0, <2>1, <2>3 DEF IInv, TypeOK
  <2> QED
    BY <1>6, <2>2, <2>3 DEF Miss
<1>7. ASSUME NEW r \in Requests, Ends(r) PROVE LockInv'
  BY <1>0, <1>7 DEF Ends, IInv, TypeOK
<1> QED
  BY <1>1, <1>2, <1>4, <1>5, <1>6, <1>7
  DEF Next, Advance, Commit, Refused, Fails, Erase, EraseAdvance, EraseScan, EraseDelete,
      EraseTenant, EraseCommit, EraseRefused, EraseFails, EraseEnds, Finished, vars, requests

(* A request that holds a row, and waits, waits for the foreign keys.      *)
LEMMA HolderWaits ==
  ASSUME IInv, LockInv, NEW r \in Requests, Holds(r), NEW b \in Actors, RequestWaits(r, b)
  PROVE  b = Eraser /\ step = Checking
<1>1. left[r] # <<>> /\ left[r] \in Seq(Statement)
  BY DEF RequestWaits, IInv, TypeOK
<1>2. Stmt(r).op \notin Changes \cup Upserts
  BY <1>1 DEF LockInv, OnlyInserts, Stmt
<1> QED
  BY <1>2 DEF RequestWaits

(* The foreign keys wait for requests that wait for nobody.                *)
LEMMA CheckWaits ==
  ASSUME IInv, LockInv, step = Checking, NEW d \in Actors, EraserWaits(d), NEW b \in Actors
  PROVE  d \in Requests /\ ~RequestWaits(d, b)
<1>1. ~scanned /\ step # LastStep
  BY DEF IInv, EraserInv, TypeOK, Checking, LastStep, EraseOrder
<1> QED
  BY <1>1 DEF EraserWaits, LockInv, RequestWaits

(* Among any set of waiting requests, with or without the function, there  *)
(* is one that waits for none of them.                                     *)
LEMMA NoCircle == IInv /\ LockInv => NoDeadlock
<1> SUFFICES ASSUME IInv, LockInv, NEW S \in SUBSET Actors, S # {},
                    ~ \E a \in S : \A b \in S : ~WaitsFor(a, b)
             PROVE  FALSE
  BY DEF NoDeadlock
<1> S \subseteq Actors /\ S # {} /\ \A a \in S : \E b \in S : WaitsFor(a, b)
  OBVIOUS
<1>0. Eraser \notin Requests /\ \A a \in S : a = Eraser \/ a \in Requests
  BY ConstantsAssumption DEF Actors
<1>1. \A a \in S, b \in S : WaitsFor(a, b) /\ b # Eraser => Holds(b)
  BY <1>0 DEF WaitsFor, RequestWaits, EraserWaits, SharesTenant, Holds, LockInv
<1>2. \A b \in S : b # Eraser /\ Holds(b) => Eraser \in S /\ step = Checking
  BY <1>0, HolderWaits DEF WaitsFor, Actors
<1>3. Eraser \in S
  BY <1>1, <1>2
<1>4. PICK d \in S : EraserWaits(d)
  BY <1>3 DEF WaitsFor
<1>5. d \in Requests /\ d # Eraser
  BY <1>0, <1>4 DEF EraserWaits
<1>6. step = Checking
  BY <1>1, <1>2, <1>3, <1>4, <1>5 DEF WaitsFor
<1>7. PICK b \in S : RequestWaits(d, b)
  BY <1>5 DEF WaitsFor
<1> QED
  BY <1>4, <1>6, <1>7, CheckWaits

(* Whatever the handlers called, the tenants and the migrations, requests  *)
(* and the function never wait for one another in a circle.                *)
THEOREM DeadlockFree == Spec => []NoDeadlock
<1>1. Init => LockInv
  BY DEF Init, LockInv, Ordered, OnlyInserts, Holds
<1>2. IInv /\ LockInv /\ [Next]_vars => LockInv'
  BY NextLockInv
<1> QED
  BY <1>1, <1>2, NoCircle, Invariance, PTL DEF Spec
=============================================================================
