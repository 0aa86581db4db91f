------------------------- MODULE RedisIntakeProofs -------------------------
(***************************************************************************)
(* Theorems about RedisIntake, for any requests, ids, time to live and     *)
(* failures.                                                               *)
(*                                                                         *)
(* What Redis has on disk is what it had in memory a second ago: a key     *)
(* there is the one in memory or has expired, a job there is in memory, or *)
(* its completion is (DiskInv).  Everything else is accounting: each key   *)
(* is owed to a delivery that stored it (KeyInv), each job to a call or    *)
(* one of its resends, each run to a job or a lost completion (CallInv).   *)
(***************************************************************************)
EXTENDS RedisIntake, FiniteSetTheorems, TLAPS

(* A key that expires at n was stored by a delivery of its id, or by one   *)
(* that lost its reply.                                                    *)
Owed(i, n) ==
  \E e \in Deliveries :
    IdOf[e] = i /\ (resends[e] > 0 \/ (reply[e] = 1 /\ at[e] + TTL = n /\ at[e] <= now))

KeyInv(i) ==
  /\ mem.expires[i] # 0 => Owed(i, mem.expires[i])
  /\ disk.expires[i] # 0 => Owed(i, disk.expires[i])

Complete(j) == [j EXCEPT !.done = TRUE]

DiskInv ==
  /\ ~up => mem = disk
  /\ \A i \in Ids : /\ disk.expires[i] <= mem.expires[i]
                    /\ disk.expires[i] = mem.expires[i] \/ disk.expires[i] <= now
  /\ \A j \in disk.jobs : j \in mem.jobs \/ Complete(j) \in mem.jobs
  /\ \A j \in mem.jobs : j.id <= mem.last
  /\ \A j \in disk.jobs : j.id <= disk.last
  /\ IsFiniteSet(mem.jobs) /\ IsFiniteSet(disk.jobs)

(* What d repeats was stored: DuplicateWasStored, of one delivery.         *)
Repeats(d) ==
  \E e \in Deliveries :
    /\ IdOf[e] = IdOf[d]
    /\ resends[e] > 0 \/ (reply[e] = 1 /\ at[e] <= at[d] /\ at[d] < at[e] + TTL)

DeliveryInv(d) ==
  /\ reply[d] \in {0, 1} /\ (status[d] = 200 => reply[d] = 1)
  /\ phase[d] \in {"new", "sent"} => reply[d] = 0
  /\ phase[d] # "answered" => status[d] = 0
  /\ reply[d] = 1 =>
       /\ at[d] <= now
       /\ IdOf[d] \in forgotten \/ at[d] + TTL <= mem.expires[IdOf[d]] \/ at[d] + TTL <= now
  /\ (phase[d] = "executed" /\ reply[d] = 0) \/ status[d] = 409 => Repeats(d)

Apart ==
  \A d, e \in Deliveries :
    d # e /\ IdOf[d] = IdOf[e] /\ IdOf[d] \notin forgotten /\ reply[d] = 1 /\ reply[e] = 1
      => at[d] + TTL <= at[e] \/ at[e] + TTL <= at[d]

(* The jobs of c that wait. *)
Open(data, c) == {j \in data.jobs : j.call = c /\ ~j.done}

KeptOn(data, c) == \E j \in data.jobs : j.id = reply[c] /\ j.call = c

CallInv(c) ==
  /\ made[c] <= (IF phase[c] \in {"new", "sent"} THEN 0 ELSE 1) + resends[c]
  /\ phase[c] # "answered" => status[c] = 0
  /\ runs[c] + Cardinality(Open(mem, c)) <= made[c] + reruns[c]
  /\ (phase[c] = "executed" \/ status[c] = 202) /\ at[c] < now /\ KeptOn(mem, c) => KeptOn(disk, c)

IInv ==
  /\ TypeOK /\ DiskInv
  /\ \A i \in Ids : KeyInv(i)
  /\ \A d \in Deliveries : DeliveryInv(d)
  /\ Apart
  /\ \A c \in Calls : CallInv(c)

-----------------------------------------------------------------------------
(***************************************************************************)
(* Operators.                                                              *)
(***************************************************************************)
(* A completed job is the job it was, but for being done.                  *)
LEMMA CompleteJob ==
  ASSUME NEW j \in Job
  PROVE  /\ Complete(j) \in Job /\ Complete(j).done /\ Complete(j).id = j.id
         /\ Complete(j).call = j.call /\ (j.done => Complete(j) = j)
  BY DEF Complete, Job

(* Storing a key changes its expiry alone.                                 *)
LEMMA StoredKey ==
  ASSUME NEW data \in Data, NEW i \in Ids, NEW n \in Nat
  PROVE  LET new == [data EXCEPT !.expires[i] = n]
         IN  /\ new \in Data /\ new.jobs = data.jobs /\ new.last = data.last
             /\ new.expires[i] = n /\ \A k \in Ids : k # i => new.expires[k] = data.expires[k]
  BY DEF Data

(* Adding a job changes the jobs and the counter alone.                    *)
LEMMA AddedJob ==
  ASSUME NEW data \in Data, NEW c \in Calls
  PROVE  LET id == data.last + 1
             j == [id |-> id, call |-> c, done |-> FALSE]
             new == [data EXCEPT !.last = id, !.jobs = @ \cup {j}]
         IN  /\ j \in Job /\ new \in Data /\ new.expires = data.expires
             /\ new.last = id /\ new.jobs = data.jobs \cup {j}
<1> DEFINE id == data.last + 1
           j == [id |-> id, call |-> c, done |-> FALSE]
           new == [data EXCEPT !.last = id, !.jobs = @ \cup {j}]
<1>1. data.last \in Nat /\ data.jobs \subseteq Job /\ data.expires \in [Ids -> Nat]
  BY DEF Data
<1>2. j \in Job
  BY <1>1 DEF Job
<1> DEFINE mid == [data EXCEPT !.last = id]
<1>3. /\ mid \in [expires : [Ids -> Nat], jobs : SUBSET Job, last : Nat]
      /\ mid.expires = data.expires /\ mid.jobs = data.jobs /\ mid.last = id
  BY <1>1 DEF Data
<1>4. new = [mid EXCEPT !.jobs = @ \cup {j}]
  OBVIOUS
<1> HIDE DEF new, mid
<1>5. /\ new \in Data /\ new.expires = data.expires
      /\ new.last = id /\ new.jobs = data.jobs \cup {j}
  BY <1>1, <1>2, <1>3, <1>4 DEF Data
<1> QED
  BY <1>2, <1>5 DEF new

(* Completing one changes the jobs alone.                                  *)
LEMMA WorkedJob ==
  ASSUME NEW data \in Data, NEW j \in data.jobs
  PROVE  LET new == [data EXCEPT !.jobs = (@ \ {j}) \cup {Complete(j)}]
         IN  /\ j \in Job /\ new \in Data /\ new.expires = data.expires /\ new.last = data.last
             /\ new.jobs = (data.jobs \ {j}) \cup {Complete(j)}
<1>1. j \in Job /\ Complete(j) \in Job
  BY CompleteJob DEF Data
<1> QED
  BY <1>1 DEF Data

(* The waiting jobs of a call are finitely many.                           *)
LEMMA OpenFinite ==
  ASSUME NEW data \in Data, IsFiniteSet(data.jobs), NEW c \in Calls
  PROVE  IsFiniteSet(Open(data, c)) /\ Cardinality(Open(data, c)) \in Nat
<1>1. Open(data, c) \in SUBSET data.jobs
  BY DEF Open
<1> QED
  BY <1>1, FS_Subset, FS_CardinalityType

(* The completions of a call that a crash loses.                           *)
LostDone(c) ==
  {j \in disk.jobs : j.call = c /\ ~j.done /\ [j EXCEPT !.done = TRUE] \in mem.jobs}

(* They are finitely many.                                                 *)
LEMMA LostFinite ==
  ASSUME IsFiniteSet(disk.jobs), NEW c \in Calls
  PROVE  IsFiniteSet(LostDone(c)) /\ Cardinality(LostDone(c)) \in Nat
<1>1. LostDone(c) \in SUBSET disk.jobs
  BY DEF LostDone
<1> QED
  BY <1>1, FS_Subset, FS_CardinalityType

(* Going back to the disk reopens what was completed since, and no more.   *)
LEMMA Reopened ==
  ASSUME mem \in Data, disk \in Data, DiskInv, NEW c \in Calls
  PROVE  Cardinality(Open(disk, c)) <= Cardinality(Open(mem, c)) + Cardinality(LostDone(c))
<1> DEFINE S == Open(mem, c)
           L == LostDone(c)
<1>1. /\ IsFiniteSet(S) /\ Cardinality(S) \in Nat /\ IsFiniteSet(L) /\ Cardinality(L) \in Nat
      /\ IsFiniteSet(Open(disk, c)) /\ Cardinality(Open(disk, c)) \in Nat
  BY OpenFinite, LostFinite DEF DiskInv
<1>2. Open(disk, c) \subseteq S \cup L
  BY DEF Open, LostDone, DiskInv, Complete
<1>3. IsFiniteSet(S \cup L) /\ Cardinality(Open(disk, c)) <= Cardinality(S \cup L)
  BY <1>1, <1>2, FS_Union, FS_Subset
<1>4. IsFiniteSet(S \cap L) /\ Cardinality(S \cap L) \in Nat
  BY <1>1, FS_Intersection, FS_CardinalityType
<1>5. Cardinality(S \cup L) = Cardinality(S) + Cardinality(L) - Cardinality(S \cap L)
  BY <1>1, FS_Union
<1> QED
  BY <1>1, <1>3, <1>4, <1>5, FS_CardinalityType

-----------------------------------------------------------------------------
(***************************************************************************)
(* Types.                                                                  *)
(***************************************************************************)
(* The first state has the types.                                          *)
LEMMA InitTyped == Init => TypeOK
  BY DEF Init, TypeOK, Data, Job, Empty, Waiting

(* An execution of one command.                                            *)
LEMMA ExecutesTyped ==
  ASSUME TypeOK, NEW r \in Requests, NEW n \in Nat, NEW data \in Data, Executes(r, n, data),
         UNCHANGED <<forgotten, runs, reruns>>, made' \in [Calls -> Nat]
  PROVE  TypeOK'
  BY DEF TypeOK, Executes, Waiting, bounds

(* Commands that are sent again.                                           *)
LEMMA ResendsTyped ==
  ASSUME TypeOK, NEW R, ResendsAll(R)
  PROVE  /\ phase' \in [Requests -> {"new", "sent", "executed", "answered"}]
         /\ reply' \in [Requests -> Nat] /\ resends' \in [Requests -> Nat]
         /\ \A r \in Requests : phase'[r] = "executed" => phase[r] = "executed" /\ r \notin R
  BY DEF TypeOK, ResendsAll, Waiting

(* Every step keeps the types.                                             *)
LEMMA NextTyped == TypeOK /\ DiskInv /\ [Next]_vars => TypeOK'
<1> SUFFICES ASSUME TypeOK, DiskInv, [Next]_vars PROVE TypeOK'
  OBVIOUS
<1> USE ConstantsAssumption DEF history, bounds
<1>1. ASSUME NEW r \in Requests, Send(r) PROVE TypeOK'
  BY <1>1 DEF TypeOK, Send, Arriving, Waiting
<1>2. ASSUME NEW r \in Requests, NEW code \in {200, 202, 400, 401, 409, 500}, Answer(r, code),
             UNCHANGED <<up, mem, disk, now, reply, at, resends, bounds, history>>
      PROVE  TypeOK'
  BY <1>2 DEF TypeOK, Answer, Waiting
<1>3. ASSUME NEW r \in Requests, Refuse(r) PROVE TypeOK'
  BY <1>2, <1>3 DEF Refuse
<1>4. ASSUME NEW r \in Requests, Reply(r) \/ GiveUp(r) PROVE TypeOK'
  <2>1. CASE Reply(r)
    BY <1>2, <2>1 DEF Reply, CodeFor
  <2>2. CASE GiveUp(r)
    BY <1>2, <2>2 DEF GiveUp
  <2> QED
    BY <1>4, <2>1, <2>2
<1>5. ASSUME NEW d \in Deliveries, SetReplayKey(d) PROVE TypeOK'
  <2>1. IdOf[d] \in Ids /\ now + TTL \in Nat /\ mem \in Data /\ d \in Requests
    BY DEF TypeOK, Requests
  <2>2. [mem EXCEPT !.expires[IdOf[d]] = now + TTL] \in Data
    BY <2>1, StoredKey
  <2>3. UNCHANGED <<forgotten, runs, reruns>> /\ made' \in [Calls -> Nat]
    BY <1>5 DEF SetReplayKey, TypeOK
  <2> QED
    BY <1>5, <2>1, <2>2, <2>3, ExecutesTyped DEF SetReplayKey
<1>6. ASSUME NEW c \in Calls, AddJob(c) PROVE TypeOK'
  <2>1. mem \in Data /\ mem.last + 1 \in Nat /\ c \in Requests
    BY DEF TypeOK, Data, Requests
  <2>2. [mem EXCEPT !.last = mem.last + 1,
                    !.jobs = @ \cup {[id |-> mem.last + 1, call |-> c, done |-> FALSE]}] \in Data
    BY <2>1, AddedJob, ZenonT(60)
  <2>3. UNCHANGED <<forgotten, runs, reruns>> /\ made' \in [Calls -> Nat]
    BY <1>6 DEF AddJob, TypeOK
  <2> QED
    BY <1>6, <2>1, <2>2, <2>3, ExecutesTyped DEF AddJob
<1>7. ASSUME Work PROVE TypeOK'
  <2>1. PICK j \in mem.jobs :
          /\ mem' = [mem EXCEPT !.jobs = (@ \ {j}) \cup {Complete(j)}]
          /\ runs' = [runs EXCEPT ![j.call] = @ + 1]
    BY <1>7 DEF Work, Complete
  <2>2. mem' \in Data
    BY <2>1, WorkedJob DEF TypeOK
  <2>3. runs' \in [Calls -> Nat]
    BY <2>1, WorkedJob DEF TypeOK, Job
  <2> QED
    BY <1>7, <2>2, <2>3 DEF Work, TypeOK, requests, Waiting
<1>8. ASSUME Tick PROVE TypeOK'
  BY <1>8 DEF Tick, TypeOK, requests, Waiting
<1>9. ASSUME ConnectionBreaks PROVE TypeOK'
  <2>1. PICK R \in {Deliveries, Calls} : ResendsAll(R)
    BY <1>9 DEF ConnectionBreaks
  <2> QED
    BY <1>9, <2>1, ResendsTyped DEF ConnectionBreaks, TypeOK, Waiting
<1>10. ASSUME RedisCrash PROVE TypeOK'
  <2>1. reruns' \in [Calls -> Nat]
    <3>1. reruns' = [c \in Calls |-> reruns[c] + Cardinality(LostDone(c))]
      BY <1>10 DEF RedisCrash, LostDone
    <3>2. \A c \in Calls : reruns[c] \in Nat /\ Cardinality(LostDone(c)) \in Nat
      BY LostFinite DEF TypeOK, DiskInv
    <3> QED
      BY <3>1, <3>2
  <2>2. forgotten' \subseteq Ids
    BY <1>10 DEF RedisCrash, TypeOK
  <2>3. /\ phase' \in [Requests -> {"new", "sent", "executed", "answered"}]
        /\ reply' \in [Requests -> Nat] /\ resends' \in [Requests -> Nat]
        /\ \A r \in Requests : phase'[r] # "executed"
    BY <1>10, ResendsTyped DEF RedisCrash
  <2>4. /\ up' = FALSE /\ mem' = disk /\ crashes' = crashes + 1
        /\ UNCHANGED <<disk, now, at, status, breaks, made, runs>>
    BY <1>10 DEF RedisCrash
  <2>5. Waiting(Requests)' = {}
    BY <2>3 DEF Waiting
  <2>6. up' \in BOOLEAN
    BY <2>4
  <2>7. crashes' \in Nat
    BY <2>4 DEF TypeOK
  <2> QED
    BY <2>1, <2>2, <2>3, <2>4, <2>5, <2>6, <2>7 DEF TypeOK
<1>11. ASSUME RedisRestart \/ GatewayCrash PROVE TypeOK'
  <2>1. CASE RedisRestart
    BY <2>1 DEF RedisRestart, TypeOK, requests, Waiting
  <2>2. CASE GatewayCrash
    BY <2>2 DEF GatewayCrash, TypeOK, Waiting
  <2> QED
    BY <1>11, <2>1, <2>2
<1>12. ASSUME UNCHANGED vars PROVE TypeOK'
  BY <1>12 DEF vars, TypeOK, requests, Waiting
<1> QED
  BY <1>1, <1>3, <1>4, <1>5, <1>6, <1>7, <1>8, <1>9, <1>10, <1>11, <1>12
  DEF Next, Intake, Requests

-----------------------------------------------------------------------------
(***************************************************************************)
(* The invariant, action by action.                                        *)
(***************************************************************************)
(* Nothing is stored, and nothing has been asked for.                      *)
LEMMA InitIInv == Init => IInv
<1> SUFFICES ASSUME Init PROVE IInv
  OBVIOUS
<1>1. TypeOK
  BY InitTyped
<1>2. DiskInv
  BY FS_EmptySet DEF Init, Empty, DiskInv
<1>3. \A c \in Calls : CallInv(c)
  <2> TAKE c \in Calls
  <2>1. Open(mem, c) = {} /\ c \in Requests
    BY DEF Init, Empty, Open, Requests
  <2>2. Cardinality(Open(mem, c)) = 0
    BY <2>1, FS_EmptySet
  <2> QED
    BY <2>1, <2>2 DEF Init, CallInv
<1>4. \A d \in Deliveries : DeliveryInv(d)
  BY DEF Init, DeliveryInv, Requests
<1>5. (\A i \in Ids : KeyInv(i)) /\ Apart
  BY DEF Init, Empty, KeyInv, Apart, Requests
<1> QED
  BY <1>1, <1>2, <1>3, <1>4, <1>5 DEF IInv

(* A request goes on, without Redis.                                       *)
Turns(r) ==
  \/ phase'[r] = phase[r] /\ status'[r] = status[r]
  \/ phase[r] = "new" /\ phase'[r] = "sent" /\ status'[r] = status[r]
  \/ phase'[r] = "answered" /\ status'[r] \in {status[r], 400, 401, 500}
  \/ phase[r] = "executed" /\ phase'[r] = "answered" /\ status'[r] = CodeFor(r)

(* Answers say what Redis said.                                            *)
LEMMA TurnsKeep ==
  ASSUME IInv, TypeOK', UNCHANGED <<mem, disk, now, reply, at, resends, history>>, up' = up \/ up',
         \A r \in Requests : Turns(r)
  PROVE  IInv'
<1> USE DEF history
<1>1. DiskInv'
  BY DEF IInv, DiskInv
<1>2. \A i \in Ids : KeyInv(i)'
  BY DEF IInv, KeyInv, Owed
<1>3. \A d \in Deliveries : DeliveryInv(d)'
  <2> TAKE d \in Deliveries
  <2>1. d \in Requests /\ d \notin Calls
    BY ConstantsAssumption DEF Requests
  <2>2. Turns(d)
    BY <2>1
  <2>3. Repeats(d)' <=> Repeats(d)
    BY DEF Repeats
  <2> QED
    BY <2>1, <2>2, <2>3 DEF Turns, CodeFor, IInv, DeliveryInv
<1>4. Apart'
  BY DEF IInv, Apart
<1>5. \A c \in Calls : CallInv(c)'
  <2> TAKE c \in Calls
  <2>1. c \in Requests /\ Turns(c)
    BY DEF Requests
  <2>2. made[c] \in Nat /\ resends[c] \in Nat
    BY <2>1 DEF IInv, TypeOK
  <2>3. (KeptOn(mem, c)' <=> KeptOn(mem, c)) /\ (KeptOn(disk, c)' <=> KeptOn(disk, c)) /\ Open(mem, c)' = Open(mem, c)
    BY DEF KeptOn, Open
  <2>4. made[c] <= (IF phase'[c] \in {"new", "sent"} THEN 0 ELSE 1) + resends[c]
    BY <2>1, <2>2 DEF Turns, IInv, CallInv
  <2> QED
    BY <2>1, <2>3, <2>4 DEF Turns, IInv, CallInv
<1> QED
  BY <1>1, <1>2, <1>3, <1>4, <1>5 DEF IInv

(* The handlers, and the ends of the gateway and of Redis' downtime.       *)
LEMMA HandlersKeep ==
  ASSUME IInv, TypeOK',
         (\E r \in Requests : Send(r) \/ Reply(r) \/ GiveUp(r)) \/ (\E d \in Deliveries : Refuse(d))
           \/ RedisRestart \/ GatewayCrash
  PROVE  IInv'
<1> USE DEF IInv, TypeOK, Turns
<1>1. ASSUME NEW r \in Requests, Send(r) PROVE IInv'
  BY <1>1, TurnsKeep DEF Send, Arriving
<1>2. ASSUME NEW r \in Requests, Reply(r) PROVE IInv'
  BY <1>2, TurnsKeep DEF Reply, Answer
<1>3. ASSUME NEW r \in Requests, GiveUp(r) PROVE IInv'
  BY <1>3, TurnsKeep DEF GiveUp, Answer
<1>4. ASSUME NEW d \in Deliveries, Refuse(d) PROVE IInv'
  BY <1>4, TurnsKeep DEF Refuse, Answer
<1>5. CASE RedisRestart
  BY <1>5, TurnsKeep DEF RedisRestart, requests
<1>6. CASE GatewayCrash
  BY <1>6, TurnsKeep DEF GatewayCrash
<1> QED
  BY <1>1, <1>2, <1>3, <1>4, <1>5, <1>6

(* What has been stored is still owed to whoever stored it when commands   *)
(* are sent again.                                                         *)
LEMMA ResendsFacts ==
  ASSUME IInv, NEW R, R \subseteq Requests, ResendsAll(R), UNCHANGED <<at, now, status>>
  PROVE  /\ \A r \in Requests :
              \/ /\ phase[r] = "executed" /\ phase'[r] = "sent" /\ reply'[r] = 0
                 /\ resends'[r] = resends[r] + 1
              \/ /\ phase'[r] = phase[r] /\ reply'[r] = reply[r] /\ resends'[r] = resends[r]
         /\ \A i \in Ids, n \in Nat : Owed(i, n) => Owed(i, n)'
         /\ \A d \in Deliveries : Repeats(d) => Repeats(d)'
<1>1. \A r \in Requests :
         \/ /\ phase[r] = "executed" /\ phase'[r] = "sent" /\ reply'[r] = 0
            /\ resends'[r] = resends[r] + 1
         \/ /\ phase'[r] = phase[r] /\ reply'[r] = reply[r] /\ resends'[r] = resends[r]
  BY DEF ResendsAll, Waiting, IInv, TypeOK
<1>2. \A e \in Deliveries : /\ resends[e] > 0 => resends'[e] > 0
                            /\ reply[e] = 1 => resends'[e] > 0 \/ reply'[e] = 1
  <2> TAKE e \in Deliveries
  <2>1. e \in Requests /\ resends[e] \in Nat
    BY DEF Requests, IInv, TypeOK
  <2> QED
    BY <1>1, <2>1
<1>3. \A i \in Ids, n \in Nat : Owed(i, n) => Owed(i, n)'
  BY <1>2 DEF Owed
<1>4. \A d \in Deliveries : Repeats(d) => Repeats(d)'
  BY <1>2 DEF Repeats
<1> QED
  BY <1>1, <1>3, <1>4

(* Requests whose reply is lost are as if it had never been.               *)
LEMMA ResendsDelivery ==
  ASSUME IInv, NEW R, R \subseteq Requests, ResendsAll(R), UNCHANGED <<at, now, status>>,
         NEW d \in Deliveries,
         reply[d] = 1 => IdOf[d] \in forgotten' \/ at[d] + TTL <= mem'.expires[IdOf[d]] \/ at[d] + TTL <= now
  PROVE  DeliveryInv(d)'
<1>1. d \in Requests /\ DeliveryInv(d)
  BY DEF Requests, IInv
<1>2. Repeats(d) => Repeats(d)'
  BY ResendsFacts
<1>3. \/ /\ phase[d] = "executed" /\ phase'[d] = "sent" /\ reply'[d] = 0
         /\ resends'[d] = resends[d] + 1
      \/ /\ phase'[d] = phase[d] /\ reply'[d] = reply[d] /\ resends'[d] = resends[d]
  BY <1>1, ResendsFacts
<1>4. status'[d] = status[d] /\ at'[d] = at[d] /\ now' = now
  OBVIOUS
<1> QED
  BY <1>1, <1>2, <1>3, <1>4 DEF DeliveryInv

(* A connection that breaks.                                               *)
LEMMA BreakKeeps ==
  ASSUME IInv, TypeOK', ConnectionBreaks
  PROVE  IInv'
<1>1. PICK R \in {Deliveries, Calls} : ResendsAll(R)
  BY DEF ConnectionBreaks
<1>2. R \subseteq Requests /\ UNCHANGED <<up, mem, disk, now, at, status, history>>
  BY DEF ConnectionBreaks, Requests
<1>3. /\ \A r \in Requests :
              \/ /\ phase[r] = "executed" /\ phase'[r] = "sent" /\ reply'[r] = 0
                 /\ resends'[r] = resends[r] + 1
              \/ /\ phase'[r] = phase[r] /\ reply'[r] = reply[r] /\ resends'[r] = resends[r]
      /\ \A i \in Ids, n \in Nat : Owed(i, n) => Owed(i, n)'
  BY <1>1, <1>2, ResendsFacts
<1>4. DiskInv'
  BY <1>2 DEF IInv, DiskInv
<1>5. \A i \in Ids : KeyInv(i)'
  <2> TAKE i \in Ids
  <2>1. PICK m \in Nat, n \in Nat : m = mem.expires[i] /\ n = disk.expires[i]
    BY DEF IInv, TypeOK, Data
  <2>2. (m # 0 => Owed(i, m)') /\ (n # 0 => Owed(i, n)')
    BY <1>3, <2>1 DEF IInv, KeyInv
  <2> QED
    BY <1>2, <2>1, <2>2 DEF KeyInv
<1>6. \A d \in Deliveries : DeliveryInv(d)'
  BY <1>1, <1>2, ResendsDelivery DEF IInv, DeliveryInv, history
<1>7. Apart'
  BY <1>2, <1>3 DEF IInv, Apart, history, Requests
<1>8. \A c \in Calls : CallInv(c)'
  <2> TAKE c \in Calls
  <2>1. /\ c \in Requests /\ made[c] \in Nat /\ resends[c] \in Nat
        /\ UNCHANGED <<made, runs, reruns, mem, disk, status, at, now>>
    BY <1>2 DEF Requests, IInv, TypeOK, history
  <2>2. CallInv(c)
    BY DEF IInv
  <2>3. Open(mem, c)' = Open(mem, c)
    BY <2>1 DEF Open
  <2>4. CASE phase[c] = "executed" /\ phase'[c] = "sent" /\ resends'[c] = resends[c] + 1
    BY <2>1, <2>2, <2>3, <2>4 DEF CallInv
  <2>5. CASE phase'[c] = phase[c] /\ reply'[c] = reply[c] /\ resends'[c] = resends[c]
    <3>1. (KeptOn(mem, c)' <=> KeptOn(mem, c)) /\ (KeptOn(disk, c)' <=> KeptOn(disk, c))
      BY <2>1, <2>5 DEF KeptOn
    <3> QED
      BY <2>1, <2>2, <2>3, <2>5, <3>1 DEF CallInv
  <2> QED
    BY <1>3, <2>1, <2>4, <2>5
<1> QED
  BY <1>4, <1>5, <1>6, <1>7, <1>8 DEF IInv

(* Redis comes back with what it had on disk: a key that lived and does    *)
(* not live there is forgotten, and completions that are not are lost.     *)
LEMMA CrashKeeps ==
  ASSUME IInv, TypeOK', RedisCrash
  PROVE  IInv'
<1>1. /\ ResendsAll(Requests) /\ mem' = disk /\ UNCHANGED <<disk, now, at, status, made, runs>>
      /\ forgotten' = forgotten \cup {i \in Ids : Live(mem, i) /\ ~Live(disk, i)}
      /\ reruns' = [c \in Calls |-> reruns[c] + Cardinality(LostDone(c))]
  BY DEF RedisCrash, LostDone
<1>2. /\ \A r \in Requests :
              \/ /\ phase[r] = "executed" /\ phase'[r] = "sent" /\ reply'[r] = 0
                 /\ resends'[r] = resends[r] + 1
              \/ /\ phase'[r] = phase[r] /\ reply'[r] = reply[r] /\ resends'[r] = resends[r]
      /\ \A i \in Ids, n \in Nat : Owed(i, n) => Owed(i, n)'
  BY <1>1, ResendsFacts
<1>3. DiskInv'
  <2>1. mem' = disk /\ disk' = disk /\ now' = now /\ disk \in Data
    BY <1>1 DEF IInv, TypeOK
  <2>2. \A i \in Ids : disk.expires[i] \in Nat
    BY <2>1 DEF Data
  <2> QED
    BY <2>1, <2>2 DEF IInv, DiskInv
<1>4. \A i \in Ids : KeyInv(i)'
  <2> TAKE i \in Ids
  <2>1. PICK n \in Nat : n = disk.expires[i]
    BY DEF IInv, TypeOK, Data
  <2>2. n # 0 => Owed(i, n)'
    BY <1>2, <2>1 DEF IInv, KeyInv
  <2> QED
    BY <1>1, <2>1, <2>2 DEF KeyInv
<1>5. \A d \in Deliveries : DeliveryInv(d)'
  <2> TAKE d \in Deliveries
  <2> DEFINE i == IdOf[d]
  <2>1. i \in Ids
    BY ConstantsAssumption
  <2>2. mem.expires[i] \in Nat /\ disk.expires[i] \in Nat /\ now \in Nat /\ at[d] + TTL \in Nat
    BY <2>1, ConstantsAssumption DEF IInv, TypeOK, Data, Requests
  <2>3. disk.expires[i] = mem.expires[i] \/ disk.expires[i] <= now
    BY <2>1 DEF IInv, DiskInv
  <2>4. reply[d] = 1 => i \in forgotten \/ at[d] + TTL <= mem.expires[i] \/ at[d] + TTL <= now
    BY DEF IInv, DeliveryInv
  <2>5. reply[d] = 1 => i \in forgotten' \/ at[d] + TTL <= mem'.expires[i] \/ at[d] + TTL <= now
    <3>1. CASE mem.expires[i] > now /\ ~(disk.expires[i] > now)
      BY <1>1, <2>1, <3>1 DEF Live
    <3>2. CASE mem.expires[i] > now /\ disk.expires[i] > now
      BY <1>1, <2>2, <2>3, <2>4, <3>2
    <3>3. CASE ~(mem.expires[i] > now)
      BY <1>1, <2>2, <2>4, <3>3
    <3> QED
      BY <3>1, <3>2, <3>3
  <2> QED
    BY <1>1, <2>5, ResendsDelivery
<1>6. Apart'
  BY <1>1, <1>2 DEF IInv, Apart, Requests
<1>7. \A c \in Calls : CallInv(c)'
  <2> TAKE c \in Calls
  <2>1. /\ c \in Requests /\ made[c] \in Nat /\ resends[c] \in Nat /\ runs[c] \in Nat /\ reruns[c] \in Nat
        /\ UNCHANGED <<made, runs, status, at, now>>
        /\ Cardinality(LostDone(c)) \in Nat
        /\ Cardinality(Open(mem, c)) \in Nat /\ Cardinality(Open(disk, c)) \in Nat
    BY <1>1, OpenFinite, LostFinite DEF Requests, IInv, TypeOK, DiskInv
  <2>2. CallInv(c)
    BY DEF IInv
  <2>3. runs'[c] + Cardinality(Open(mem, c))' <= made'[c] + reruns'[c]
    <3>1. Cardinality(Open(disk, c)) <= Cardinality(Open(mem, c)) + Cardinality(LostDone(c))
      BY Reopened DEF IInv, TypeOK
    <3>2. reruns'[c] = reruns[c] + Cardinality(LostDone(c)) /\ Open(mem, c)' = Open(disk, c)
      BY <1>1 DEF Open
    <3> QED
      BY <2>1, <2>2, <3>1, <3>2 DEF CallInv
  <2>4. KeptOn(mem, c)' <=> KeptOn(disk, c)'
    BY <1>1 DEF KeptOn
  <2>5. made'[c] <= (IF phase'[c] \in {"new", "sent"} THEN 0 ELSE 1) + resends'[c]
    BY <1>2, <2>1, <2>2 DEF CallInv
  <2>6. phase'[c] # "answered" => status'[c] = 0
    BY <1>2, <2>1, <2>2 DEF CallInv
  <2> QED
    BY <2>3, <2>4, <2>5, <2>6 DEF CallInv
<1> QED
  BY <1>3, <1>4, <1>5, <1>6, <1>7 DEF IInv

(* What one command changes: its own request.                              *)
LEMMA ExecutesFacts ==
  ASSUME IInv, NEW r \in Requests, NEW n \in Nat, NEW data, Executes(r, n, data)
  PROVE  /\ phase[r] = "sent" /\ phase'[r] = "executed" /\ reply'[r] = n /\ at'[r] = now
         /\ \A q \in Requests : q # r =>
              phase'[q] = phase[q] /\ reply'[q] = reply[q] /\ at'[q] = at[q]
         /\ mem' = data /\ UNCHANGED <<up, disk, now, status, resends>> /\ up
  BY DEF Executes, IInv, TypeOK

(* What was owed, or repeated, while a delivery had no reply still is when *)
(* it gets one.                                                            *)
LEMMA ReplyKeepsOwed ==
  ASSUME IInv, NEW d \in Deliveries, NEW n \in Nat, NEW data, Executes(d, n, data)
  PROVE  /\ \A i \in Ids, m \in Nat : Owed(i, m) => Owed(i, m)'
         /\ \A f \in Deliveries : f # d /\ Repeats(f) => Repeats(f)'
<1>1. d \in Requests /\ phase[d] = "sent" /\ reply[d] = 0 /\ UNCHANGED <<resends, now>>
  BY ExecutesFacts DEF Requests, IInv, DeliveryInv
<1>2. \A e \in Deliveries : reply[e] = 1 => e # d /\ reply'[e] = 1 /\ at'[e] = at[e]
  BY <1>1, ExecutesFacts DEF Requests
<1>3. \A f \in Deliveries : f # d => at'[f] = at[f]
  BY <1>1, ExecutesFacts DEF Requests
<1> QED
  BY <1>1, <1>2, <1>3 DEF Owed, Repeats

(* A delivery that finds its key stored repeats whoever stored it; one     *)
(* that does not stores it, after everyone's before it has expired.        *)
LEMMA SetKeyKeeps ==
  ASSUME IInv, TypeOK', NEW d \in Deliveries, SetReplayKey(d)
  PROVE  IInv'
<1> DEFINE live == Live(mem, IdOf[d])
           data == IF live THEN mem ELSE [mem EXCEPT !.expires[IdOf[d]] = now + TTL]
           n == IF live THEN 0 ELSE 1
<1>1. /\ Executes(d, n, data) /\ n \in Nat /\ d \in Requests
      /\ UNCHANGED history /\ mem \in Data /\ IdOf[d] \in Ids /\ now + TTL \in Nat /\ now \in Nat
      /\ TTL \in Nat \ {0}
  BY ConstantsAssumption DEF SetReplayKey, Requests, IInv, TypeOK
<1>2. /\ phase[d] = "sent" /\ phase'[d] = "executed" /\ reply'[d] = n /\ at'[d] = now
      /\ \A q \in Requests : q # d => phase'[q] = phase[q] /\ reply'[q] = reply[q] /\ at'[q] = at[q]
      /\ mem' = data /\ UNCHANGED <<up, disk, now, status, resends>> /\ up
  BY <1>1, ExecutesFacts
<1>3. /\ mem'.jobs = mem.jobs /\ mem'.last = mem.last
      /\ mem'.expires[IdOf[d]] = (IF live THEN mem.expires[IdOf[d]] ELSE now + TTL)
      /\ \A k \in Ids : k # IdOf[d] => mem'.expires[k] = mem.expires[k]
  BY <1>1, <1>2, StoredKey
<1>4. /\ \A i \in Ids, m \in Nat : Owed(i, m) => Owed(i, m)'
      /\ \A f \in Deliveries : f # d /\ Repeats(f) => Repeats(f)'
  BY <1>1, ReplyKeepsOwed
<1>5. /\ reply[d] = 0 /\ status[d] = 0 /\ (~live => reply'[d] = 1) /\ (live => reply'[d] = 0)
      /\ (live <=> mem.expires[IdOf[d]] > now)
      /\ \A k \in Ids : mem.expires[k] \in Nat /\ disk.expires[k] \in Nat
  BY <1>2 DEF IInv, DeliveryInv, Live, TypeOK, Data
<1> HIDE DEF live, data, n
<1>6. DiskInv'
  <2>1. \A i \in Ids : /\ disk'.expires[i] <= mem'.expires[i]
                       /\ disk'.expires[i] = mem'.expires[i] \/ disk'.expires[i] <= now'
    <3> TAKE i \in Ids
    <3>1. /\ disk.expires[i] <= mem.expires[i]
          /\ disk.expires[i] = mem.expires[i] \/ disk.expires[i] <= now
      BY DEF IInv, DiskInv
    <3>2. CASE i = IdOf[d] /\ ~live
      BY <1>1, <1>2, <1>3, <1>5, <3>1, <3>2
    <3>3. CASE i # IdOf[d] \/ live
      BY <1>2, <1>3, <3>1, <3>3
    <3> QED
      BY <3>2, <3>3
  <2> QED
    BY <1>2, <1>3, <2>1 DEF IInv, DiskInv
<1>7. \A i \in Ids : KeyInv(i)'
  <2> TAKE i \in Ids
  <2>1. PICK k \in Nat, m \in Nat : k = disk.expires[i] /\ m = mem.expires[i]
    BY <1>5
  <2>2. (k # 0 => Owed(i, k)') /\ (m # 0 => Owed(i, m)')
    BY <1>4, <2>1 DEF IInv, KeyInv
  <2>3. CASE i = IdOf[d] /\ ~live
    <3>1. PICK t \in Nat : t = now + TTL
      BY <1>1
    <3>2. Owed(i, t)'
      BY <1>1, <1>2, <1>5, <2>3, <3>1 DEF Owed
    <3> QED
      BY <1>2, <1>3, <2>1, <2>2, <2>3, <3>1, <3>2 DEF KeyInv
  <2>4. CASE i # IdOf[d] \/ live
    BY <1>2, <1>3, <2>1, <2>2, <2>4 DEF KeyInv
  <2> QED
    BY <2>3, <2>4
<1>8. \A f \in Deliveries : DeliveryInv(f)'
  <2> TAKE f \in Deliveries
  <2>1. f \in Requests /\ DeliveryInv(f) /\ IdOf[f] \in Ids /\ at[f] \in Nat /\ at[f] + TTL \in Nat
    BY ConstantsAssumption DEF Requests, IInv, TypeOK
  <2>2. CASE f # d
    <3>1. reply[f] = 1 => IdOf[f] \in forgotten \/ at[f] + TTL <= mem'.expires[IdOf[f]] \/ at[f] + TTL <= now
      BY <1>1, <1>3, <1>5, <2>1 DEF DeliveryInv
    <3> QED
      BY <1>1, <1>2, <1>4, <2>1, <2>2, <3>1 DEF DeliveryInv, history
  <2>3. CASE f = d /\ live
    <3>1. PICK m \in Nat : m = mem.expires[IdOf[d]]
      BY <1>1, <1>5
    <3>2. m > now /\ Owed(IdOf[d], m)
      BY <1>1, <1>5, <2>3, <3>1 DEF IInv, KeyInv
    <3>3. PICK e \in Deliveries :
            IdOf[e] = IdOf[d] /\ (resends[e] > 0 \/ (reply[e] = 1 /\ at[e] + TTL = m /\ at[e] <= now))
      BY <3>2 DEF Owed
    <3>4. reply[e] = 1 => reply'[e] = 1 /\ at'[e] = at[e]
      BY <1>2, <1>5 DEF Requests
    <3>5. Repeats(d)'
      BY <1>2, <3>2, <3>3, <3>4 DEF Repeats
    <3> QED
      BY <1>2, <1>5, <2>3, <3>5 DEF DeliveryInv
  <2>4. CASE f = d /\ ~live
    BY <1>1, <1>2, <1>3, <1>5, <2>4 DEF DeliveryInv
  <2> QED
    BY <2>2, <2>3, <2>4
<1>9. Apart'
  <2>1. \A f \in Deliveries : f # d /\ IdOf[f] = IdOf[d] /\ IdOf[d] \notin forgotten /\ reply[f] = 1 /\ ~live
           => at[f] + TTL <= now
    <3> SUFFICES ASSUME NEW f \in Deliveries, f # d, IdOf[f] = IdOf[d], IdOf[d] \notin forgotten,
                        reply[f] = 1, ~live
                 PROVE  at[f] + TTL <= now
      OBVIOUS
    <3>1. at[f] \in Nat /\ DeliveryInv(f)
      BY DEF IInv, TypeOK, Requests
    <3> QED
      BY <1>1, <1>5, <3>1 DEF DeliveryInv
  <2>2. forgotten' = forgotten
    BY <1>1 DEF history
  <2>3. \A f \in Deliveries : f # d => reply'[f] = reply[f] /\ at'[f] = at[f]
    BY <1>2 DEF Requests
  <2>4. reply'[d] = 1 => ~live
    BY <1>5
  <2> SUFFICES ASSUME NEW f \in Deliveries, NEW e \in Deliveries, f # e, IdOf[f] = IdOf[e],
                      IdOf[f] \notin forgotten, reply'[f] = 1, reply'[e] = 1
               PROVE  at'[f] + TTL <= at'[e] \/ at'[e] + TTL <= at'[f]
    BY <2>2 DEF Apart
  <2>5. CASE f # d /\ e # d
    BY <2>3, <2>5 DEF IInv, Apart
  <2>6. CASE f = d
    BY <1>2, <2>1, <2>3, <2>4, <2>6
  <2>7. CASE e = d
    BY <1>2, <2>1, <2>3, <2>4, <2>7
  <2> QED
    BY <2>5, <2>6, <2>7
<1>10. \A c \in Calls : CallInv(c)'
  <2> TAKE c \in Calls
  <2>1. c \in Requests /\ c # d
    BY ConstantsAssumption DEF Requests
  <2>2. Open(mem, c)' = Open(mem, c) /\ (KeptOn(mem, c)' <=> KeptOn(mem, c)) /\ (KeptOn(disk, c)' <=> KeptOn(disk, c))
    BY <1>2, <1>3, <2>1 DEF Open, KeptOn
  <2> QED
    BY <1>1, <1>2, <2>1, <2>2 DEF IInv, CallInv, history
<1> QED
  BY <1>6, <1>7, <1>8, <1>9, <1>10 DEF IInv

(* Keys, and what was stored and answered of deliveries, when a step is    *)
(* about jobs.                                                             *)
LEMMA DeliveriesKeep ==
  ASSUME IInv, UNCHANGED <<now, status, resends, forgotten>>,
         \A d \in Deliveries : phase'[d] = phase[d] /\ reply'[d] = reply[d] /\ at'[d] = at[d],
         mem'.expires = mem.expires, disk' = disk
  PROVE  (\A i \in Ids : KeyInv(i)') /\ (\A d \in Deliveries : DeliveryInv(d)') /\ Apart'
<1>1. \A d \in Deliveries : Repeats(d)' <=> Repeats(d)
  BY DEF Repeats
<1>2. \A d \in Deliveries : DeliveryInv(d)'
  BY <1>1 DEF IInv, DeliveryInv
<1>3. \A i \in Ids : KeyInv(i)'
  BY DEF IInv, KeyInv, Owed
<1>4. Apart'
  BY DEF IInv, Apart
<1> QED
  BY <1>2, <1>3, <1>4

(* A job is added, for its call, under an id that no job in memory has.    *)
LEMMA AddJobKeeps ==
  ASSUME IInv, TypeOK', NEW c \in Calls, AddJob(c)
  PROVE  IInv'
<1> DEFINE id == mem.last + 1
           j == [id |-> id, call |-> c, done |-> FALSE]
           data == [mem EXCEPT !.last = id, !.jobs = @ \cup {j}]
<1>1. /\ Executes(c, id, data) /\ id \in Nat /\ mem.last \in Nat /\ c \in Requests
      /\ made' = [made EXCEPT ![c] = @ + 1] /\ UNCHANGED <<forgotten, runs, reruns>>
      /\ mem \in Data /\ disk \in Data
  BY DEF AddJob, Requests, IInv, TypeOK, Data
<1>2. /\ phase[c] = "sent" /\ phase'[c] = "executed" /\ reply'[c] = id /\ at'[c] = now
      /\ \A q \in Requests : q # c => phase'[q] = phase[q] /\ reply'[q] = reply[q] /\ at'[q] = at[q]
      /\ mem' = data /\ UNCHANGED <<up, disk, now, status, resends>> /\ up
  BY <1>1, ExecutesFacts
<1>3. /\ j \in Job /\ mem'.expires = mem.expires /\ mem'.last = id /\ mem'.jobs = mem.jobs \cup {j}
  BY <1>1, <1>2, AddedJob, ZenonT(60)
<1>4. j.id = id /\ j.call = c /\ ~j.done
  OBVIOUS
<1> HIDE DEF j, data
<1>5. DiskInv'
  <2>1. \A k \in mem.jobs : k.id <= mem.last /\ k.id \in Nat
    BY <1>1 DEF IInv, DiskInv, Data, Job
  <2>2. \A k \in mem'.jobs : k.id <= mem'.last
    BY <1>1, <1>3, <1>4, <2>1
  <2>3. IsFiniteSet(mem.jobs)
    BY DEF IInv, DiskInv
  <2>4. IsFiniteSet(mem.jobs \cup {j})
    BY <2>3, FS_AddElement
  <2>5. IsFiniteSet(mem'.jobs)
    BY <1>3, <2>4
  <2> QED
    BY <1>2, <1>3, <2>2, <2>5 DEF IInv, DiskInv
<1>6. (\A i \in Ids : KeyInv(i)') /\ (\A d \in Deliveries : DeliveryInv(d)') /\ Apart'
  <2>1. \A d \in Deliveries : d # c /\ d \in Requests
    BY ConstantsAssumption DEF Requests
  <2> QED
    BY <1>1, <1>2, <1>3, <2>1, DeliveriesKeep
<1>7. \A b \in Calls : CallInv(b)'
  <2> TAKE b \in Calls
  <2>1. /\ CallInv(b) /\ b \in Requests /\ made[b] \in Nat /\ runs[b] \in Nat /\ reruns[b] \in Nat
        /\ resends[b] \in Nat /\ now \in Nat
    BY DEF IInv, TypeOK, Requests
  <2>2. CASE b = c
    <3>1. Open(mem, c)' = Open(mem, c) \cup {j}
      BY <1>3, <1>4 DEF Open
    <3>2. j \notin Open(mem, c)
      BY <1>1, <1>4 DEF Open, IInv, DiskInv
    <3>3. IsFiniteSet(Open(mem, c)) /\ Cardinality(Open(mem, c)) \in Nat
      BY <1>1, OpenFinite DEF IInv, DiskInv
    <3>4. Cardinality(Open(mem, c) \cup {j}) = Cardinality(Open(mem, c)) + 1
      BY <3>2, <3>3, FS_AddElement
    <3>5. made'[c] = made[c] + 1
      BY <1>1 DEF IInv, TypeOK
    <3>6. runs'[c] + Cardinality(Open(mem, c)') <= made'[c] + reruns'[c]
      BY <1>1, <2>1, <2>2, <3>1, <3>3, <3>4, <3>5 DEF CallInv
    <3>7. made'[c] <= (IF phase'[c] \in {"new", "sent"} THEN 0 ELSE 1) + resends'[c]
      BY <1>2, <2>1, <2>2, <3>5 DEF CallInv
    <3>8. ~(at'[c] < now') /\ status'[c] = 0
      BY <1>2, <2>1, <2>2 DEF CallInv
    <3> QED
      BY <2>2, <3>6, <3>7, <3>8 DEF CallInv
  <2>3. CASE b # c
    <3>1. Open(mem, b)' = Open(mem, b)
      BY <1>3, <1>4, <2>3 DEF Open
    <3>2. /\ phase'[b] = phase[b] /\ reply'[b] = reply[b] /\ at'[b] = at[b]
          /\ made'[b] = made[b]
      BY <1>1, <1>2, <2>1, <2>3 DEF IInv, TypeOK
    <3>3. (KeptOn(mem, b)' <=> KeptOn(mem, b)) /\ (KeptOn(disk, b)' <=> KeptOn(disk, b))
      BY <1>2, <1>3, <1>4, <2>3, <3>2 DEF KeptOn
    <3> QED
      BY <1>1, <1>2, <2>1, <3>1, <3>2, <3>3 DEF CallInv
  <2> QED
    BY <2>2, <2>3
<1> QED
  BY <1>5, <1>6, <1>7 DEF IInv

(* The worker completes a job: one that waits fewer, one run more.         *)
LEMMA WorkKeeps ==
  ASSUME IInv, TypeOK', Work
  PROVE  IInv'
<1>1. PICK j \in mem.jobs :
        /\ ~j.done /\ mem' = [mem EXCEPT !.jobs = (@ \ {j}) \cup {Complete(j)}]
        /\ runs' = [runs EXCEPT ![j.call] = @ + 1]
  BY DEF Work, Oldest, Complete
<1>2. UNCHANGED <<up, disk, now, requests, bounds, forgotten, made, reruns>> /\ up
  BY DEF Work
<1>3. mem \in Data /\ disk \in Data
  BY DEF IInv, TypeOK
<1>4. /\ j \in Job /\ mem'.expires = mem.expires /\ mem'.last = mem.last
      /\ mem'.jobs = (mem.jobs \ {j}) \cup {Complete(j)}
  BY <1>1, <1>3, WorkedJob
<1>5. /\ Complete(j) \in Job /\ Complete(j).done /\ Complete(j).id = j.id /\ Complete(j).call = j.call
  BY <1>4, CompleteJob
<1>6. \A k \in mem.jobs : k \in mem'.jobs \/ (k = j /\ Complete(k) \in mem'.jobs)
  BY <1>4
<1>7. DiskInv'
  <2>1. \A k \in disk.jobs : k \in mem'.jobs \/ Complete(k) \in mem'.jobs
    <3> TAKE k \in disk.jobs
    <3>1. k \in Job
      BY <1>3 DEF Data
    <3>2. CASE k \in mem.jobs
      BY <1>6, <3>2
    <3>3. CASE Complete(k) \in mem.jobs
      BY <1>1, <1>6, <3>1, <3>3, CompleteJob
    <3> QED
      BY <3>2, <3>3 DEF IInv, DiskInv
  <2>2. \A k \in mem'.jobs : k.id <= mem'.last
    BY <1>4, <1>5 DEF IInv, DiskInv
  <2>3. IsFiniteSet(mem.jobs \ {j})
    BY FS_RemoveElement DEF IInv, DiskInv
  <2>4. IsFiniteSet(mem'.jobs)
    BY <1>4, <2>3, FS_AddElement
  <2> QED
    BY <1>2, <1>4, <2>1, <2>2, <2>4 DEF IInv, DiskInv
<1>8. (\A i \in Ids : KeyInv(i)') /\ (\A d \in Deliveries : DeliveryInv(d)') /\ Apart'
  BY <1>2, <1>4, DeliveriesKeep DEF requests
<1>9. \A c \in Calls : CallInv(c)'
  <2> TAKE c \in Calls
  <2>1. CallInv(c) /\ runs[c] \in Nat /\ made[c] \in Nat /\ reruns[c] \in Nat
    BY DEF IInv, TypeOK
  <2>2. (KeptOn(mem, c)' <=> KeptOn(mem, c)) /\ (KeptOn(disk, c)' <=> KeptOn(disk, c))
    <3>1. KeptOn(mem, c)' <=> KeptOn(mem, c)
      BY <1>1, <1>2, <1>4, <1>5 DEF KeptOn, requests
    <3> QED
      BY <1>2, <3>1 DEF KeptOn, requests
  <2>3. runs'[c] + Cardinality(Open(mem, c)') <= made'[c] + reruns'[c]
    <3>1. IsFiniteSet(Open(mem, c)) /\ Cardinality(Open(mem, c)) \in Nat
      BY <1>3, OpenFinite DEF IInv, DiskInv
    <3>2. CASE j.call = c
      <4>1. Open(mem, c)' = Open(mem, c) \ {j}
        BY <1>1, <1>4, <1>5 DEF Open
      <4>2. j \in Open(mem, c)
        BY <1>1, <3>2 DEF Open
      <4>3. Cardinality(Open(mem, c) \ {j}) = Cardinality(Open(mem, c)) - 1
        BY <3>1, <4>2, FS_RemoveElement
      <4>4. runs'[c] = runs[c] + 1
        BY <1>1, <3>2 DEF IInv, TypeOK
      <4> QED
        BY <1>2, <2>1, <3>1, <4>1, <4>3, <4>4 DEF CallInv
    <3>3. CASE j.call # c
      <4>1. Open(mem, c)' = Open(mem, c)
        BY <1>4, <1>5, <3>3 DEF Open
      <4>2. runs'[c] = runs[c]
        BY <1>1, <3>3 DEF IInv, TypeOK
      <4> QED
        BY <1>2, <2>1, <4>1, <4>2 DEF CallInv
    <3> QED
      BY <3>2, <3>3
  <2> QED
    BY <1>2, <2>1, <2>2, <2>3 DEF CallInv, requests
<1> QED
  BY <1>7, <1>8, <1>9 DEF IInv

(* A second goes by: what is in memory is on disk, and what was owed is.   *)
LEMMA TickKeeps ==
  ASSUME IInv, TypeOK', Tick
  PROVE  IInv'
<1>1. now' = now + 1 /\ disk' = mem /\ now \in Nat /\ UNCHANGED <<up, mem, requests, bounds, history>>
  BY DEF Tick, IInv, TypeOK, DiskInv
<1>2. \A i \in Ids : mem.expires[i] \in Nat
  BY DEF IInv, TypeOK, Data
<1>3. DiskInv'
  BY <1>1, <1>2 DEF IInv, DiskInv
<1>4. \A i \in Ids, n \in Nat : Owed(i, n) => Owed(i, n)'
  <2>1. \A e \in Deliveries : at[e] <= now => at[e] <= now'
    BY <1>1 DEF IInv, TypeOK, Requests
  <2> QED
    BY <1>1, <2>1 DEF Owed, requests
<1>5. \A i \in Ids : KeyInv(i)'
  <2> TAKE i \in Ids
  <2>1. PICK n \in Nat : n = mem.expires[i]
    BY <1>2
  <2>2. n # 0 => Owed(i, n)'
    BY <1>4, <2>1 DEF IInv, KeyInv
  <2> QED
    BY <1>1, <2>1, <2>2 DEF KeyInv
<1>6. \A d \in Deliveries : DeliveryInv(d)'
  <2> TAKE d \in Deliveries
  <2>1. DeliveryInv(d) /\ at[d] \in Nat /\ at[d] + TTL \in Nat
    BY ConstantsAssumption DEF IInv, TypeOK, Requests
  <2>2. Repeats(d)' <=> Repeats(d)
    BY <1>1 DEF Repeats, requests
  <2> QED
    BY <1>1, <2>1, <2>2 DEF DeliveryInv, requests, history
<1>7. Apart'
  BY <1>1 DEF IInv, Apart, requests, history
<1>8. \A c \in Calls : CallInv(c)'
  <2> TAKE c \in Calls
  <2>1. KeptOn(mem, c)' => KeptOn(disk, c)'
    BY <1>1 DEF KeptOn
  <2>2. Open(mem, c)' = Open(mem, c)
    BY <1>1 DEF Open
  <2> QED
    BY <1>1, <2>1, <2>2 DEF IInv, CallInv, requests, history
<1> QED
  BY <1>3, <1>5, <1>6, <1>7, <1>8 DEF IInv

(* A stutter.                                                              *)
LEMMA StutterKeeps ==
  ASSUME IInv, UNCHANGED vars
  PROVE  IInv'
<1>1. TypeOK'
  BY NextTyped DEF IInv
<1>2. UNCHANGED <<up, mem, disk, now, requests, history>>
  BY DEF vars
<1>3. \A r \in Requests : Turns(r)
  BY <1>2 DEF Turns, requests
<1>4. up' = up \/ up'
  BY <1>2
<1> QED
  BY <1>1, <1>2, <1>3, <1>4, TurnsKeep DEF requests

(* Every step keeps the invariant.                                         *)
LEMMA NextIInv == IInv /\ [Next]_vars => IInv'
<1> SUFFICES ASSUME IInv, [Next]_vars PROVE IInv'
  OBVIOUS
<1>1. TypeOK'
  BY NextTyped DEF IInv
<1>2. ASSUME NEW r \in Requests, Send(r) \/ Reply(r) \/ GiveUp(r) PROVE IInv'
  BY <1>1, <1>2, HandlersKeep
<1>3. ASSUME NEW d \in Deliveries, Refuse(d) PROVE IInv'
  BY <1>1, <1>3, HandlersKeep
<1>4. ASSUME NEW d \in Deliveries, SetReplayKey(d) PROVE IInv'
  BY <1>1, <1>4, SetKeyKeeps
<1>5. ASSUME NEW c \in Calls, AddJob(c) PROVE IInv'
  BY <1>1, <1>5, AddJobKeeps
<1>6. CASE Work
  BY <1>1, <1>6, WorkKeeps
<1>7. CASE Tick
  BY <1>1, <1>7, TickKeeps
<1>8. CASE ConnectionBreaks
  BY <1>1, <1>8, BreakKeeps
<1>9. CASE RedisCrash
  BY <1>1, <1>9, CrashKeeps
<1>10. CASE RedisRestart \/ GatewayCrash
  BY <1>1, <1>10, HandlersKeep
<1>11. CASE UNCHANGED vars
  BY <1>11, StutterKeeps
<1> QED
  BY <1>2, <1>3, <1>4, <1>5, <1>6, <1>7, <1>8, <1>9, <1>10, <1>11 DEF Next, Intake

-----------------------------------------------------------------------------
(***************************************************************************)
(* What follows.                                                           *)
(***************************************************************************)
(* Redis' file, and what keys, jobs and runs are owed to, are as described *)
(* above through every interleaving of handlers, breaks and crashes.       *)
THEOREM Invariance == Spec => []IInv
<1>1. Init => IInv
  BY InitIInv
<1>2. IInv /\ [Next]_vars => IInv'
  BY NextIInv
<1> QED
  BY <1>1, <1>2, PTL DEF Spec

(* The state has the types, and a Redis that is down has no reply under    *)
(* way.                                                                    *)
THEOREM TypeCorrect == Spec => []TypeOK
<1>1. IInv => TypeOK
  BY DEF IInv
<1> QED
  BY <1>1, Invariance, PTL

(* What the route answers is what it stored: deliveries of one id accepted *)
(* apart, duplicates refused for a delivery that stored the key.           *)
LEMMA InvReplay == IInv => ReplayProtection
<1> SUFFICES ASSUME IInv PROVE ReplayProtection
  OBVIOUS
<1>1. AcceptedOncePerWindow
  BY DEF IInv, Apart, DeliveryInv, AcceptedOncePerWindow
<1>2. DuplicateWasStored
  BY DEF IInv, DeliveryInv, Repeats, DuplicateWasStored
<1> QED
  BY <1>1, <1>2 DEF ReplayProtection

(* A delivery is accepted once per window and refused for a reason, for    *)
(* any window, whatever is sent again and however often Redis crashes.     *)
THEOREM Replay == Spec => []ReplayProtection
  BY Invariance, InvReplay, PTL

(* Jobs and runs are bounded by what was asked for and what was lost.      *)
LEMMA InvWork == IInv => WorkExplained
<1> SUFFICES ASSUME IInv, NEW c \in Calls
             PROVE  made[c] <= 1 + resends[c] /\ runs[c] <= made[c] + reruns[c]
  BY DEF WorkExplained, JobsExplained, RunsExplained
<1>1. /\ CallInv(c) /\ made[c] \in Nat /\ runs[c] \in Nat /\ reruns[c] \in Nat /\ resends[c] \in Nat
      /\ Cardinality(Open(mem, c)) \in Nat
  BY OpenFinite DEF IInv, TypeOK, DiskInv, Requests
<1> QED
  BY <1>1 DEF CallInv

(* Every job is owed to a call or a resend, every run to a job or a        *)
(* completion that a crash lost.                                           *)
THEOREM WorkIsExplained == Spec => []WorkExplained
  BY Invariance, InvWork, PTL

(* The step of OnlyLastSecondLost.                                         *)
LEMMA NextKeepsJobs ==
  ASSUME IInv, [Next]_vars, NEW c \in Calls, status[c] = 202, at[c] < now, Kept(c)
  PROVE  Kept(c)'
<1>1. c \in Requests /\ phase[c] = "answered" /\ KeptOn(mem, c) /\ KeptOn(disk, c)
  BY DEF Requests, IInv, CallInv, TypeOK, Kept, KeptOn
<1>2. \A r \in Requests, n \in Nat : \A data :
         Executes(r, n, data) => r # c /\ reply'[c] = reply[c]
  BY <1>1 DEF Executes, IInv, TypeOK
<1>3. ASSUME UNCHANGED <<mem, reply>> PROVE Kept(c)'
  BY <1>3 DEF Kept
<1>4. ASSUME NEW r \in Requests, Send(r) \/ Reply(r) \/ GiveUp(r) PROVE Kept(c)'
  BY <1>3, <1>4 DEF Send, Reply, GiveUp
<1>5. ASSUME NEW d \in Deliveries, Refuse(d) PROVE Kept(c)'
  BY <1>3, <1>5 DEF Refuse
<1>6. ASSUME NEW d \in Deliveries, SetReplayKey(d) PROVE Kept(c)'
  <2> DEFINE data == IF Live(mem, IdOf[d]) THEN mem ELSE [mem EXCEPT !.expires[IdOf[d]] = now + TTL]
  <2>1. PICK n \in {0, 1} : Executes(d, n, data)
    BY <1>6 DEF SetReplayKey
  <2>2. data.jobs = mem.jobs
    BY ConstantsAssumption, StoredKey DEF IInv, TypeOK
  <2> HIDE DEF data
  <2>3. mem' = data /\ reply'[c] = reply[c]
    BY <1>2, <2>1, ExecutesFacts DEF Requests
  <2> QED
    BY <2>2, <2>3 DEF Kept
<1>7. ASSUME NEW b \in Calls, AddJob(b) PROVE Kept(c)'
  <2> DEFINE id == mem.last + 1
             data == [mem EXCEPT !.last = id, !.jobs = @ \cup {[id |-> id, call |-> b, done |-> FALSE]}]
  <2>1. Executes(b, id, data) /\ mem \in Data /\ id \in Nat
    BY <1>7 DEF AddJob, IInv, TypeOK, Data
  <2>2. data.jobs = mem.jobs \cup {[id |-> id, call |-> b, done |-> FALSE]}
    BY <2>1 DEF Data
  <2> HIDE DEF data
  <2>3. mem' = data /\ reply'[c] = reply[c]
    BY <1>2, <2>1, ExecutesFacts DEF Requests
  <2> QED
    BY <2>2, <2>3 DEF Kept
<1>8. ASSUME Work PROVE Kept(c)'
  <2>1. PICK j \in mem.jobs : mem' = [mem EXCEPT !.jobs = (@ \ {j}) \cup {Complete(j)}]
    BY <1>8 DEF Work, Complete
  <2>2. /\ mem'.jobs = (mem.jobs \ {j}) \cup {Complete(j)}
        /\ Complete(j).id = j.id /\ Complete(j).call = j.call
    BY <2>1, WorkedJob, CompleteJob DEF IInv, TypeOK
  <2>3. reply' = reply
    BY <1>8 DEF Work, requests
  <2> QED
    BY <2>2, <2>3 DEF Kept
<1>9. CASE Tick
  BY <1>3, <1>9 DEF Tick, requests
<1>10. ASSUME NEW R, R \subseteq Requests, ResendsAll(R) PROVE reply'[c] = reply[c]
  BY <1>1, <1>10 DEF ResendsAll, Waiting
<1>11. CASE ConnectionBreaks
  BY <1>10, <1>11 DEF ConnectionBreaks, Requests, Kept
<1>12. CASE RedisCrash
  BY <1>1, <1>10, <1>12 DEF RedisCrash, Kept, KeptOn
<1>13. CASE RedisRestart \/ GatewayCrash
  BY <1>3, <1>13 DEF RedisRestart, GatewayCrash, requests
<1>14. CASE UNCHANGED vars
  BY <1>3, <1>14 DEF vars, requests
<1> QED
  BY <1>4, <1>5, <1>6, <1>7, <1>8, <1>9, <1>11, <1>12, <1>13, <1>14 DEF Next, Intake

(* No crash takes a job from a call that was told 202 a second before.     *)
THEOREM JobsOutliveCrashes == Spec => OnlyLastSecondLost
<1>1. IInv /\ [Next]_vars =>
        [\A c \in Calls : status[c] = 202 /\ at[c] < now /\ Kept(c) => Kept(c)']_vars
  BY NextKeepsJobs
<1> QED
  BY <1>1, Invariance, PTL DEF Spec, OnlyLastSecondLost
=============================================================================
