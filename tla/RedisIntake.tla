---------------------------- MODULE RedisIntake ----------------------------
(***************************************************************************)
(* What the gateway takes in through Redis: webhook deliveries, held       *)
(* against a replay key that lives for ten minutes, and calls of           *)
(* POST /workflows/:id/run, each of which adds a job to the BullMQ queue.  *)
(*                                                                         *)
(* Redis keeps its data in memory, appends every change to a file it syncs *)
(* once a second, and is started again after a crash.  ioredis sends a     *)
(* command again if the connection goes before its reply has come, and     *)
(* rejects it when it could not connect for long (its defaults, which the  *)
(* gateway does not change).  Redis, ioredis and BullMQ are external.      *)
(*                                                                         *)
(* WorkflowExecution follows a job through the worker; here the worker     *)
(* takes one step, to see what a crash of Redis makes of it.  The clock    *)
(* ticks once for every sync of the file.                                  *)
(***************************************************************************)
EXTENDS Naturals, FiniteSets

CONSTANTS
  Deliveries, Calls,   \* requests: POST /webhooks/test, POST /workflows/:id/run
  Ids, IdOf,           \* webhook ids, and that of each delivery
  TTL,                 \* REPLAY_TTL_SECONDS, in ticks
  MaxTime,             \* bound: the clock
  MaxRequests,         \* bound: requests that are made
  MaxBreaks,           \* bound: connections that break
  MaxCrashes           \* bound: crashes of Redis

Requests == Deliveries \cup Calls

ASSUME ConstantsAssumption ==
  /\ Deliveries \cap Calls = {} /\ IdOf \in [Deliveries -> Ids]
  /\ TTL \in Nat \ {0} /\ MaxTime \in Nat /\ MaxRequests \in Nat /\ MaxBreaks \in Nat /\ MaxCrashes \in Nat

VARIABLES
  up,          \* Redis runs
  mem, disk,   \* its data: when each key expires, jobs and the last job id
  now,
  phase,       \* of a request: new, sent, executed, answered
  reply,       \* what Redis replied: OK and nil are 1 and 0, or the job's id
  at,          \* when Redis executed it
  status,      \* of the HTTP answer; 0 for none
  breaks, crashes,
  resends,     \* history: how often each request's command was sent again
  forgotten,   \* history: webhook ids whose live key a crash of Redis lost
  made, runs, reruns   \* history, by call: jobs added, run, and completions lost

requests == <<phase, reply, at, status, resends>>
history == <<forgotten, made, runs, reruns>>
bounds == <<breaks, crashes>>
vars == <<up, mem, disk, now, requests, bounds, history>>

Job == [id : Nat \ {0}, call : Calls, done : BOOLEAN]
Data == [expires : [Ids -> Nat], jobs : SUBSET Job, last : Nat]

Empty == [expires |-> [i \in Ids |-> 0], jobs |-> {}, last |-> 0]

Live(d, i) == d.expires[i] > now

Init ==
  /\ up = TRUE /\ mem = Empty /\ disk = Empty /\ now = 1
  /\ phase = [r \in Requests |-> "new"] /\ reply = [r \in Requests |-> 0]
  /\ at = [r \in Requests |-> 0] /\ status = [r \in Requests |-> 0]
  /\ breaks = 0 /\ crashes = 0
  /\ resends = [r \in Requests |-> 0] /\ forgotten = {}
  /\ made = [c \in Calls |-> 0] /\ runs = made /\ reruns = made

-----------------------------------------------------------------------------
(***************************************************************************)
(* The two handlers.                                                       *)
(***************************************************************************)
Answer(r, code) ==
  /\ phase' = [phase EXCEPT ![r] = "answered"]
  /\ status' = [status EXCEPT ![r] = code]

Arriving(r) ==
  phase[r] = "new" /\ Cardinality({q \in Requests : phase[q] # "new"}) < MaxRequests

SendImpatiently(r) ==   \* mutant: the handler sends its command again when Redis is slow
  /\ Arriving(r) \/ phase[r] = "executed"
  /\ phase' = [phase EXCEPT ![r] = "sent"]
  /\ UNCHANGED <<up, mem, disk, now, reply, at, status, resends, bounds, history>>

Send(r) ==
  /\ Arriving(r) /\ phase' = [phase EXCEPT ![r] = "sent"]
  /\ UNCHANGED <<up, mem, disk, now, reply, at, status, resends, bounds, history>>

(* No signature or a wrong one, no id in the body.                         *)
Refuse(d) ==
  /\ Arriving(d) /\ \E code \in {400, 401} : Answer(d, code)
  /\ UNCHANGED <<up, mem, disk, now, reply, at, resends, bounds, history>>

Executes(r, result, data) ==
  /\ up /\ phase[r] = "sent"
  /\ phase' = [phase EXCEPT ![r] = "executed"]
  /\ reply' = [reply EXCEPT ![r] = result] /\ at' = [at EXCEPT ![r] = now]
  /\ mem' = data
  /\ UNCHANGED <<up, disk, now, status, resends, bounds>>

SetAlways(d) ==   \* mutant: SET without NX
  /\ Executes(d, 1, [mem EXCEPT !.expires[IdOf[d]] = now + TTL])
  /\ UNCHANGED history

(* SET key 1 EX 600 NX *)
SetReplayKey(d) ==
  /\ IF Live(mem, IdOf[d])
       THEN Executes(d, 0, mem)
       ELSE Executes(d, 1, [mem EXCEPT !.expires[IdOf[d]] = now + TTL])
  /\ UNCHANGED history

(* Queue.add: the id comes from a counter beside the jobs.                 *)
AddJob(c) ==
  LET id == mem.last + 1
  IN  /\ Executes(c, id, [mem EXCEPT !.last = id,
                                     !.jobs = @ \cup {[id |-> id, call |-> c, done |-> FALSE]}])
      /\ made' = [made EXCEPT ![c] = @ + 1]
      /\ UNCHANGED <<forgotten, runs, reruns>>

CodeFor(r) == IF r \in Calls THEN 202 ELSE IF reply[r] = 1 THEN 200 ELSE 409

ReplyUnlessDuplicate(r) ==   \* mutant: no answer when nothing was stored
  /\ phase[r] = "executed" /\ reply[r] # 0 /\ Answer(r, CodeFor(r))
  /\ UNCHANGED <<up, mem, disk, now, reply, at, resends, bounds, history>>

Reply(r) ==
  /\ phase[r] = "executed" /\ Answer(r, CodeFor(r))
  /\ UNCHANGED <<up, mem, disk, now, reply, at, resends, bounds, history>>

(* maxRetriesPerRequest: the catch block.                                  *)
GiveUp(r) ==
  /\ ~up /\ phase[r] = "sent" /\ Answer(r, 500)
  /\ UNCHANGED <<up, mem, disk, now, reply, at, resends, bounds, history>>

-----------------------------------------------------------------------------
(***************************************************************************)
(* Redis, its clients and the worker.                                      *)
(***************************************************************************)
(* The one worker takes the jobs that wait in their order. *)
Oldest(j) == ~j.done /\ \A k \in mem.jobs : k.id < j.id => k.done

Work ==
  \E j \in mem.jobs :
    /\ up /\ Oldest(j)
    /\ mem' = [mem EXCEPT !.jobs = (@ \ {j}) \cup {[j EXCEPT !.done = TRUE]}]
    /\ runs' = [runs EXCEPT ![j.call] = @ + 1]
    /\ UNCHANGED <<up, disk, now, requests, bounds, forgotten, made, reruns>>

TickUnsynced ==   \* mutant: appendfsync no
  /\ now < MaxTime /\ now' = now + 1
  /\ UNCHANGED <<up, mem, disk, requests, bounds, history>>

(* A second goes by: appendfsync everysec.                                 *)
Tick ==
  /\ now < MaxTime /\ now' = now + 1
  /\ disk' = (IF up THEN mem ELSE disk)
  /\ UNCHANGED <<up, mem, requests, bounds, history>>

Waiting(R) == {r \in R : phase[r] = "executed"}

(* The connection goes; what has no reply yet will be sent again.          *)
ResendsAll(R) ==
  /\ phase' = [r \in Requests |-> IF r \in Waiting(R) THEN "sent" ELSE phase[r]]
  /\ resends' = [r \in Requests |-> IF r \in Waiting(R) THEN resends[r] + 1 ELSE resends[r]]
  /\ reply' = [r \in Requests |-> IF r \in Waiting(R) THEN 0 ELSE reply[r]]

(* The webhook router and the queue have a connection each.                *)
ConnectionBreaks ==
  /\ up /\ breaks < MaxBreaks /\ breaks' = breaks + 1
  /\ \E R \in {Deliveries, Calls} : Waiting(R) # {} /\ ResendsAll(R)
  /\ UNCHANGED <<up, mem, disk, now, at, status, crashes, history>>

(* Redis dies; what it had synced is what it comes back with.              *)
RedisCrash ==
  /\ up /\ crashes < MaxCrashes /\ crashes' = crashes + 1
  /\ up' = FALSE /\ mem' = disk
  /\ ResendsAll(Requests)
  /\ forgotten' = forgotten \cup {i \in Ids : Live(mem, i) /\ ~Live(disk, i)}
  /\ reruns' = [c \in Calls |->
       reruns[c] + Cardinality({j \in disk.jobs :
         j.call = c /\ ~j.done /\ [j EXCEPT !.done = TRUE] \in mem.jobs})]
  /\ UNCHANGED <<disk, now, at, status, breaks, made, runs>>

RedisRestart ==
  /\ ~up /\ up' = TRUE
  /\ UNCHANGED <<mem, disk, now, requests, bounds, history>>

(* The gateway dies, and is started again: its callers get no answer,      *)
(* whether their command was executed or not.                              *)
GatewayCrash ==
  /\ phase' = [r \in Requests |-> IF phase[r] = "new" THEN "new" ELSE "answered"]
  /\ UNCHANGED <<up, mem, disk, now, reply, at, status, resends, bounds, history>>

-----------------------------------------------------------------------------
Intake(r) ==
  \/ r \in Deliveries /\ SetReplayKey(r)
  \/ r \in Calls /\ AddJob(r)
  \/ Reply(r) \/ GiveUp(r)

Next ==
  \/ \E r \in Requests : Send(r) \/ Intake(r)
  \/ \E d \in Deliveries : Refuse(d)
  \/ Work \/ Tick \/ ConnectionBreaks \/ RedisCrash \/ RedisRestart \/ GatewayCrash

Spec == Init /\ [][Next]_vars

(* Fairness: Redis is started again (unless-stopped), executes what it     *)
(* gets and replies; the worker goes on.  Nothing need break, or arrive.   *)
FairSpec ==
  /\ Spec /\ WF_vars(RedisRestart) /\ WF_vars(Work)
  /\ \A r \in Requests : WF_vars(Intake(r))

-----------------------------------------------------------------------------
(* Types; and no reply is under way from a Redis that is down. *)
TypeOK ==
  /\ up \in BOOLEAN /\ mem \in Data /\ disk \in Data /\ now \in Nat
  /\ phase \in [Requests -> {"new", "sent", "executed", "answered"}]
  /\ reply \in [Requests -> Nat] /\ at \in [Requests -> Nat]
  /\ status \in [Requests -> {0, 200, 202, 400, 401, 409, 500}]
  /\ breaks \in Nat /\ crashes \in Nat /\ resends \in [Requests -> Nat] /\ forgotten \subseteq Ids
  /\ made \in [Calls -> Nat] /\ runs \in [Calls -> Nat] /\ reruns \in [Calls -> Nat]
  /\ ~up => Waiting(Requests) = {}

(* Replay protection: two deliveries of one webhook id are accepted at     *)
(* least TTL apart, whatever is sent again, unless a crash of Redis lost   *)
(* the id's key.                                                           *)
AcceptedOncePerWindow ==
  \A d, e \in Deliveries :
    d # e /\ IdOf[d] = IdOf[e] /\ IdOf[d] \notin forgotten /\ status[d] = 200 /\ status[e] = 200
      => at[d] + TTL <= at[e] \/ at[e] + TTL <= at[d]

(* What is refused as a duplicate repeats what was stored: a delivery of   *)
(* its id stored the key less than TTL before, or lost its reply and was   *)
(* sent again, as it may have been itself.                                 *)
DuplicateWasStored ==
  \A d \in Deliveries : status[d] = 409 =>
    \E e \in Deliveries :
      /\ IdOf[e] = IdOf[d]
      /\ resends[e] > 0 \/ (reply[e] = 1 /\ at[e] <= at[d] /\ at[d] < at[e] + TTL)

(* A delivery is accepted once per window, and refused for a reason.       *)
ReplayProtection == AcceptedOncePerWindow /\ DuplicateWasStored

(* A call adds one job, and one more each time its command is sent again.  *)
JobsExplained == \A c \in Calls : made[c] <= 1 + resends[c]

(* What Redis has a second after it was added it keeps: no crash takes a   *)
(* job from a call told 202 then, or gives the job's id to another call.   *)
Kept(c) == \E j \in mem.jobs : j.id = reply[c] /\ j.call = c

OnlyLastSecondLost ==
  [][\A c \in Calls : status[c] = 202 /\ at[c] < now /\ Kept(c) => Kept(c)']_vars

(* A job is run again only if a crash lost that it was completed.          *)
RunsExplained == \A c \in Calls : runs[c] <= made[c] + reruns[c]

(* Every job and every run is owed to a call, a resend or a crash.         *)
WorkExplained == JobsExplained /\ RunsExplained

(* Every request is answered, or lost in a crash of the gateway.           *)
EveryoneAnswered == \A r \in Requests : phase[r] = "sent" ~> phase[r] = "answered"
=============================================================================
