---------------------------- MODULE WebUiProofs ----------------------------
(***************************************************************************)
(* Theorems about WebUi, for any tenants, nodes and clicks, with or        *)
(* without React's strict mode.                                            *)
(*                                                                         *)
(* A call that a view listens to was sent by the view that is mounted, and *)
(* is about the tenant whose data that view is to show (SessionInv).  A    *)
(* call that is alone is the only one about its data, and what it brings   *)
(* is what the server has (NetInv); a message that says all is done came   *)
(* with the data (QuietInv).                                               *)
(***************************************************************************)
EXTENDS WebUi, TLAPS

CallOf(k) ==
  [id : 1 .. k, kind : Kinds("credentials") \cup Writes \cup {"detail", "login", "save"},
   by : {"app", "view", "gone"}, tab : Views \cup {"builder"}, tenant : Tenants,
   reply : {"none", "ok", "error"}, version : Nat, alone : BOOLEAN]

(* Views make their own kinds of calls, App signs in and saves. *)
Sound(c) ==
  /\ c.kind \in {"login", "save"} <=> c.tab = "builder"
  /\ c.tab \in Views => c.kind \in Kinds(c.tab)
  /\ c.tab = "executions" => c.version = 0

(* The calls cs, sent under ids up to k, and the server's versions. *)
AloneIn(cs) ==
  \A c, d \in cs : c.alone /\ About(d, c.tab, c.tenant) => d = c

CurrentIn(cs, ver) ==
  \A c \in cs : c.alone /\ c.kind \in {"load", "settings"} /\ c.reply = "ok" =>
    c.version = ver[c.tab][c.tenant]

NetInv(cs, k, ver) ==
  cs \subseteq CallOf(k) /\ (\A c \in cs : Sound(c)) /\ AloneIn(cs) /\ CurrentIn(cs, ver)

(* The tenant that the data of the mounted view is of. *)
IsFor(t) == (tab = "credentials" => t = form) /\ (tab # "credentials" /\ ~relogged => t = token)

Heard(c) == c.by = "view" => tab \in Views /\ c.tab = tab /\ IsFor(c.tenant)

SessionInv ==
  /\ SignedInWithToken
  /\ ~authed => tab = "builder"
  /\ tab = "builder" => shown = None
  /\ tab # "executions" => detail = None
  /\ shown # None => IsFor(shown.tenant)
  /\ detail # None => IsFor(detail)

Quiet == msg = "quiet" \/ (msg = "done" /\ tab = "administration")

QuietInv ==
  /\ \A t \in Tenants : version["executions"][t] = 0
  /\ tab = "executions" /\ shown # None => shown.version = 0
  /\ Quiet /\ tab \in {"credentials", "administration"} /\ shown # None /\ shown.alone =>
       /\ shown.version = version[tab][shown.tenant]
       /\ \A c \in calls : ~About(c, tab, shown.tenant)

BuilderInv == Trigger \in used /\ BuilderConsistent

IInv ==
  /\ TypeOK /\ NetInv(calls, sent, version) /\ (\A c \in calls : Heard(c))
  /\ SessionInv /\ QuietInv /\ BuilderInv

-----------------------------------------------------------------------------
(***************************************************************************)
(* Calls.                                                                  *)
(***************************************************************************)
(* The kinds of calls of each view.                                        *)
LEMMA KindsAre ==
  /\ Kinds("credentials") = {"load", "change", "test"}
  /\ Kinds("executions") = {"load", "detail"}
  /\ Kinds("administration") = {"load", "settings"}
  /\ Kinds("builder") = {}
  BY DEF Kinds

(* Calls that no longer are under way disturb no other.                    *)
LEMMA FewerNet ==
  ASSUME NEW k \in Nat, NEW ver, NEW cs, NEW few \in SUBSET cs, NetInv(cs, k, ver)
  PROVE  NetInv(few, k, ver)
  BY DEF NetInv, AloneIn, CurrentIn

(* Nor do calls that nobody listens to any more.                           *)
LEMMA WithoutNet ==
  ASSUME NEW k \in Nat, NEW ver, NEW cs, NEW gone \in SUBSET cs, NetInv(cs, k, ver)
  PROVE  /\ NetInv(Without(cs, gone), k, ver)
         /\ \A d \in Without(cs, gone) : d \in cs \ gone \/ d.by = "gone"
<1> DEFINE Left(c) == [c EXCEPT !.by = "gone"]
           new == Without(cs, gone)
<1>1. \A c \in cs : /\ c \in CallOf(k) /\ Sound(c)
                    /\ Left(c) \in CallOf(k) /\ Left(c).by = "gone" /\ Left(c).kind = c.kind
                    /\ Left(c).tab = c.tab /\ Left(c).tenant = c.tenant /\ Left(c).reply = c.reply
                    /\ Left(c).version = c.version /\ Left(c).alone = c.alone
  BY DEF NetInv, CallOf
<1>2. \A d \in new : (d \in cs /\ d \notin gone) \/ \E c \in gone : d = Left(c)
  BY DEF Without
<1> HIDE DEF Left, new
<1>3. \A d \in new : \E c \in cs :
        /\ (d = c /\ c \notin gone) \/ (d = Left(c) /\ c \in gone)
        /\ d \in CallOf(k) /\ d.kind = c.kind /\ d.tab = c.tab /\ d.tenant = c.tenant
        /\ d.reply = c.reply /\ d.version = c.version /\ d.alone = c.alone
  BY <1>1, <1>2
<1>4. new \subseteq CallOf(k) /\ \A d \in new : Sound(d)
  BY <1>1, <1>3 DEF Sound
<1>5. AloneIn(new)
  <2> SUFFICES ASSUME NEW c \in new, NEW d \in new, c.alone, About(d, c.tab, c.tenant)
               PROVE  d = c
    BY DEF AloneIn
  <2>1. PICK c0 \in cs :
          /\ (c = c0 /\ c0 \notin gone) \/ (c = Left(c0) /\ c0 \in gone)
          /\ c.tab = c0.tab /\ c.tenant = c0.tenant /\ c.alone = c0.alone
    BY <1>3
  <2>2. PICK d0 \in cs :
          /\ (d = d0 /\ d0 \notin gone) \/ (d = Left(d0) /\ d0 \in gone)
          /\ d.kind = d0.kind /\ d.tab = d0.tab /\ d.tenant = d0.tenant
    BY <1>3
  <2>3. d0 = c0
    BY <2>1, <2>2 DEF NetInv, AloneIn, About
  <2> QED
    BY <2>1, <2>2, <2>3
<1>6. CurrentIn(new, ver)
  BY <1>3 DEF NetInv, CurrentIn
<1>7. NetInv(new, k, ver)
  BY <1>4, <1>5, <1>6 DEF NetInv
<1>8. \A d \in new : d \in cs \ gone \/ d.by = "gone"
  BY <1>1, <1>2
<1> QED
  BY <1>7, <1>8 DEF new

(* What joins others about the same data is not alone, nor are they.       *)
LEMMA SendsNet ==
  ASSUME NEW cs, NetInv(cs, sent, version), sent \in Nat,
         NEW n \in {1, 2}, NEW kind, NEW by \in {"app", "view"},
         NEW v \in Views \cup {"builder"}, NEW t \in Tenants,
         kind \in {"login", "save"} <=> v = "builder", v \in Views => kind \in Kinds(v),
         Sends(cs, n, kind, by, v, t)
  PROVE  /\ sent' = sent + n /\ NetInv(calls', sent', version)
         /\ \A d \in calls' :
              \/ \E c \in cs : d.by = c.by /\ d.tab = c.tab /\ d.tenant = c.tenant
              \/ d.by = by /\ d.tab = v /\ d.tenant = t
<1> DEFINE Joined(c) == [c EXCEPT !.alone = c.alone /\ ~About(c, v, t)]
           others == \E c \in cs : About(c, v, t)
           new == [id : sent + 1 .. sent + n, kind : {kind}, by : {by}, tab : {v}, tenant : {t},
                   reply : {"none"}, version : {0}, alone : {n = 1 /\ ~others}]
<1>1. sent' = sent + n /\ sent' \in Nat
  BY DEF Sends
<1>2. calls' = {Joined(c) : c \in cs} \cup new
  BY DEF Sends
<1>3. kind \in Kinds("credentials") \cup Writes \cup {"detail", "login", "save"}
  BY KindsAre DEF Views, Writes
<1>4. \A i \in 1 .. sent : i \in 1 .. sent'
  BY <1>1
<1>5. \A i \in sent + 1 .. sent + n : i \in 1 .. sent'
  BY <1>1
<1>6. \A c \in cs : /\ c \in CallOf(sent) /\ Sound(c)
                    /\ Joined(c) \in CallOf(sent') /\ Joined(c).by = c.by /\ Joined(c).kind = c.kind
                    /\ Joined(c).tab = c.tab /\ Joined(c).tenant = c.tenant /\ Joined(c).reply = c.reply
                    /\ Joined(c).version = c.version
                    /\ Joined(c).alone <=> c.alone /\ ~About(c, v, t)
  <2> TAKE c \in cs
  <2>1. c \in CallOf(sent) /\ Sound(c)
    BY DEF NetInv
  <2>2. (c.alone /\ ~About(c, v, t)) \in BOOLEAN
    OBVIOUS
  <2> QED
    BY <1>4, <2>1, <2>2 DEF CallOf
<1>7. \A d \in new : /\ d \in CallOf(sent') /\ d.kind = kind /\ d.by = by /\ d.tab = v /\ d.tenant = t
                     /\ d.reply = "none" /\ d.version = 0 /\ d.id \in sent + 1 .. sent + n
                     /\ d.alone <=> n = 1 /\ ~others
  <2> TAKE d \in new
  <2>1. PICK lone \in BOOLEAN : lone = (n = 1 /\ ~others)
    OBVIOUS
  <2> HIDE DEF others
  <2>2. d \in [id : sent + 1 .. sent + n, kind : {kind}, by : {by}, tab : {v}, tenant : {t},
              reply : {"none"}, version : {0}, alone : {lone}]
    BY <2>1
  <2>3. /\ d.kind = kind /\ d.by = by /\ d.tab = v /\ d.tenant = t /\ d.reply = "none"
        /\ d.version = 0 /\ d.id \in sent + 1 .. sent + n /\ d.alone = lone
    BY <2>2
  <2>4. d \in CallOf(sent')
    BY <1>3, <1>5, <2>2 DEF CallOf
  <2> QED
    BY <2>1, <2>3, <2>4
<1>8. \A d \in new : Sound(d)
  BY <1>7 DEF Sound
<1>9. \A d \in new, c \in new : n = 1 => d = c
  <2>1. n = 1 => \A i, j \in sent + 1 .. sent + n : i = j
    OBVIOUS
  <2> QED
    BY <2>1
<1> HIDE DEF Joined, new
<1>10. \A c \in cs : Sound(Joined(c))
  BY <1>6 DEF Sound
<1>11. AloneIn(calls')
  <2> SUFFICES ASSUME NEW c \in calls', NEW d \in calls', c.alone, About(d, c.tab, c.tenant)
               PROVE  d = c
    BY DEF AloneIn
  <2>1. CASE c \in new /\ d \in new
    BY <1>7, <1>9, <2>1
  <2>2. CASE c \in new /\ d \notin new
    <3>1. PICK d0 \in cs : d = Joined(d0)
      BY <1>2, <2>2
    <3>2. About(d0, v, t)
      BY <1>6, <1>7, <2>2, <3>1 DEF About
    <3> QED
      BY <1>7, <2>2, <3>2
  <2>3. CASE c \notin new /\ d \in new
    <3>1. PICK c0 \in cs : c = Joined(c0)
      BY <1>2, <2>3
    <3>2. d.kind = kind /\ v = c0.tab /\ t = c0.tenant
      BY <1>6, <1>7, <2>3, <3>1 DEF About
    <3>3. Sound(c0) /\ kind \notin {"login", "save"}
      BY <1>6, <3>2 DEF About
    <3>4. About(c0, v, t)
      BY <3>2, <3>3 DEF About, Sound
    <3> QED
      BY <1>6, <3>1, <3>4
  <2>4. CASE c \notin new /\ d \notin new
    <3>1. PICK c0 \in cs, d0 \in cs : c = Joined(c0) /\ d = Joined(d0)
      BY <1>2, <2>4
    <3>2. c0.alone /\ About(d0, c0.tab, c0.tenant)
      BY <1>6, <3>1 DEF About
    <3> QED
      BY <3>1, <3>2 DEF NetInv, AloneIn
  <2> QED
    BY <2>1, <2>2, <2>3, <2>4
<1>12. CurrentIn(calls', version)
  BY <1>2, <1>6, <1>7 DEF CurrentIn, NetInv
<1>13. NetInv(calls', sent', version)
  BY <1>2, <1>6, <1>7, <1>8, <1>10, <1>11, <1>12 DEF NetInv
<1> QED
  BY <1>1, <1>2, <1>6, <1>7, <1>13

(* An answer is the server's version, and a change makes a new one.        *)
LEMMA HandleNet ==
  ASSUME IInv, NEW c \in calls, NEW ok \in BOOLEAN, NEW done \in BOOLEAN, Handle(c, ok, done)
  PROVE  /\ NetInv(calls', sent', version') /\ sent' = sent
         /\ version' \in [Views -> [Tenants -> Nat]]
         /\ \A t \in Tenants : version'["executions"][t] = version["executions"][t]
         /\ \A v \in Views, t \in Tenants :
              (\A d \in calls : ~About(d, v, t)) => version'[v][t] = version[v][t]
         /\ \A d \in calls' : \E e \in calls :
              d.kind = e.kind /\ d.by = e.by /\ d.tab = e.tab /\ d.tenant = e.tenant
<1> DEFINE n == IF ok /\ c.tab \in Views THEN version'[c.tab][c.tenant] ELSE 0
           r == IF ok THEN "ok" ELSE "error"
           a == [c EXCEPT !.reply = r, !.version = n]
           write == done /\ c.kind \in Writes
<1>1. /\ c \in CallOf(sent) /\ Sound(c) /\ c.tenant \in Tenants /\ c.reply = "none" /\ (ok => done)
      /\ sent' = sent /\ version \in [Views -> [Tenants -> Nat]]
      /\ version' = IF write THEN [version EXCEPT ![c.tab][c.tenant] = @ + 1] ELSE version
  BY DEF IInv, TypeOK, NetInv, Handle, CallOf
<1>2. calls' \subseteq (calls \ {c}) \cup {a}
  BY DEF Handle
<1>3. write => /\ c.tab \in Views /\ c.tab # "executions" /\ About(c, c.tab, c.tenant)
  BY <1>1, KindsAre DEF Sound, CallOf, Writes, Views, About
<1> HIDE DEF write
<1>4. /\ version' \in [Views -> [Tenants -> Nat]]
      /\ \A v \in Views, t \in Tenants : ~(write /\ v = c.tab /\ t = c.tenant) => version'[v][t] = version[v][t]
  <2>1. CASE write
    <3>1. version[c.tab] \in [Tenants -> Nat]
      BY <1>1, <1>3, <2>1
    <3>2. version' = [version EXCEPT ![c.tab] = [version[c.tab] EXCEPT ![c.tenant] = @ + 1]]
      BY <1>1, <2>1
    <3>3. [version[c.tab] EXCEPT ![c.tenant] = @ + 1] \in [Tenants -> Nat]
      BY <1>1, <3>1
    <3> QED
      BY <1>1, <1>3, <2>1, <3>1, <3>2, <3>3
  <2>2. CASE ~write
    BY <1>1, <2>2
  <2> QED
    BY <2>1, <2>2
<1>5. n \in Nat /\ r \in {"ok", "error"}
  BY <1>1, <1>4
<1>6. n = (IF ok /\ c.tab \in Views THEN version'[c.tab][c.tenant] ELSE 0) /\ (r = "ok" <=> ok)
  OBVIOUS
<1> HIDE DEF n, r
<1>7. /\ a \in CallOf(sent) /\ a.by = c.by /\ a.kind = c.kind /\ a.tab = c.tab /\ a.tenant = c.tenant
      /\ a.reply = r /\ a.version = n /\ a.alone = c.alone
  BY <1>1, <1>5 DEF CallOf
<1> HIDE DEF a
<1>8. \A t \in Tenants : version["executions"][t] = 0 /\ version'["executions"][t] = 0
  BY <1>3, <1>4 DEF IInv, QuietInv, Views
<1>9. Sound(a)
  BY <1>1, <1>6, <1>7, <1>8 DEF Sound, Views
<1>10. \A d \in calls' : \E e \in calls :
         /\ (d = e /\ e # c) \/ (d = a /\ e = c)
         /\ d.kind = e.kind /\ d.by = e.by /\ d.tab = e.tab /\ d.tenant = e.tenant /\ d.alone = e.alone
  BY <1>2, <1>7
<1>11. AloneIn(calls')
  <2> SUFFICES ASSUME NEW d \in calls', NEW f \in calls', d.alone, About(f, d.tab, d.tenant)
               PROVE  f = d
    BY DEF AloneIn
  <2>1. PICK d0 \in calls : /\ (d = d0 /\ d0 # c) \/ (d = a /\ d0 = c)
                            /\ d.tab = d0.tab /\ d.tenant = d0.tenant /\ d.alone = d0.alone
    BY <1>10
  <2>2. PICK f0 \in calls : /\ (f = f0 /\ f0 # c) \/ (f = a /\ f0 = c)
                            /\ f.kind = f0.kind /\ f.tab = f0.tab /\ f.tenant = f0.tenant
    BY <1>10
  <2>3. f0 = d0
    BY <2>1, <2>2 DEF IInv, NetInv, AloneIn, About
  <2> QED
    BY <2>1, <2>2, <2>3
<1>12. CurrentIn(calls', version')
  <2> SUFFICES ASSUME NEW d \in calls', d.alone, d.kind \in {"load", "settings"}, d.reply = "ok"
               PROVE  d.version = version'[d.tab][d.tenant]
    BY DEF CurrentIn
  <2>1. CASE d = a
    BY <1>1, <1>6, <1>7, <2>1 DEF Sound, CallOf
  <2>2. CASE d \in calls /\ d # c
    <3>1. d \in CallOf(sent) /\ Sound(d) /\ d.tenant \in Tenants /\ d.tab \in Views
      BY <2>2 DEF IInv, NetInv, CallOf, Sound
    <3>2. d.version = version[d.tab][d.tenant]
      BY <2>2 DEF IInv, NetInv, CurrentIn
    <3>3. ~(write /\ d.tab = c.tab /\ d.tenant = c.tenant)
      BY <1>3, <2>2 DEF IInv, NetInv, AloneIn
    <3> QED
      BY <1>4, <3>1, <3>2, <3>3
  <2> QED
    BY <1>2, <2>1, <2>2
<1>13. NetInv(calls', sent', version')
  BY <1>1, <1>2, <1>7, <1>9, <1>11, <1>12 DEF IInv, NetInv
<1>14. \A v \in Views, t \in Tenants :
         (\A d \in calls : ~About(d, v, t)) => version'[v][t] = version[v][t]
  BY <1>3, <1>4
<1> QED
  BY <1>1, <1>4, <1>8, <1>10, <1>13, <1>14

-----------------------------------------------------------------------------
(***************************************************************************)
(* The invariant, action by action.                                        *)
(***************************************************************************)
(* The page has been loaded.                                               *)
LEMMA InitIInv == Init => IInv
<1> SUFFICES ASSUME Init PROVE IInv
  OBVIOUS
<1> USE ConstantsAssumption
<1>1. TypeOK
  <2>1. /\ authed \in BOOLEAN /\ token \in Tenants \cup {None} /\ form \in Tenants /\ sent \in Nat
        /\ clicks \in 0 .. MaxClicks /\ adrift \in BOOLEAN
    BY DEF Init
  <2>2. version \in [Views -> [Tenants -> Nat]]
    BY DEF Init
  <2>3. used \in SUBSET (Nodes \cup {Trigger}) /\ nodes \in [DOMAIN nodes -> Nat] /\ DOMAIN nodes \subseteq used
    BY DEF Init
  <2> QED
    BY <2>1, <2>2, <2>3 DEF Init, TypeOK
<1>2. NetInv(calls, sent, version) /\ \A c \in calls : Heard(c)
  BY DEF Init, NetInv, AloneIn, CurrentIn
<1>3. SessionInv
  BY DEF Init, SessionInv, SignedInWithToken
<1>4. QuietInv
  BY DEF Init, QuietInv, Quiet, Views
<1>5. BuilderInv
  BY DEF Init, BuilderInv, BuilderConsistent, PanelInSync, EdgesResolve
<1> QED
  BY <1>1, <1>2, <1>3, <1>4, <1>5 DEF IInv

(* The builder, when a step is about calls.                                *)
LEMMA BuilderSame ==
  ASSUME IInv, UNCHANGED builder
  PROVE  /\ BuilderInv' /\ used' \in SUBSET (Nodes \cup {Trigger}) /\ nodes' \in [DOMAIN nodes' -> Nat]
         /\ DOMAIN nodes' \subseteq used' /\ edges' \subseteq used' \X used'
         /\ selected' = None \/ selected' \in [id : used', data : Nat]
<1>1. BuilderInv'
  BY DEF IInv, BuilderInv, BuilderConsistent, PanelInSync, EdgesResolve, builder
<1> QED
  BY <1>1 DEF IInv, TypeOK, builder

(* App makes a call: to sign in or to save.                                *)
LEMMA AppCallsKeep ==
  ASSUME IInv, SignIn \/ SaveWorkflow, clicks' \in 0 .. MaxClicks
  PROVE  IInv'
<1>1. PICK kind \in {"login", "save"}, t \in Tenants : Sends(calls, 1, kind, "app", "builder", t)
  BY DEF SignIn, SaveWorkflow, IInv, TypeOK, SessionInv, SignedInWithToken
<1>2. /\ status' = "busy" /\ UNCHANGED <<token, authed, form, adrift, tab, view, version, builder>>
  BY DEF SignIn, SaveWorkflow
<1>3. /\ sent' = sent + 1 /\ NetInv(calls', sent', version)
      /\ \A d \in calls' : \/ \E c \in calls : d.by = c.by /\ d.tab = c.tab /\ d.tenant = c.tenant
                           \/ d.by = "app" /\ d.tab = "builder" /\ d.tenant = t
  <2>1. NetInv(calls, sent, version) /\ sent \in Nat /\ "builder" \notin Views
    BY DEF IInv, TypeOK, Views
  <2>2. kind \in {"login", "save"} <=> "builder" = "builder"
    OBVIOUS
  <2>3. "builder" \in Views \cup {"builder"} /\ "app" \in {"app", "view"} /\ 1 \in {1, 2}
    OBVIOUS
  <2>4. "builder" \in Views => kind \in Kinds("builder")
    BY <2>1
  <2> QED
    BY <1>1, <2>1, <2>2, <2>3, <2>4, SendsNet
<1>4. TypeOK'
  BY <1>2, <1>3, BuilderSame DEF IInv, TypeOK, view, NetInv, CallOf
<1>5. SessionInv' /\ \A d \in calls' : Heard(d)'
  BY <1>2, <1>3 DEF IInv, SessionInv, SignedInWithToken, IsFor, Heard, view
<1>6. QuietInv'
  BY <1>2, <1>3 DEF IInv, QuietInv, Quiet, view, About, NetInv, Sound
<1>7. BuilderInv'
  BY <1>2, BuilderSame
<1> QED
  BY <1>2, <1>3, <1>4, <1>5, <1>6, <1>7 DEF IInv

(* The login form is only there when no view is mounted.                   *)
LEMMA TypingKeeps ==
  ASSUME IInv, NEW t \in Tenants, TypeTenant(t)
  PROVE  IInv'
<1>1. /\ ~authed /\ tab = "builder" /\ form' = t
      /\ UNCHANGED <<token, authed, tab, status, view, net, builder, clicks>>
  BY DEF TypeTenant, IInv, SessionInv
<1>0. adrift' \in BOOLEAN
  <2>1. PICK b \in BOOLEAN : b = SigningIn
    BY DEF SigningIn
  <2> QED
    BY <2>1 DEF TypeTenant, IInv, TypeOK
<1>2. TypeOK'
  BY <1>0, <1>1, BuilderSame DEF IInv, TypeOK, view, net
<1>3. NetInv(calls', sent', version')
  BY <1>1 DEF IInv, net
<1>4. SessionInv' /\ \A d \in calls' : Heard(d)'
  BY <1>1 DEF IInv, SessionInv, SignedInWithToken, IsFor, Heard, view, net, Views
<1>5. QuietInv'
  BY <1>1 DEF IInv, QuietInv, Quiet, view, net
<1>6. BuilderInv'
  BY <1>1, BuilderSame
<1> QED
  BY <1>2, <1>3, <1>4, <1>5, <1>6 DEF IInv

(* An unmounted view's calls are nobody's.                                 *)
LEMMA Unmounted ==
  ASSUME IInv
  PROVE  /\ NetInv(Unmounts(calls), sent, version) /\ NetInv(Without(calls, calls), sent, version)
         /\ \A d \in Unmounts(calls) : d.by # "view"
         /\ \A d \in Without(calls, calls) : d.by # "view"
<1>1. NetInv(calls, sent, version) /\ sent \in Nat
  BY DEF IInv, TypeOK
<1> DEFINE heard == {c \in calls : c.by = "view"}
<1>2. /\ NetInv(Without(calls, heard), sent, version)
      /\ \A d \in Without(calls, heard) : d \in calls \ heard \/ d.by = "gone"
  <2>1. heard \in SUBSET calls
    OBVIOUS
  <2> HIDE DEF heard
  <2> QED
    BY <1>1, <2>1, WithoutNet
<1>3. /\ NetInv(Without(calls, calls), sent, version)
      /\ \A d \in Without(calls, calls) : d \in calls \ calls \/ d.by = "gone"
  <2>1. calls \in SUBSET calls
    OBVIOUS
  <2> QED
    BY <1>1, <2>1, WithoutNet
<1> QED
  BY <1>2, <1>3 DEF Unmounts

(* Signing out, leaving a view and loading the page anew leave no view.    *)
LEMMA LeavingKeeps ==
  ASSUME IInv, Logout \/ OpenBuilder \/ Reload, clicks' \in 0 .. MaxClicks
  PROVE  IInv'
<1>1. /\ tab' = "builder" /\ shown' = None /\ detail' = None /\ relogged' = FALSE /\ msg' = "empty"
      /\ calls' \in {Unmounts(calls), Without(calls, calls)} /\ UNCHANGED <<sent, version, used>>
      /\ token' \in {token, None} /\ form' \in {form, Default} /\ status' \in {status, "settled"}
  <2>1. CASE Logout
    BY <2>1 DEF Logout, NoView
  <2>2. CASE OpenBuilder
    BY <2>2 DEF OpenBuilder, NoView, builder
  <2>3. CASE Reload
    BY <2>3 DEF Reload, NoView
  <2> QED
    BY <2>1, <2>2, <2>3
<1>2. (authed' <=> token' # None) /\ authed' \in BOOLEAN
  <2>1. CASE Logout
    BY <2>1 DEF Logout
  <2>2. CASE OpenBuilder
    BY <2>2 DEF OpenBuilder, IInv, SessionInv, SignedInWithToken, TypeOK
  <2>3. CASE Reload
    BY <2>3 DEF Reload
  <2> QED
    BY <2>1, <2>2, <2>3
<1>0. adrift' \in BOOLEAN
  <2>1. CASE Logout
    <3>1. PICK b \in BOOLEAN : b = SigningIn
      BY DEF SigningIn
    <3> QED
      BY <2>1, <3>1 DEF Logout, IInv, TypeOK
  <2>2. CASE OpenBuilder
    BY <2>2 DEF OpenBuilder, IInv, TypeOK
  <2>3. CASE Reload
    BY <2>3 DEF Reload
  <2> QED
    BY <2>1, <2>2, <2>3
<1>3. NetInv(calls', sent', version') /\ \A d \in calls' : d.by # "view"
  BY <1>1, Unmounted
<1>4. /\ BuilderInv' /\ nodes' \in [DOMAIN nodes' -> Nat]
      /\ DOMAIN nodes' \subseteq used' /\ edges' \subseteq used' \X used'
      /\ selected' = None \/ selected' \in [id : used', data : Nat]
  <2>1. CASE OpenBuilder
    BY <2>1, BuilderSame DEF OpenBuilder
  <2>2. CASE Logout
    <3>1. UNCHANGED <<nodes, edges, used>> /\ selected' = None
      BY <2>2 DEF Logout
    <3>2. BuilderInv'
      BY <3>1 DEF IInv, BuilderInv, BuilderConsistent, PanelInSync, EdgesResolve
    <3> QED
      BY <3>1, <3>2 DEF IInv, TypeOK
  <2>3. CASE Reload
    <3>1. nodes' = [n \in {Trigger} |-> 0] /\ edges' = {} /\ selected' = None /\ used' = used
      BY <2>3 DEF Reload
    <3>2. BuilderInv' /\ Trigger \in used'
      BY <3>1 DEF IInv, BuilderInv, BuilderConsistent, PanelInSync, EdgesResolve
    <3> QED
      BY <3>1, <3>2
  <2> QED
    BY <2>1, <2>2, <2>3
<1>5. TypeOK'
  BY <1>0, <1>1, <1>2, <1>3, <1>4, ConstantsAssumption DEF IInv, TypeOK, NetInv, CallOf
<1>6. SessionInv' /\ \A d \in calls' : Heard(d)'
  BY <1>1, <1>2, <1>3 DEF IInv, SessionInv, SignedInWithToken, Heard
<1>7. QuietInv'
  BY <1>1 DEF IInv, QuietInv, Quiet
<1> QED
  BY <1>3, <1>4, <1>5, <1>6, <1>7 DEF IInv

(* The tenant of a view's calls is that of the data it is to show.         *)
LEMMA TenantForTyped ==
  ASSUME IInv, authed, NEW v \in Views
  PROVE  TenantFor(v) \in Tenants
  BY DEF IInv, TypeOK, SessionInv, SignedInWithToken, TenantFor

(* A view is mounted, and asks for its data.                               *)
LEMMA OpenKeeps ==
  ASSUME IInv, NEW v \in Views, OpenView(v), clicks' \in 0 .. MaxClicks
  PROVE  IInv'
<1>1. /\ authed /\ Sends(Unmounts(calls), EffectRuns, "load", "view", v, TenantFor(v))
      /\ tab' = v /\ shown' = None /\ detail' = None /\ relogged' = FALSE /\ msg' = "busy"
      /\ UNCHANGED <<token, authed, form, adrift, status, version, builder>>
  BY DEF OpenView, NoView
<1>2. PICK t \in Tenants : t = TenantFor(v)
  BY <1>1, TenantForTyped
<1>3. /\ sent' = sent + EffectRuns /\ NetInv(calls', sent', version)
      /\ \A d \in calls' :
           \/ \E c \in Unmounts(calls) : d.by = c.by /\ d.tab = c.tab /\ d.tenant = c.tenant
           \/ d.by = "view" /\ d.tab = v /\ d.tenant = t
  <2>1. NetInv(Unmounts(calls), sent, version) /\ sent \in Nat
    BY Unmounted DEF IInv, TypeOK
  <2>2. "load" \in {"login", "save"} <=> v = "builder"
    BY DEF Views
  <2>3. v \in Views => "load" \in Kinds(v)
    BY KindsAre DEF Views
  <2>4. Sends(Unmounts(calls), EffectRuns, "load", "view", v, t) /\ EffectRuns \in {1, 2}
    BY <1>1, <1>2, ConstantsAssumption
  <2>5. v \in Views \cup {"builder"} /\ "view" \in {"app", "view"}
    OBVIOUS
  <2> QED
    BY <2>1, <2>2, <2>3, <2>4, <2>5, SendsNet
<1>4. \A d \in calls' : d.by = "view" => d.tab = v /\ d.tenant = t
  BY <1>3, Unmounted
<1>5. TypeOK'
  <2>1. sent' \in Nat /\ tab' \in Views \cup {"builder"} /\ msg' \in {"empty", "busy", "quiet", "done", "error"}
    BY <1>1, <1>3, ConstantsAssumption DEF IInv, TypeOK
  <2>2. calls' \subseteq CallOf(sent')
    BY <1>3 DEF NetInv
  <2> QED
    BY <1>1, <2>1, <2>2, BuilderSame DEF IInv, TypeOK, CallOf
<1>6. SessionInv'
  BY <1>1 DEF IInv, SessionInv, SignedInWithToken, Views
<1>7. \A d \in calls' : Heard(d)'
  BY <1>1, <1>2, <1>4 DEF Heard, IsFor, TenantFor
<1>8. QuietInv'
  BY <1>1 DEF IInv, QuietInv, Quiet
<1>9. BuilderInv'
  BY <1>1, BuilderSame
<1> QED
  BY <1>1, <1>3, <1>5, <1>6, <1>7, <1>8, <1>9 DEF IInv

(* A view asks for more, from the calls cs that are under way.             *)
LEMMA AsksKeeps ==
  ASSUME IInv, NEW cs \in SUBSET calls, NEW kind \in Kinds(tab), NEW t \in Tenants, IsFor(t),
         tab \in Views, Sends(cs, 1, kind, "view", tab, t), msg' = "busy",
         UNCHANGED <<session, shown, detail, relogged, version, builder>>, clicks' \in 0 .. MaxClicks
  PROVE  IInv'
<1>1. PICK v \in Views, k \in {"load", "change", "test", "detail", "settings"} : v = tab /\ k = kind
  BY KindsAre DEF Views
<1>2. /\ sent' = sent + 1 /\ NetInv(calls', sent', version)
      /\ \A d \in calls' : \/ \E c \in cs : d.by = c.by /\ d.tab = c.tab /\ d.tenant = c.tenant
                           \/ d.by = "view" /\ d.tab = v /\ d.tenant = t
  <2>1. NetInv(cs, sent, version) /\ sent \in Nat
    BY FewerNet DEF IInv, TypeOK
  <2>2. k \in {"login", "save"} <=> v = "builder"
    BY DEF Views
  <2>3. v \in Views => k \in Kinds(v)
    BY <1>1
  <2>4. Sends(cs, 1, k, "view", v, t)
    BY <1>1
  <2>5. v \in Views \cup {"builder"} /\ "view" \in {"app", "view"} /\ 1 \in {1, 2}
    OBVIOUS
  <2> QED
    BY <2>1, <2>2, <2>3, <2>4, <2>5, SendsNet
<1>3. TypeOK'
  BY <1>2, BuilderSame DEF IInv, TypeOK, NetInv, CallOf, session
<1>4. SessionInv'
  BY DEF IInv, SessionInv, SignedInWithToken, IsFor, session
<1>5. \A d \in calls' : Heard(d)'
  BY <1>1, <1>2 DEF IInv, Heard, IsFor, session
<1>6. QuietInv'
  BY DEF IInv, QuietInv, Quiet, session
<1>7. BuilderInv'
  BY BuilderSame
<1> QED
  BY <1>2, <1>3, <1>4, <1>5, <1>6, <1>7 DEF IInv

(* A button is pressed.                                                    *)
LEMMA PressKeeps ==
  ASSUME IInv, NEW kind, Press(kind), clicks' \in 0 .. MaxClicks
  PROVE  IInv'
<1>1. tab \in Views
  BY KindsAre DEF Press, IInv, TypeOK
<1>2. PICK t \in Tenants : t = TenantFor(tab)
  BY <1>1, TenantForTyped DEF Press
<1>3. IsFor(t)
  BY <1>2 DEF IsFor, TenantFor
<1>4. Sends(calls, 1, kind, "view", tab, t) /\ kind \in Kinds(tab) /\ msg' = "busy"
  BY <1>2 DEF Press
<1>5. UNCHANGED <<session, shown, detail, relogged, version, builder>>
  BY DEF Press
<1> QED
  BY <1>1, <1>3, <1>4, <1>5, AsksKeeps

(* The builder is not concerned with calls.                                *)
LEMMA BuildingKeeps ==
  ASSUME IInv, UNCHANGED <<session, view, net>>, clicks' \in 0 .. MaxClicks, BuilderInv',
         used' \in SUBSET (Nodes \cup {Trigger}), nodes' \in [DOMAIN nodes' -> Nat],
         DOMAIN nodes' \subseteq used', edges' \subseteq used' \X used',
         selected' = None \/ selected' \in [id : used', data : Nat]
  PROVE  IInv'
<1>1. TypeOK'
  BY DEF IInv, TypeOK, session, view, net
<1>2. NetInv(calls', sent', version')
  BY DEF IInv, net
<1>3. SessionInv' /\ \A d \in calls' : Heard(d)'
  BY DEF IInv, SessionInv, SignedInWithToken, IsFor, Heard, session, view, net
<1>4. QuietInv'
  BY DEF IInv, QuietInv, Quiet, session, view, net
<1> QED
  BY <1>1, <1>2, <1>3, <1>4 DEF IInv

(* A node is new, an edge ties nodes that are there, the panel copies what *)
(* it shows.                                                               *)
LEMMA BuilderKeeps ==
  ASSUME IInv, clicks' \in 0 .. MaxClicks,
         \/ \E n \in Nodes : AddNode(n)
         \/ \E m, n \in Nodes \cup {Trigger} : Connect(m, n)
         \/ \E n \in Nodes \cup {Trigger} : NodeClick(n) \/ DeleteNode(n)
         \/ ClosePanel \/ UpdateSelected
  PROVE  IInv'
<1> USE DEF BuilderInv, BuilderConsistent, PanelInSync, EdgesResolve, Building
<1>1. /\ Trigger \in used /\ used \in SUBSET (Nodes \cup {Trigger}) /\ nodes \in [DOMAIN nodes -> Nat]
      /\ DOMAIN nodes \subseteq used /\ edges \subseteq used \X used
      /\ selected = None \/ selected \in [id : used, data : Nat]
      /\ PanelInSync /\ EdgesResolve
  BY DEF IInv, TypeOK
<1>2. ASSUME NEW n \in Nodes, AddNode(n) PROVE IInv'
  <2>1. /\ nodes' = [x \in DOMAIN nodes \cup {n} |-> IF x = n THEN 0 ELSE nodes[x]] /\ n \notin used
        /\ used' = used \cup {n} /\ UNCHANGED <<edges, selected, session, view, net>>
    BY <1>2 DEF AddNode
  <2>2. nodes' \in [DOMAIN nodes' -> Nat] /\ DOMAIN nodes' = DOMAIN nodes \cup {n}
    BY <1>1, <2>1
  <2>3. edges' \subseteq used' \X used' /\ (selected' = None \/ selected' \in [id : used', data : Nat])
    BY <1>1, <2>1
  <2>4. BuilderInv'
    BY <1>1, <2>1, <2>2
  <2> QED
    BY <1>1, <2>1, <2>2, <2>3, <2>4, BuildingKeeps
<1>3. ASSUME NEW m \in Nodes \cup {Trigger}, NEW n \in Nodes \cup {Trigger}, Connect(m, n) PROVE IInv'
  <2>1. /\ {m, n} \subseteq DOMAIN nodes /\ edges' = edges \cup {<<m, n>>}
        /\ UNCHANGED <<nodes, selected, used, session, view, net>>
    BY <1>3 DEF Connect
  <2>2. BuilderInv' /\ edges' \subseteq used' \X used'
    BY <1>1, <2>1
  <2> QED
    BY <1>1, <2>1, <2>2, BuildingKeeps
<1>4. ASSUME NEW n \in Nodes \cup {Trigger}, NodeClick(n) PROVE IInv'
  <2>1. /\ n \in DOMAIN nodes /\ selected' = [id |-> n, data |-> nodes[n]]
        /\ UNCHANGED <<nodes, edges, used, session, view, net>>
    BY <1>4 DEF NodeClick
  <2>2. BuilderInv' /\ selected' \in [id : used', data : Nat]
    BY <1>1, <2>1
  <2> QED
    BY <1>1, <2>1, <2>2, BuildingKeeps
<1>5. ASSUME NEW n \in Nodes \cup {Trigger}, DeleteNode(n) PROVE IInv'
  <2>1. /\ nodes' = [x \in DOMAIN nodes \ {n} |-> nodes[x]]
        /\ edges' = {e \in edges : n \notin {e[1], e[2]}}
        /\ UNCHANGED <<selected, used, session, view, net>>
    BY <1>5 DEF DeleteNode
  <2>2. /\ nodes' \in [DOMAIN nodes' -> Nat] /\ DOMAIN nodes' = DOMAIN nodes \ {n}
        /\ edges' \subseteq used' \X used'
    BY <1>1, <2>1
  <2>3. BuilderInv'
    BY <1>1, <2>1, <2>2
  <2> QED
    BY <1>1, <2>1, <2>2, <2>3, BuildingKeeps
<1>6. ASSUME ClosePanel PROVE IInv'
  <2>1. selected' = None /\ UNCHANGED <<nodes, edges, used, session, view, net>>
    BY <1>6 DEF ClosePanel
  <2>2. BuilderInv'
    BY <1>1, <2>1
  <2> QED
    BY <1>1, <2>1, <2>2, BuildingKeeps
<1>7. ASSUME UpdateSelected PROVE IInv'
  <2>1. /\ selected # None /\ selected \in [id : used, data : Nat]
        /\ nodes' = [x \in DOMAIN nodes |-> IF x = selected.id THEN nodes[x] + 1 ELSE nodes[x]]
        /\ selected' = [selected EXCEPT !.data = @ + 1]
        /\ UNCHANGED <<edges, used, session, view, net>>
    BY <1>1, <1>7 DEF UpdateSelected
  <2>2. /\ nodes' \in [DOMAIN nodes' -> Nat] /\ DOMAIN nodes' = DOMAIN nodes
        /\ selected' \in [id : used', data : Nat]
        /\ selected'.id = selected.id /\ selected'.data = selected.data + 1
    BY <1>1, <2>1
  <2>3. BuilderInv'
    BY <1>1, <2>1, <2>2
  <2> QED
    BY <1>1, <2>1, <2>2, <2>3, BuildingKeeps
<1> QED
  BY <1>2, <1>3, <1>4, <1>5, <1>6, <1>7

(* A call is handled: nobody on the page knows yet, and if what the view   *)
(* shows has changed since then it was about that call's data.             *)
LEMMA HandleKeeps ==
  ASSUME IInv, NEW c \in calls, NEW ok \in BOOLEAN, NEW done \in BOOLEAN, Handle(c, ok, done),
         UNCHANGED clicks
  PROVE  IInv'
<1>1. /\ NetInv(calls', sent', version') /\ sent' = sent
      /\ version' \in [Views -> [Tenants -> Nat]]
      /\ \A t \in Tenants : version'["executions"][t] = version["executions"][t]
      /\ \A v \in Views, t \in Tenants :
           (\A d \in calls : ~About(d, v, t)) => version'[v][t] = version[v][t]
      /\ \A d \in calls' : \E e \in calls :
           d.kind = e.kind /\ d.by = e.by /\ d.tab = e.tab /\ d.tenant = e.tenant
  BY HandleNet
<1>2. UNCHANGED <<session, view, builder>>
  BY DEF Handle
<1>3. TypeOK'
  <2>1. calls' \subseteq CallOf(sent')
    BY <1>1 DEF NetInv
  <2> QED
    BY <1>1, <1>2, <2>1, BuilderSame DEF IInv, TypeOK, CallOf, session, view
<1>4. SessionInv'
  BY <1>2 DEF IInv, SessionInv, SignedInWithToken, IsFor, session, view
<1>5. \A d \in calls' : Heard(d)'
  BY <1>1, <1>2 DEF IInv, Heard, IsFor, session, view
<1>6. QuietInv'
  <2>1. (\A t \in Tenants : version'["executions"][t] = 0) /\ (tab' = "executions" /\ shown' # None => shown'.version = 0)
    BY <1>1, <1>2 DEF IInv, QuietInv, session, view
  <2>2. ASSUME Quiet, tab \in {"credentials", "administration"}, shown # None, shown.alone
        PROVE  /\ shown.version = version'[tab][shown.tenant]
               /\ \A d \in calls' : ~About(d, tab, shown.tenant)
    <3>1. /\ shown.version = version[tab][shown.tenant]
          /\ \A d \in calls : ~About(d, tab, shown.tenant)
      BY <2>2 DEF IInv, QuietInv
    <3>2. PICK v \in Views, t \in Tenants : v = tab /\ t = shown.tenant
      BY <2>2 DEF IInv, TypeOK, Views
    <3>3. shown.version = version'[v][t]
      BY <1>1, <3>1, <3>2
    <3>4. \A d \in calls' : ~About(d, v, t)
      BY <1>1, <3>1, <3>2 DEF About
    <3> QED
      BY <3>2, <3>3, <3>4
  <2> QED
    BY <1>2, <2>1, <2>2 DEF QuietInv, Quiet, session, view
<1>7. BuilderInv'
  BY <1>2, BuilderSame
<1> QED
  BY <1>1, <1>3, <1>4, <1>5, <1>6, <1>7 DEF IInv

(* An answer arrives: one call fewer, and it is the view's if the view     *)
(* listens.                                                                *)
LEMMA ArrivesFacts ==
  ASSUME IInv, NEW c \in calls, Arrives(c)
  PROVE  /\ calls' = calls \ {c} /\ UNCHANGED <<sent, version, builder>>
         /\ NetInv(calls', sent', version') /\ calls' \subseteq CallOf(sent')
         /\ c \in CallOf(sent) /\ Sound(c) /\ Heard(c)
<1>1. calls' = calls \ {c} /\ UNCHANGED <<sent, version, builder>> /\ sent \in Nat
  BY DEF Arrives, IInv, TypeOK
<1>2. NetInv(calls', sent, version)
  BY <1>1, FewerNet DEF IInv
<1>3. c \in CallOf(sent) /\ Sound(c) /\ Heard(c)
  BY DEF IInv, NetInv
<1> QED
  BY <1>1, <1>2, <1>3 DEF NetInv

(* What a call brings.                                                     *)
LEMMA DataTyped ==
  ASSUME NEW c \in CallOf(sent)
  PROVE  /\ Data(c) \in [tenant : Tenants, version : Nat, alone : BOOLEAN]
         /\ Data(c).tenant = c.tenant /\ Data(c).version = c.version /\ Data(c).alone = c.alone
  BY DEF Data, CallOf

(* A sign-in under a mounted view is remembered with it; the view's data   *)
(* and calls stay those of the tenant it was mounted for.                  *)
LEMMA SignedInKeeps ==
  ASSUME IInv, NEW c \in calls, SignedIn(c), UNCHANGED clicks
  PROVE  IInv'
<1>1. /\ calls' = calls \ {c} /\ UNCHANGED <<sent, version, builder>>
      /\ NetInv(calls', sent', version') /\ calls' \subseteq CallOf(sent')
      /\ c \in CallOf(sent)
  BY ArrivesFacts DEF SignedIn
<1>2. /\ UNCHANGED <<form, adrift, tab, shown, detail, msg>> /\ status' = "settled"
      /\ \/ token' = c.tenant /\ authed' = TRUE /\ relogged' = (tab \in Views)
         \/ UNCHANGED <<token, authed, relogged>>
  BY DEF SignedIn
<1>3. token' \in Tenants \cup {None} /\ authed' \in BOOLEAN /\ (authed' <=> token' # None)
  <2>1. c.tenant \in Tenants /\ c.tenant # None
    BY <1>1, ConstantsAssumption DEF CallOf
  <2>2. CASE token' = c.tenant /\ authed' = TRUE
    BY <2>1, <2>2
  <2>3. CASE UNCHANGED <<token, authed, relogged>>
    BY <2>3 DEF IInv, TypeOK, SessionInv, SignedInWithToken
  <2> QED
    BY <1>2, <2>2, <2>3
<1>4. relogged' \in BOOLEAN
  <2>1. CASE relogged' = (tab \in Views)
    <3>1. (tab \in Views) \in BOOLEAN
      OBVIOUS
    <3> QED
      BY <2>1, <3>1
  <2>2. CASE relogged' = relogged
    BY <2>2 DEF IInv, TypeOK
  <2> QED
    BY <1>2, <2>1, <2>2
<1>5. TypeOK'
  BY <1>1, <1>2, <1>3, <1>4, BuilderSame DEF IInv, TypeOK, CallOf
<1>6. \A t \in Tenants : IsFor(t) /\ tab \in Views => IsFor(t)'
  BY <1>2 DEF IsFor
<1>7. authed /\ tab \in Views => authed'
  BY <1>2
<1>8. SessionInv'
  <2>1. shown' # None => \E t \in Tenants : t = shown.tenant /\ IsFor(t)'
    BY <1>2, <1>6 DEF IInv, SessionInv, TypeOK, Views
  <2>2. detail' # None => IsFor(detail)'
    BY <1>2, <1>6 DEF IInv, SessionInv, TypeOK, Views, IsFor
  <2> QED
    BY <1>2, <1>3, <1>7, <2>1, <2>2 DEF IInv, SessionInv, SignedInWithToken, IsFor
<1>9. \A d \in calls' : Heard(d)'
  <2> TAKE d \in calls'
  <2>1. d \in calls /\ d.tenant \in Tenants
    BY <1>1 DEF CallOf
  <2> QED
    BY <1>2, <1>6, <2>1 DEF IInv, Heard, IsFor
<1>10. QuietInv'
  BY <1>1, <1>2 DEF IInv, QuietInv, Quiet
<1>11. BuilderInv'
  BY <1>1, BuilderSame
<1> QED
  BY <1>1, <1>5, <1>8, <1>9, <1>10, <1>11 DEF IInv

(* An answer for the view: what it shows is what its own call brought.     *)
LEMMA ViewHearsKeeps ==
  ASSUME IInv, NEW c \in calls, Arrives(c), UNCHANGED <<session, relogged, clicks>>,
         shown' = shown \/ (c.by = "view" /\ shown' = Data(c)),
         detail' = detail \/ (c.by = "view" /\ tab = "executions" /\ detail' = c.tenant),
         msg' \in {"empty", "busy", "quiet", "done", "error"},
         Quiet' /\ tab \in {"credentials", "administration"} =>
           \/ shown' = shown /\ Quiet
           \/ shown' = Data(c) /\ c.by = "view" /\ c.reply = "ok" /\ c.kind \in {"load", "settings"}
  PROVE  IInv'
<1>1. /\ calls' = calls \ {c} /\ UNCHANGED <<sent, version, builder>>
      /\ NetInv(calls', sent', version') /\ calls' \subseteq CallOf(sent')
      /\ c \in CallOf(sent) /\ Sound(c) /\ Heard(c) /\ c.tenant \in Tenants
  BY ArrivesFacts DEF CallOf
<1>2. /\ Data(c) \in [tenant : Tenants, version : Nat, alone : BOOLEAN]
      /\ Data(c).tenant = c.tenant /\ Data(c).version = c.version /\ Data(c).alone = c.alone
  BY <1>1, DataTyped
<1>3. TypeOK'
  BY <1>1, <1>2, BuilderSame DEF IInv, TypeOK, CallOf, session
<1>4. SessionInv'
  BY <1>1, <1>2 DEF IInv, SessionInv, SignedInWithToken, IsFor, Heard, session, Views
<1>5. \A d \in calls' : Heard(d)'
  BY <1>1 DEF IInv, Heard, IsFor, session
<1>6. QuietInv'
  <2>1. tab' = "executions" /\ shown' # None => shown'.version = 0
    BY <1>1, <1>2 DEF IInv, QuietInv, Heard, Sound, session
  <2>2. ASSUME Quiet', tab \in {"credentials", "administration"}, shown' # None, shown'.alone
        PROVE  /\ shown'.version = version[tab][shown'.tenant]
               /\ \A d \in calls' : ~About(d, tab, shown'.tenant)
    <3>1. CASE shown' = shown /\ Quiet
      BY <1>1, <2>2, <3>1 DEF IInv, QuietInv
    <3>2. CASE shown' = Data(c) /\ c.by = "view" /\ c.reply = "ok" /\ c.kind \in {"load", "settings"}
      <4>1. c.alone /\ c.tab = tab /\ shown'.tenant = c.tenant /\ shown'.version = c.version
        BY <1>1, <1>2, <2>2, <3>2 DEF Heard
      <4>2. c.version = version[c.tab][c.tenant]
        BY <3>2, <4>1 DEF IInv, NetInv, CurrentIn
      <4>3. \A d \in calls : About(d, c.tab, c.tenant) => d = c
        BY <4>1 DEF IInv, NetInv, AloneIn
      <4> QED
        BY <1>1, <4>1, <4>2, <4>3
    <3> QED
      BY <2>2, <3>1, <3>2
  <2> QED
    BY <1>1, <2>1, <2>2 DEF IInv, QuietInv, session
<1>7. BuilderInv'
  BY <1>1, BuilderSame
<1> QED
  BY <1>1, <1>3, <1>4, <1>5, <1>6, <1>7 DEF IInv

(* Every continuation.                                                     *)
LEMMA ContinuationKeeps ==
  ASSUME IInv, NEW c \in calls, Continuation(c), UNCHANGED clicks
  PROVE  IInv'
<1>1. c \in CallOf(sent) /\ Sound(c) /\ Heard(c)
  BY DEF IInv, NetInv
<1> USE DEF session
<1>2. CASE SignedIn(c)
  BY <1>2, SignedInKeeps
<1>3. CASE Loaded(c)
  BY <1>3, ViewHearsKeeps DEF Loaded, Mine
<1>4. CASE SettingsSaved(c)
  BY <1>4, ViewHearsKeeps DEF SettingsSaved, Mine
<1>5. CASE DetailLoaded(c)
  <2>1. tab = "executions"
    BY <1>1, <1>5, KindsAre DEF DetailLoaded, Mine, Heard, Sound, Views
  <2> QED
    BY <1>5, <2>1, ViewHearsKeeps DEF DetailLoaded, Mine
<1>6. CASE Tested(c)
  <2>1. tab = "credentials"
    BY <1>1, <1>6, KindsAre DEF Tested, Mine, Heard, Sound, Views
  <2>2. ~Quiet'
    BY <1>6, <2>1 DEF Tested, Quiet
  <2> QED
    BY <1>6, <2>1, <2>2, ViewHearsKeeps DEF Tested, Mine
<1>7. CASE Changed(c)
  <2>1. tab \in Views /\ c.tab = tab /\ c.tenant \in Tenants /\ IsFor(c.tenant)
    BY <1>1, <1>7 DEF Changed, Mine, Heard, CallOf
  <2>2. "load" \in Kinds(tab)
    BY <2>1, KindsAre DEF Views
  <2>3. /\ Sends(calls \ {c}, 1, "load", "view", tab, c.tenant) /\ msg' = "busy"
        /\ UNCHANGED <<session, shown, detail, relogged, version, builder>>
    BY <1>7, <2>1 DEF Changed
  <2>4. calls \ {c} \in SUBSET calls /\ clicks' \in 0 .. MaxClicks
    BY DEF IInv, TypeOK
  <2> QED
    BY <2>1, <2>2, <2>3, <2>4, AsksKeeps
<1>8. CASE ViewFails(c)
  <2>1. ~Quiet'
    BY <1>8 DEF ViewFails, Quiet
  <2> QED
    BY <1>8, <2>1, ViewHearsKeeps DEF ViewFails
<1>9. CASE WorkflowSaved(c)
  <2>1. /\ calls' = calls \ {c} /\ UNCHANGED <<sent, version, builder>>
        /\ NetInv(calls', sent', version') /\ calls' \subseteq CallOf(sent')
    BY <1>9, ArrivesFacts DEF WorkflowSaved
  <2>2. status' = "settled" /\ UNCHANGED <<token, authed, form, adrift, tab, view>>
    BY <1>9 DEF WorkflowSaved
  <2>3. TypeOK'
    BY <2>1, <2>2, BuilderSame DEF IInv, TypeOK, CallOf, view
  <2>4. SessionInv' /\ \A d \in calls' : Heard(d)'
    BY <2>1, <2>2 DEF IInv, SessionInv, SignedInWithToken, IsFor, Heard, view
  <2>5. QuietInv'
    BY <2>1, <2>2 DEF IInv, QuietInv, Quiet, view
  <2> QED
    BY <2>1, <2>3, <2>4, <2>5, BuilderSame DEF IInv
<1> QED
  BY <1>2, <1>3, <1>4, <1>5, <1>6, <1>7, <1>8, <1>9 DEF Continuation

(* Every step keeps the invariant.                                         *)
LEMMA NextIInv == IInv /\ [Next]_vars => IInv'
<1> SUFFICES ASSUME IInv, [Next]_vars PROVE IInv'
  OBVIOUS
<1>1. CASE User
  <2>1. clicks' \in 0 .. MaxClicks
    BY <1>1, ConstantsAssumption DEF User, IInv, TypeOK
  <2>2. CASE SignIn \/ SaveWorkflow
    BY <2>1, <2>2, AppCallsKeep
  <2>3. CASE Logout \/ OpenBuilder \/ Reload
    BY <2>1, <2>3, LeavingKeeps
  <2>4. ASSUME NEW v \in Views, OpenView(v) PROVE IInv'
    BY <2>1, <2>4, OpenKeeps
  <2>5. ASSUME NEW kind \in {"load", "change", "test", "detail", "settings"}, Press(kind) PROVE IInv'
    BY <2>1, <2>5, PressKeeps
  <2>6. CASE \/ \E n \in Nodes : AddNode(n)
             \/ \E m, n \in Nodes \cup {Trigger} : Connect(m, n)
             \/ \E n \in Nodes \cup {Trigger} : NodeClick(n) \/ DeleteNode(n)
             \/ ClosePanel \/ UpdateSelected
    BY <2>1, <2>6, BuilderKeeps
  <2> QED
    BY <1>1, <2>2, <2>3, <2>4, <2>5, <2>6 DEF User
<1>2. ASSUME NEW t \in Tenants, TypeTenant(t) PROVE IInv'
  BY <1>2, TypingKeeps
<1>3. ASSUME NEW c \in calls, Continuation(c), UNCHANGED clicks PROVE IInv'
  BY <1>3, ContinuationKeeps
<1>4. ASSUME NEW c \in calls, NEW ok \in BOOLEAN, NEW done \in BOOLEAN, Handle(c, ok, done), UNCHANGED clicks
      PROVE  IInv'
  BY <1>4, HandleKeeps
<1>5. CASE UNCHANGED vars
  <2>1. UNCHANGED <<session, view, net, builder, clicks>>
    BY <1>5 DEF vars, session, view, net, builder
  <2>2. clicks' \in 0 .. MaxClicks
    BY <2>1 DEF IInv, TypeOK
  <2> QED
    BY <2>1, <2>2, BuilderSame, BuildingKeeps
<1> QED
  BY <1>1, <1>2, <1>3, <1>4, <1>5 DEF Next, Goes

-----------------------------------------------------------------------------
(***************************************************************************)
(* The login form and the session.                                         *)
(***************************************************************************)
(* A page that is not adrift has in its form the tenant of every sign-in   *)
(* that is under way, and of the session once there is one.                *)
FormInv ==
  /\ FormOfSession
  /\ \A c \in calls : c.kind = "login" /\ c.by = "app" /\ ~adrift => c.tenant = form

(* No call becomes a sign-in by being joined by others.                    *)
LEMMA SendsLogins ==
  ASSUME NEW cs, cs \subseteq CallOf(sent), NEW n, NEW kind, NEW by, NEW v, NEW t,
         Sends(cs, n, kind, by, v, t)
  PROVE  \A d \in calls' : \/ d.kind = kind /\ d.tenant = t
                           \/ \E c \in cs : d.kind = c.kind /\ d.by = c.by /\ d.tenant = c.tenant
<1> DEFINE Joined(c) == [c EXCEPT !.alone = c.alone /\ ~About(c, v, t)]
           others == \E c \in cs : About(c, v, t)
           new == [id : sent + 1 .. sent + n, kind : {kind}, by : {by}, tab : {v}, tenant : {t},
                   reply : {"none"}, version : {0}, alone : {n = 1 /\ ~others}]
<1>1. calls' = {Joined(c) : c \in cs} \cup new
  BY DEF Sends
<1>2. \A c \in cs : Joined(c).kind = c.kind /\ Joined(c).by = c.by /\ Joined(c).tenant = c.tenant
  BY DEF CallOf
<1> HIDE DEF Joined
<1>3. \A d \in new : d.kind = kind /\ d.tenant = t
  <2> HIDE DEF others
  <2> QED
    OBVIOUS
<1> HIDE DEF new
<1> QED
  BY <1>1, <1>2, <1>3

(* Nor by being given up.                                                  *)
LEMMA WithoutLogins ==
  ASSUME IInv, NEW gone \in SUBSET calls
  PROVE  \A d \in Without(calls, gone) : d \in calls \/ d.by = "gone"
<1>1. NetInv(calls, sent, version) /\ sent \in Nat
  BY DEF IInv, TypeOK
<1> QED
  BY <1>1, WithoutNet

(* Nothing but a change of the form, the token or the calls matters.       *)
LEMMA FormSame ==
  ASSUME IInv, FormInv, UNCHANGED <<token, authed, form, adrift>>,
         \A d \in calls' :
           d.kind = "login" /\ d.by = "app" =>
             \E c \in calls : c.kind = "login" /\ c.by = "app" /\ c.tenant = d.tenant
  PROVE  FormInv'
  BY DEF FormInv, FormOfSession

(* The user signs in, saves, mounts a view, or presses a button.           *)
LEMMA SendingForm ==
  ASSUME IInv, FormInv,
         \/ SignIn \/ SaveWorkflow \/ \E v \in Views : OpenView(v)
         \/ \E kind \in {"load", "change", "test", "detail", "settings"} : Press(kind)
  PROVE  FormInv'
<1>1. calls \subseteq CallOf(sent)
  BY DEF IInv, NetInv
<1>2. CASE SignIn
  <2>1. /\ Sends(calls, 1, "login", "app", "builder", form)
        /\ UNCHANGED <<token, authed, form, adrift>>
    BY <1>2 DEF SignIn
  <2>2. \A d \in calls' : \/ d.kind = "login" /\ d.tenant = form
                          \/ \E c \in calls : d.kind = c.kind /\ d.by = c.by /\ d.tenant = c.tenant
    BY <1>1, <2>1, SendsLogins
  <2> QED
    BY <2>1, <2>2 DEF FormInv, FormOfSession
<1>3. CASE SaveWorkflow
  <2>1. /\ Sends(calls, 1, "save", "app", "builder", token)
        /\ UNCHANGED <<token, authed, form, adrift>>
    BY <1>3 DEF SaveWorkflow
  <2>2. \A d \in calls' : \/ d.kind = "save" /\ d.tenant = token
                          \/ \E c \in calls : d.kind = c.kind /\ d.by = c.by /\ d.tenant = c.tenant
    BY <1>1, <2>1, SendsLogins
  <2> QED
    BY <2>1, <2>2, FormSame
<1>4. ASSUME NEW v \in Views, OpenView(v) PROVE FormInv'
  <2>1. /\ Sends(Unmounts(calls), EffectRuns, "load", "view", v, TenantFor(v))
        /\ UNCHANGED <<token, authed, form, adrift>>
    BY <1>4 DEF OpenView
  <2>2. Unmounts(calls) \subseteq CallOf(sent)
    BY Unmounted DEF NetInv
  <2>3. \A d \in calls' : \/ d.kind = "load" /\ d.tenant = TenantFor(v)
                          \/ \E c \in Unmounts(calls) :
                               d.kind = c.kind /\ d.by = c.by /\ d.tenant = c.tenant
    BY <2>1, <2>2, SendsLogins
  <2>4. \A d \in Unmounts(calls) : d \in calls \/ d.by = "gone"
    BY WithoutLogins DEF Unmounts
  <2> QED
    BY <2>1, <2>3, <2>4, FormSame
<1>5. ASSUME NEW kind \in {"load", "change", "test", "detail", "settings"}, Press(kind) PROVE FormInv'
  <2>1. /\ Sends(calls, 1, kind, "view", tab, TenantFor(tab))
        /\ UNCHANGED <<token, authed, form, adrift>>
    BY <1>5 DEF Press, session
  <2>2. \A d \in calls' : \/ d.kind = kind /\ d.tenant = TenantFor(tab)
                          \/ \E c \in calls : d.kind = c.kind /\ d.by = c.by /\ d.tenant = c.tenant
    BY <1>1, <2>1, SendsLogins
  <2> QED
    BY <2>1, <2>2, FormSame
<1> QED
  BY <1>2, <1>3, <1>4, <1>5

(* The user leaves, edits the form, or works in the builder.               *)
LEMMA LocalForm ==
  ASSUME IInv, FormInv,
         \/ Logout \/ Reload \/ OpenBuilder
         \/ \E t \in Tenants : TypeTenant(t)
         \/ UNCHANGED <<session, view, net>>
  PROVE  FormInv'
<1>1. adrift \in BOOLEAN
  BY DEF IInv, TypeOK
<1>2. CASE Logout
  <2>1. /\ authed' = FALSE /\ form' = form /\ calls' = Unmounts(calls)
        /\ adrift' = (adrift /\ SigningIn)
    BY <1>2 DEF Logout
  <2>2. \A d \in calls' : d \in calls \/ d.by = "gone"
    BY <2>1, WithoutLogins DEF Unmounts
  <2> QED
    BY <1>1, <2>1, <2>2 DEF FormInv, FormOfSession, SigningIn
<1>3. CASE Reload
  <2>1. authed' = (token # None) /\ adrift' = (token # None) /\ calls' = Without(calls, calls)
    BY <1>3 DEF Reload
  <2>2. NetInv(calls, sent, version) /\ sent \in Nat /\ calls \in SUBSET calls
    BY DEF IInv, TypeOK
  <2>3. \A d \in calls' : d.by = "gone"
    BY <2>1, <2>2, WithoutNet
  <2> QED
    BY <2>1, <2>3 DEF FormInv, FormOfSession
<1>4. CASE OpenBuilder
  <2>1. calls' = Unmounts(calls) /\ UNCHANGED <<token, authed, form, adrift>>
    BY <1>4 DEF OpenBuilder
  <2>2. \A d \in calls' : d \in calls \/ d.by = "gone"
    BY <2>1, WithoutLogins DEF Unmounts
  <2> QED
    BY <2>1, <2>2, FormSame
<1>5. ASSUME NEW t \in Tenants, TypeTenant(t) PROVE FormInv'
  <2>1. ~authed' /\ calls' = calls /\ adrift' = (adrift \/ SigningIn)
    BY <1>5 DEF TypeTenant, net
  <2> QED
    BY <1>1, <2>1 DEF FormInv, FormOfSession, SigningIn
<1>6. CASE UNCHANGED <<session, view, net>>
  BY <1>6 DEF FormInv, FormOfSession, session, net
<1> QED
  BY <1>2, <1>3, <1>4, <1>5, <1>6

(* An answer: only one to a sign-in says who is signed in.                 *)
LEMMA AnswerForm ==
  ASSUME IInv, FormInv, NEW c \in calls, Continuation(c)
  PROVE  FormInv'
<1>1. CASE SignedIn(c)
  <2>1. /\ calls' = calls \ {c} /\ UNCHANGED <<form, adrift>>
        /\ \/ token' = c.tenant
           \/ UNCHANGED <<token, authed>>
        /\ c.kind = "login" /\ c.by = "app"
    BY <1>1 DEF SignedIn, Arrives
  <2> QED
    BY <2>1 DEF FormInv, FormOfSession
<1>2. CASE Changed(c)
  <2>1. /\ Sends(calls \ {c}, 1, "load", "view", c.tab, c.tenant)
        /\ UNCHANGED <<token, authed, form, adrift>>
    BY <1>2 DEF Changed, session
  <2>2. calls \ {c} \subseteq CallOf(sent)
    BY DEF IInv, NetInv
  <2>3. \A d \in calls' : \/ d.kind = "load" /\ d.tenant = c.tenant
                          \/ \E e \in calls \ {c} :
                               d.kind = e.kind /\ d.by = e.by /\ d.tenant = e.tenant
    BY <2>1, <2>2, SendsLogins
  <2> QED
    BY <2>1, <2>3, FormSame
<1>3. CASE ~SignedIn(c) /\ ~Changed(c)
  <2>1. calls' = calls \ {c} /\ UNCHANGED <<token, authed, form, adrift>>
    BY <1>3 DEF Continuation, Loaded, SettingsSaved, DetailLoaded, Tested, ViewFails,
       WorkflowSaved, Arrives, session
  <2> QED
    BY <2>1, FormSame
<1> QED
  BY <1>1, <1>2, <1>3

(* Every step keeps the form and the session together.                     *)
LEMMA NextFormInv == IInv /\ FormInv /\ [Next]_vars => FormInv'
<1> SUFFICES ASSUME IInv, FormInv, [Next]_vars PROVE FormInv'
  OBVIOUS
<1>1. CASE User
  <2>1. CASE \/ \E n \in Nodes : AddNode(n)
             \/ \E m, n \in Nodes \cup {Trigger} : Connect(m, n)
             \/ \E n \in Nodes \cup {Trigger} : NodeClick(n) \/ DeleteNode(n)
             \/ ClosePanel \/ UpdateSelected
    <3>1. UNCHANGED <<session, view, net>>
      BY <2>1 DEF AddNode, Connect, NodeClick, DeleteNode, ClosePanel, UpdateSelected, Building
    <3> QED
      BY <3>1, LocalForm
  <2>2. CASE Logout \/ Reload \/ OpenBuilder
    BY <2>2, LocalForm
  <2>3. CASE \/ SignIn \/ SaveWorkflow \/ \E v \in Views : OpenView(v)
             \/ \E kind \in {"load", "change", "test", "detail", "settings"} : Press(kind)
    BY <2>3, SendingForm
  <2> QED
    BY <1>1, <2>1, <2>2, <2>3 DEF User
<1>2. CASE \E t \in Tenants : TypeTenant(t)
  BY <1>2, LocalForm
<1>3. ASSUME NEW c \in calls, Continuation(c) PROVE FormInv'
  BY <1>3, AnswerForm
<1>4. ASSUME NEW c \in calls, NEW ok \in BOOLEAN, NEW done \in BOOLEAN, Handle(c, ok, done)
      PROVE  FormInv'
  <2>1. \A d \in calls' : \E e \in calls :
           d.kind = e.kind /\ d.by = e.by /\ d.tab = e.tab /\ d.tenant = e.tenant
    BY <1>4, HandleNet
  <2>2. UNCHANGED <<token, authed, form, adrift>>
    BY <1>4 DEF Handle, session
  <2> QED
    BY <2>1, <2>2, FormSame
<1>5. CASE UNCHANGED vars
  <2>1. UNCHANGED <<session, view, net>>
    BY <1>5 DEF vars, session, view, net
  <2> QED
    BY <2>1, LocalForm
<1> QED
  BY <1>1, <1>2, <1>3, <1>4, <1>5 DEF Next, Goes

-----------------------------------------------------------------------------
(***************************************************************************)
(* What follows.                                                           *)
(***************************************************************************)
(* Calls, session, views and builder are as described above, in whatever   *)
(* order answers arrive and whatever the user does in between.             *)
THEOREM Invariance == Spec => []IInv
<1>1. Init => IInv
  BY InitIInv
<1>2. IInv /\ [Next]_vars => IInv'
  BY NextIInv
<1> QED
  BY <1>1, <1>2, PTL DEF Spec

(* The page's state and its calls have the types.                          *)
THEOREM TypeCorrect == Spec => []TypeOK
<1>1. IInv => TypeOK
  BY DEF IInv
<1> QED
  BY <1>1, Invariance, PTL

(* A page loaded without a token there, whose form is left alone while     *)
(* sign-ins are under way, is signed in as the tenant of the form.         *)
THEOREM FormAgrees == Spec => []FormInv
<1>1. Init => FormInv
  BY DEF Init, FormInv, FormOfSession
<1>2. IInv /\ FormInv /\ [Next]_vars => FormInv'
  BY NextFormInv
<1> QED
  BY <1>1, <1>2, Invariance, PTL DEF Spec

(* The page is signed in as long as there is a token; each view shows the  *)
(* data of the tenant its next call is about, and no answer to an earlier  *)
(* session's or view's call; and that tenant is the one signed in but for  *)
(* a page that is adrift, or a sign-in answered under the mounted view.    *)
THEOREM ViewsAgree == Spec => []ViewsKeepTheirTenant
<1>1. IInv /\ FormInv => ViewsKeepTheirTenant
  <2> SUFFICES ASSUME IInv, FormInv PROVE ViewsKeepTheirTenant
    OBVIOUS
  <2>1. SignedInWithToken
    BY DEF IInv, SessionInv
  <2>2. CredentialsOfForm
    BY DEF IInv, SessionInv, IsFor, CredentialsOfForm
  <2>3. DataOfSession
    BY DEF IInv, SessionInv, IsFor, DataOfSession
  <2>4. FormOfSession
    BY DEF FormInv
  <2> QED
    BY <2>1, <2>2, <2>3, <2>4 DEF ViewsKeepTheirTenant
<1> QED
  BY <1>1, Invariance, FormAgrees, PTL

(* A view that says it is done shows what the server has, unless calls     *)
(* about its data overlapped.                                              *)
THEOREM DoneIsCurrent == Spec => []QuietIsCurrent
<1>1. IInv => QuietIsCurrent
  <2> SUFFICES ASSUME IInv, Quiet, tab \in Views, shown # None, shown.alone
               PROVE  shown.version = version[tab][shown.tenant]
    BY DEF QuietIsCurrent, Quiet
  <2>1. CASE tab = "executions"
    BY <2>1 DEF IInv, QuietInv, TypeOK
  <2>2. CASE tab \in {"credentials", "administration"}
    BY <2>2 DEF IInv, QuietInv
  <2> QED
    BY <2>1, <2>2 DEF Views
<1> QED
  BY <1>1, Invariance, PTL

(* The panel shows what its node has, and edges tie nodes that are there.  *)
THEOREM BuilderAgrees == Spec => []BuilderConsistent
<1>1. IInv => BuilderConsistent
  BY DEF IInv, BuilderInv
<1> QED
  BY <1>1, Invariance, PTL
=============================================================================
