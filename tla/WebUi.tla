------------------------------- MODULE WebUi -------------------------------
(***************************************************************************)
(* The web UI in one page of a browser: the session of App.tsx and api.ts, *)
(* the three views that load their data when they are mounted, and the     *)
(* workflow builder.                                                       *)
(*                                                                         *)
(* Every call is asynchronous: a handler runs up to its await, the gateway *)
(* handles the call, and the continuation runs when the answer arrives, in *)
(* any order and whatever the user has done since.  No call is cancelled.  *)
(* A view that is unmounted drops what arrives for it.  The token is read  *)
(* from localStorage when a call is sent.                                  *)
(*                                                                         *)
(* What a view shows is abstracted to the tenant whose data it is and the  *)
(* version of that data: every change to it makes a new version.           *)
(***************************************************************************)
EXTENDS Naturals, FiniteSets

CONSTANTS
  Tenants,
  Default,     \* the tenant in the login form of a fresh page
  None,
  Trigger,     \* the node the builder starts with
  Nodes,       \* the ids of those that may be added
  EffectRuns,  \* times a mounting effect runs: 2 with the development server
  MaxClicks    \* bound: what the user does

Views == {"credentials", "executions", "administration"}

ASSUME ConstantsAssumption ==
  /\ Default \in Tenants /\ None \notin Tenants \cup Nodes \cup {Trigger}
  /\ Trigger \notin Nodes /\ EffectRuns \in {1, 2}
  /\ MaxClicks \in Nat

VARIABLES
  token,      \* the tenant of the token in localStorage, or None
  authed, form, tab, status,   \* App: isAuthenticated, loginForm.tenantId, ...
  shown,      \* the data of the mounted view: tenant, version, alone; or None
  detail,     \* the tenant of the execution in the details panel
  msg,        \* the message of the mounted view
  relogged,   \* history: a sign-in was answered under the mounted view
  adrift,     \* history: the page was loaded with a token there already, or the
              \* form was edited while a sign-in was under way
  calls,      \* calls whose answer has not arrived
  sent,       \* how many have been sent
  version,    \* of each tenant's data of each view, at the server
  nodes, edges, selected,      \* the builder: data of each node, edges, panel
  used,       \* ids given to nodes so far
  clicks

session == <<token, authed, form, tab, status, adrift>>
view == <<shown, detail, msg, relogged>>
net == <<calls, sent, version>>
builder == <<nodes, edges, selected, used>>
vars == <<session, view, net, builder, clicks>>

-----------------------------------------------------------------------------
(***************************************************************************)
(* Calls.  by: whose state the continuation sets.  alone: no other call    *)
(* about the same data was under way at any time since this one was sent.  *)
(***************************************************************************)
Writes == {"change", "settings"}

About(c, v, t) == c.kind \notin {"login", "save"} /\ c.tab = v /\ c.tenant = t

(* n calls of a kind join those of cs. *)
Sends(cs, n, kind, by, v, t) ==
  LET others == \E c \in cs : About(c, v, t)
      new == [id : sent + 1 .. sent + n, kind : {kind}, by : {by}, tab : {v}, tenant : {t},
              reply : {"none"}, version : {0}, alone : {n = 1 /\ ~others}]
  IN  /\ sent' = sent + n
      /\ calls' = {[c EXCEPT !.alone = @ /\ ~About(c, v, t)] : c \in cs} \cup new

(* Those nobody listens to: the view that sent them, or the page, is gone. *)
Abandoned(cs) == {c \in cs : c.by = "gone"}

(* The gateway or the vault answers; an error may hide that a change was   *)
(* made, by a lost reply for instance.                                     *)
Handle(c, ok, done) ==
  /\ c.reply = "none" /\ (ok => done)
  /\ version' = IF done /\ c.kind \in Writes THEN [version EXCEPT ![c.tab][c.tenant] = @ + 1]
                                             ELSE version
  /\ calls' = (calls \ {c}) \cup
       {[d EXCEPT !.reply = IF ok THEN "ok" ELSE "error",
                  !.version = IF ok /\ d.tab \in Views THEN version'[d.tab][d.tenant] ELSE 0]
          : d \in {c} \ Abandoned(calls)}
  /\ UNCHANGED <<session, view, sent, builder>>

(* The answer arrives, and its continuation has nothing to do with others. *)
Arrives(c) ==
  /\ c.reply # "none"
  /\ calls' = calls \ {c}
  /\ UNCHANGED <<sent, version, builder>>

-----------------------------------------------------------------------------
(***************************************************************************)
(* Signing in and out.                                                     *)
(***************************************************************************)
Init ==
  /\ token \in Tenants \cup {None}
  /\ authed = (token # None) /\ form = Default /\ tab = "builder" /\ status = "settled"
  /\ shown = None /\ detail = None /\ msg = "empty" /\ relogged = FALSE
  /\ adrift = (token # None)
  /\ calls = {} /\ sent = 0
  /\ version = [v \in Views |-> [t \in Tenants |-> 0]]
  /\ nodes = [n \in {Trigger} |-> 0] /\ edges = {} /\ selected = None /\ used = {Trigger}
  /\ clicks = 0

SigningIn == \E c \in calls : c.kind = "login" /\ c.by = "app"

(* The login form is there, and can be edited, until the answer arrives.   *)
TypeTenant(t) ==
  /\ ~authed /\ form' = t /\ adrift' = (adrift \/ SigningIn)
  /\ UNCHANGED <<token, authed, tab, status, view, net, builder, clicks>>

SignIn ==
  /\ ~authed
  /\ Sends(calls, 1, "login", "app", "builder", form)
  /\ status' = "busy"
  /\ UNCHANGED <<token, authed, form, adrift, tab, view, version, builder>>

(* A call is given up: it only matters until it has been handled. *)
Without(cs, gone) ==
  (cs \ gone) \cup {[c EXCEPT !.by = "gone"] : c \in {d \in gone : d.reply = "none"}}

UnmountsNothing(cs) == cs   \* mutant: answers come to the view there is by then

Unmounts(cs) == Without(cs, {c \in cs : c.by = "view"})

NoView == shown' = None /\ detail' = None /\ relogged' = FALSE

(* setToken, and then the rest of handleLogin, whatever the page is by now.*)
SignedIn(c) ==
  /\ c.kind = "login" /\ c.by = "app" /\ Arrives(c)
  /\ \/ /\ c.reply = "ok"
        /\ token' = c.tenant /\ authed' = TRUE /\ status' = "settled"
        /\ relogged' = (tab \in Views)
     \/ /\ c.reply = "error" /\ status' = "settled"
        /\ UNCHANGED <<token, authed, relogged>>
  /\ UNCHANGED <<form, adrift, tab, shown, detail, msg>>

Logout ==
  /\ authed
  /\ token' = None /\ authed' = FALSE /\ tab' = "builder" /\ status' = "settled"
  /\ selected' = None /\ adrift' = (adrift /\ SigningIn)
  /\ calls' = Unmounts(calls) /\ NoView /\ msg' = "empty"
  /\ UNCHANGED <<form, sent, version, nodes, edges, used>>

(* The page is loaded anew: nothing is left of it but localStorage.        *)
Reload ==
  /\ authed' = (token # None) /\ adrift' = (token # None) /\ form' = Default
  /\ tab' = "builder" /\ status' = "settled"
  /\ calls' = Without(calls, calls) /\ NoView /\ msg' = "empty"
  /\ nodes' = [n \in {Trigger} |-> 0] /\ edges' = {} /\ selected' = None
  /\ UNCHANGED <<token, sent, version, used>>

-----------------------------------------------------------------------------
(***************************************************************************)
(* The views.                                                              *)
(***************************************************************************)

TenantFor(v) == IF v = "credentials" THEN form ELSE token

(* The old view goes, the new one is mounted and loads its data.           *)
OpenView(v) ==
  /\ authed /\ v # tab
  /\ Sends(Unmounts(calls), EffectRuns, "load", "view", v, TenantFor(v))
  /\ tab' = v /\ NoView /\ msg' = "busy"
  /\ UNCHANGED <<token, authed, form, adrift, status, version, builder>>

OpenBuilder ==
  /\ authed /\ tab \in Views
  /\ tab' = "builder" /\ calls' = Unmounts(calls) /\ NoView /\ msg' = "empty"
  /\ UNCHANGED <<token, authed, form, adrift, status, sent, version, builder>>

Kinds(v) ==
  CASE v = "credentials" -> {"load", "change", "test"}
    [] v = "executions" -> {"load", "detail"}
    [] v = "administration" -> {"load", "settings"}
    [] v = "builder" -> {}

(* A button of the view.  Vault calls are for the tenant of the form,      *)
(* which App passes down, the others for that of the token.                *)
Press(kind) ==
  /\ authed /\ kind \in Kinds(tab)
  /\ Sends(calls, 1, kind, "view", tab, TenantFor(tab))
  /\ msg' = "busy"
  /\ UNCHANGED <<session, shown, detail, relogged, version, builder>>

Mine(c, kind) == c.kind = kind /\ c.by = "view" /\ c.reply = "ok"

Data(c) == [tenant |-> c.tenant, version |-> c.version, alone |-> c.alone]

Loaded(c) ==
  /\ Mine(c, "load") /\ Arrives(c)
  /\ shown' = Data(c) /\ msg' = "quiet"
  /\ UNCHANGED <<session, detail, relogged>>

(* PATCH answers with the settings it stored. *)
SettingsSaved(c) ==
  /\ Mine(c, "settings") /\ Arrives(c)
  /\ shown' = Data(c) /\ msg' = "done"
  /\ UNCHANGED <<session, detail, relogged>>

DetailLoaded(c) ==
  /\ Mine(c, "detail") /\ Arrives(c)
  /\ detail' = c.tenant /\ msg' = "quiet"
  /\ UNCHANGED <<session, shown, relogged>>

Tested(c) ==
  /\ Mine(c, "test") /\ Arrives(c)
  /\ msg' = "done"
  /\ UNCHANGED <<session, shown, detail, relogged>>

ChangedWithoutReload(c) ==   \* mutant: the list is not loaded again
  /\ Mine(c, "change") /\ Arrives(c)
  /\ msg' = "quiet"
  /\ UNCHANGED <<session, shown, detail, relogged>>

(* Stored, deleted or rotated: the list is loaded again at once, and the   *)
(* message of success gives way to that of the load.                       *)
Changed(c) ==
  /\ Mine(c, "change")
  /\ Sends(calls \ {c}, 1, "load", "view", c.tab, c.tenant)
  /\ msg' = "busy"
  /\ UNCHANGED <<session, shown, detail, relogged, version, builder>>

ViewFailsRetries(c) ==   \* mutant: a load that failed is tried again, for ever
  /\ c.by = "view" /\ c.reply = "error"
  /\ \/ /\ c.kind = "load"
        /\ calls' = (calls \ {c}) \cup {[c EXCEPT !.reply = "none"]}
        /\ UNCHANGED <<view, sent, version, builder>>
     \/ c.kind # "load" /\ Arrives(c) /\ msg' = "error" /\ UNCHANGED <<shown, detail, relogged>>
  /\ UNCHANGED session

ViewFails(c) ==
  /\ c.by = "view" /\ c.reply = "error" /\ Arrives(c)
  /\ msg' = "error"
  /\ UNCHANGED <<session, shown, detail, relogged>>

-----------------------------------------------------------------------------
(***************************************************************************)
(* The builder.  The panel works on a copy of the node it shows.           *)
(***************************************************************************)
Building == authed /\ tab = "builder" /\ UNCHANGED <<session, view, net>>

AddNode(n) ==
  /\ Building /\ n \in Nodes \ used
  /\ nodes' = [x \in DOMAIN nodes \cup {n} |-> IF x = n THEN 0 ELSE nodes[x]]
  /\ used' = used \cup {n}
  /\ UNCHANGED <<edges, selected>>

Connect(m, n) ==
  /\ Building /\ {m, n} \subseteq DOMAIN nodes
  /\ edges' = edges \cup {<<m, n>>}
  /\ UNCHANGED <<nodes, selected, used>>

NodeClick(n) ==
  /\ Building /\ n \in DOMAIN nodes
  /\ selected' = [id |-> n, data |-> nodes[n]]
  /\ UNCHANGED <<nodes, edges, used>>

ClosePanel ==
  /\ Building /\ selected # None
  /\ selected' = None
  /\ UNCHANGED <<nodes, edges, used>>

UpdateSelectedNodeOnly ==   \* mutant: the panel's copy is not renewed
  /\ Building /\ selected # None
  /\ nodes' = [x \in DOMAIN nodes |-> IF x = selected.id THEN nodes[x] + 1 ELSE nodes[x]]
  /\ UNCHANGED <<edges, selected, used>>

(* A field of the panel: the node, if it is still there, and the copy.     *)
UpdateSelected ==
  /\ Building /\ selected # None
  /\ nodes' = [x \in DOMAIN nodes |-> IF x = selected.id THEN nodes[x] + 1 ELSE nodes[x]]
  /\ selected' = [selected EXCEPT !.data = @ + 1]
  /\ UNCHANGED <<edges, used>>

(* The delete key: React Flow removes the node and what is tied to it; the *)
(* panel is not told.                                                      *)
DeleteNode(n) ==
  /\ Building /\ n \in DOMAIN nodes
  /\ nodes' = [x \in DOMAIN nodes \ {n} |-> nodes[x]]
  /\ edges' = {e \in edges : n \notin {e[1], e[2]}}
  /\ UNCHANGED <<selected, used>>

SaveWorkflow ==
  /\ authed /\ tab = "builder"
  /\ Sends(calls, 1, "save", "app", "builder", token)
  /\ status' = "busy"
  /\ UNCHANGED <<token, authed, form, adrift, tab, view, version, builder>>

WorkflowSaved(c) ==
  /\ c.kind = "save" /\ c.by = "app" /\ Arrives(c)
  /\ status' = "settled"
  /\ UNCHANGED <<token, authed, form, adrift, tab, view>>

-----------------------------------------------------------------------------
User ==
  /\ clicks < MaxClicks /\ clicks' = clicks + 1
  /\ \/ SignIn \/ Logout \/ Reload \/ OpenBuilder \/ SaveWorkflow
     \/ \E v \in Views : OpenView(v)
     \/ \E kind \in {"load", "change", "test", "detail", "settings"} : Press(kind)
     \/ \E n \in Nodes : AddNode(n)
     \/ \E m, n \in Nodes \cup {Trigger} : Connect(m, n)
     \/ \E n \in Nodes \cup {Trigger} : NodeClick(n) \/ DeleteNode(n)
     \/ ClosePanel \/ UpdateSelected

Continuation(c) ==
  \/ SignedIn(c) \/ Loaded(c) \/ SettingsSaved(c) \/ DetailLoaded(c) \/ Tested(c)
  \/ Changed(c) \/ ViewFails(c) \/ WorkflowSaved(c)

Goes(c) == Continuation(c) \/ \E ok, done \in BOOLEAN : Handle(c, ok, done)

Next ==
  \/ User
  \/ \E t \in Tenants : TypeTenant(t)
  \/ ((\E c \in calls : Goes(c)) /\ UNCHANGED clicks)

Spec == Init /\ [][Next]_vars

(* Fairness.  Every call that was sent is answered, by the gateway or by   *)
(* the browser giving up on it; the user need not do anything.             *)
FairSpec ==
  Spec /\ \A i \in 1 .. 2 * MaxClicks :
            WF_vars(\E c \in calls : c.id = i /\ Goes(c) /\ UNCHANGED clicks)

-----------------------------------------------------------------------------
(* Types. *)
TypeOK ==
  /\ token \in Tenants \cup {None} /\ authed \in BOOLEAN /\ form \in Tenants
  /\ tab \in Views \cup {"builder"}
  /\ status \in {"busy", "settled"} /\ msg \in {"empty", "busy", "quiet", "done", "error"}
  /\ shown = None \/ shown \in [tenant : Tenants, version : Nat, alone : BOOLEAN]
  /\ detail \in Tenants \cup {None} /\ relogged \in BOOLEAN /\ adrift \in BOOLEAN
  /\ calls \subseteq
       [id : 1 .. sent, kind : Kinds("credentials") \cup Writes \cup {"detail", "login", "save"},
        by : {"app", "view", "gone"}, tab : Views \cup {"builder"}, tenant : Tenants,
        reply : {"none", "ok", "error"}, version : Nat, alone : BOOLEAN]
  /\ sent \in Nat /\ clicks \in 0 .. MaxClicks /\ version \in [Views -> [Tenants -> Nat]]
  /\ used \in SUBSET (Nodes \cup {Trigger}) /\ nodes \in [DOMAIN nodes -> Nat]
  /\ DOMAIN nodes \subseteq used /\ edges \subseteq used \X used
  /\ selected = None \/ selected \in [id : used, data : Nat]

(* The page and localStorage agree on whether anybody is signed in,        *)
(* through late answers to sign-ins, sign-outs and reloads.                *)
SignedInWithToken == authed <=> token # None

(* The credentials shown are those of the tenant in the login form, which  *)
(* is the one the vault's next call is about, whatever was typed and       *)
(* whoever signed in since they were asked for.  That need not be the      *)
(* tenant that is signed in.                                               *)
CredentialsOfForm == tab = "credentials" /\ shown # None => shown.tenant = form

(* It is, unless the page was loaded with a token there already, which     *)
(* leaves the form at its default, or the form was edited while a sign-in  *)
(* was under way.  In those cases the credentials of one tenant are shown, *)
(* and changed, under the session of another.                              *)
FormOfSession == authed /\ ~adrift => form = token

(* Executions, their details and the settings are those of the tenant that *)
(* is signed in, unless a sign-in asked for before was answered since the  *)
(* view was mounted: no answer to an earlier session's call shows up.      *)
DataOfSession ==
  tab \in Views \ {"credentials"} /\ ~relogged =>
    (shown # None => shown.tenant = token) /\ detail \in {None, token}

(* No view shows an answer meant for another: each shows the data of the   *)
(* tenant its next call is about, and that tenant is the one signed in but *)
(* for the exceptions named above, which the page does not rule out.       *)
ViewsKeepTheirTenant ==
  SignedInWithToken /\ CredentialsOfForm /\ FormOfSession /\ DataOfSession

(* A view that says it is done shows what the server has, unless calls     *)
(* about its data overlapped: a list is never left behind by one change    *)
(* and its own reload.                                                     *)
QuietIsCurrent ==
  /\ msg = "quiet" \/ (msg = "done" /\ tab = "administration")
  /\ tab \in Views /\ shown # None /\ shown.alone
  => shown.version = version[tab][shown.tenant]

(* The panel shows what the node has, as long as there is such a node.     *)
PanelInSync ==
  selected # None /\ selected.id \in DOMAIN nodes => nodes[selected.id] = selected.data

(* The definition a save would send ties nodes that it contains.           *)
EdgesResolve == \A e \in edges : {e[1], e[2]} \subseteq DOMAIN nodes

(* The builder's lists and its panel agree.                                *)
BuilderConsistent == PanelInSync /\ EdgesResolve

(* Progress messages go away.                                              *)
BusyEnds == (msg = "busy" ~> msg # "busy") /\ (status = "busy" ~> status # "busy")
=============================================================================
