----------------------------- MODULE LiveSession -----------------------------
(***************************************************************************)
(* One workshop as its trainers and learners drive it through the dashboard *)
(* (ops-server/dashboard/app.py, api_live_*; live_sessions.py): its states, *)
(* its roster, the tenant each learner is bound to, and the environments   *)
(* that provision-all, a learner's own app and reprovision build and that  *)
(* ending the workshop stops.                                              *)
(*                                                                         *)
(* A call reads what it needs and then writes, one command a step; several *)
(* calls are under way at once, and a restart of the dashboard ends them   *)
(* where they are.  A call that is refused, or finds nothing to do, changes *)
(* nothing and is left out.  Left out too: the room's flag, pad and chat,   *)
(* the audit trail, titles and times, seats, co-trainers, and how a job    *)
(* reaches a worker, which Provisioning models.                             *)
(***************************************************************************)
EXTENDS Integers, FiniteSets

CONSTANTS
  Learner, Tenant,
  Home,         \* the tenant the trainer calls from
  NoTenant,     \* no binding
  EnvId,        \* bound: environments, each built once
  Call,         \* calls under way at a time
  MaxCalls,     \* bound: calls
  MaxOutages    \* bound: restarts, and exports, stops or provisions that fail

ASSUME LiveSessionAssumption ==
  /\ Home \in Tenant /\ NoTenant \notin Tenant
  /\ MaxCalls \in Nat /\ MaxOutages \in Nat

VARIABLES
  state,        \* state of live:session:{id}; "gone" when there is no hash
  requested,    \* provisionRequestedAt is set
  expiring,     \* the keys have their seven days' TTL
  listed,       \* live:sessions:index has it
  roster, joined,
  tenantOf,     \* :tenants, the bindings
  provdone,     \* :provdone, who is settled
  env,          \* job:running records
  call, app,    \* the calls, and each learner's app
  wanted,       \* history: whom a provision-all has set out to serve
  leftover,     \* history: environments there were when the workshop ended
  calls, outages

hashVars    == <<state, requested, expiring, listed>>
peopleVars  == <<roster, joined, tenantOf, provdone>>
historyVars == <<wanted, leftover>>
boundVars   == <<calls, outages>>
liveVars == <<hashVars, peopleVars, env, call, app, historyVars, boundVars>>

Live == {"scheduled", "open", "running"}
Over == {"ended", "cancelled"}

(* What a call is for, where it stands, from which tenant it came, whom it  *)
(* has still to visit and may build for, and the binding it has read.       *)
NoCall == [op |-> "none", step |-> "idle", who |-> {}, where |-> Home,
           todo |-> {}, mine |-> {}, seen |-> NoTenant]
Closed == [step |-> "idle", where |-> Home]

Ops == {"none", "open", "start", "end", "cancel", "delete", "update", "join", "join-by-code",
        "bind", "rebind", "provision-all", "terminate",
        "reprovision"}
CallSteps == {"idle", "write", "export", "stop", "expire", "others", "roster", "attend",
              "lookup", "bind", "intent", "unsettle", "targets", "settle", "kill", "look",
              "rearm", "build"}

(* "none": not built; "active"; "asked" to terminate (SessionTeardown). *)
Unbuilt == [life |-> "none", who |-> {}, where |-> Home, tagged |-> FALSE]
Active == {e \in EnvId : env[e].life = "active"}

(* A workshop just booked, or one open whose learners may be bound already. *)
LiveInit ==
  /\ state \in {"scheduled", "open"} /\ requested = FALSE
  /\ expiring = FALSE /\ listed = TRUE /\ roster = Learner /\ joined = {}
  /\ tenantOf \in [Learner -> IF state = "open" THEN Tenant \cup {NoTenant} ELSE {NoTenant}]
  /\ provdone = {} /\ env = [e \in EnvId |-> Unbuilt]
  /\ call = [c \in Call |-> NoCall] /\ app = [l \in Learner |-> Closed]
  /\ wanted = {} /\ leftover = {} /\ calls = 0 /\ outages = 0

-----------------------------------------------------------------------------
(* live_sessions.py: the rules. *)

(* _TRANSITIONS: where an action leads, and from where. *)
Moves == [open  |-> [from |-> {"scheduled"}, to |-> "open"],
          start |-> [from |-> {"scheduled", "open"}, to |-> "running"],
          end   |-> [from |-> {"open", "running"}, to |-> "ended"],
          cancel |-> [from |-> {"scheduled", "open"}, to |-> "cancelled"],
          delete |-> [from |-> {"scheduled", "open"} \cup Over, to |-> "gone"]]

(* join_error, bind_error: the roster's members, until it is over. *)
MayJoin(l) == l \in roster /\ state \in Live

Unknown(present, binding) == ~present /\ binding = NoTenant

(* provision_skip_status: whose environment a caller cannot build. *)
SkipStatus(present, binding, tenant) ==
  IF Unknown(present, binding) THEN "not-joined"
  ELSE IF binding \notin {NoTenant, tenant} THEN "foreign-tenant" ELSE "none"

RequestPending(l) == state \in Live /\ requested /\ l \notin provdone

(* bind_outcome: the first tenant stays, unless it is moved on purpose. *)
BoundTo(existing, tenant, rebind) ==
  IF existing = NoTenant \/ rebind THEN tenant ELSE existing

-----------------------------------------------------------------------------
(* Calls. *)

Is(c, step) == call[c].step = step
Goes(c, step) == call' = [call EXCEPT ![c].step = step]
Answers(c) == call' = [call EXCEPT ![c] = NoCall]

Begin(c, op, step, who, where) ==
  /\ Is(c, "idle") /\ calls < MaxCalls /\ calls' = calls + 1
  /\ call' = [call EXCEPT ![c] =
                [NoCall EXCEPT !.op = op, !.step = step, !.who = who, !.where = where]]
  /\ UNCHANGED <<hashVars, peopleVars, env, app, historyVars, outages>>

(* To end or cancel what is so already sets the TTL again. *)
BeginMove(c, op) ==
  \/ state \in Moves[op].from /\ Begin(c, op, "write", {}, Home)
  \/ op \in {"end", "cancel"} /\ state = Moves[op].to /\ Begin(c, op, "expire", {}, Home)

BeginUpdate(c) == /\ state \in {"scheduled", "open"}
                  /\ \E sent \in SUBSET Learner : Begin(c, "update", "roster", sent, Home)

BeginJoin(c, l, t) == MayJoin(l) /\ Begin(c, "join", "attend", {l}, t)
BeginCode(c, l, t) == state \in Live /\ Begin(c, "join-by-code", "roster", {l}, t)
BeginBind(c, l, t) ==
  MayJoin(l) /\ \E op \in {"bind", "rebind"} : Begin(c, op, "lookup", {l}, t)

(* The roster and its bindings are read once, before anything is written. *)
BeginProvisionAll(c) ==
  /\ state # "gone" /\ Is(c, "idle") /\ calls < MaxCalls /\ calls' = calls + 1
  /\ call' = [call EXCEPT ![c] = [NoCall EXCEPT
       !.op = "provision-all", !.step = "intent", !.todo = roster,
       !.mine = {l \in roster : SkipStatus(l \in joined, tenantOf[l], Home) = "none"}]]
  /\ UNCHANGED <<hashVars, peopleVars, env, app, historyVars, outages>>

(* One learner's, or everybody's: by the trainer, or by the learner. *)
BeginTerminate(c) ==
  /\ state # "gone"
  /\ \E who \in {{l} : l \in Learner} \cup {roster} : Begin(c, "terminate", "kill", who, Home)

BeginReprovision(c, l) == state # "gone" /\ Begin(c, "reprovision", "kill", {l}, Home)

WriteState(c) ==
  LET op == call[c].op IN
  /\ Is(c, "write") /\ op \in DOMAIN Moves /\ state' = Moves[op].to
  /\ leftover' = IF op \in {"end", "cancel"} THEN Active ELSE leftover
  /\ CASE op \in {"end", "cancel"} -> Goes(c, "export")
       [] op = "delete" -> Goes(c, "others")
       [] OTHER -> Answers(c)
  /\ UNCHANGED <<requested, expiring, listed, peopleVars, env, app, wanted,
                 boundVars>>

(* The export of the pad may raise, and the call with it; the completion    *)
(* record swallows its errors.                                              *)
Export(c) ==
  /\ Is(c, "export")
  /\ \/ Goes(c, "stop") /\ outages' = outages
     \/ outages < MaxOutages /\ outages' = outages + 1 /\ Answers(c)
  /\ UNCHANGED <<hashVars, peopleVars, env, app, historyVars, calls>>

AskedToStop(es) ==
  env' = [e \in EnvId |-> IF e \in es \cap Active THEN [env[e] EXCEPT !.life = "asked"]
                                                  ELSE env[e]]

Tagged == {e \in EnvId : env[e].tagged}

(* Some command to Redis fails: some of the keys are skipped, or all, and   *)
(* the call goes on.                                                        *)
StopFails ==
  /\ outages < MaxOutages /\ outages' = outages + 1
  /\ \E es \in SUBSET Tagged : AskedToStop(es)

(* Mutant: those of the learners who joined. *)
Stop_Joined(c) ==
  /\ Is(c, "stop") /\ Goes(c, "expire")
  /\ \/ AskedToStop({e \in Tagged : env[e].who \subseteq joined}) /\ outages' = outages
     \/ StopFails
  /\ UNCHANGED <<hashVars, peopleVars, app, historyVars, calls>>

(* _stop_workshop_sessions finds environments by their workshop id.  Its    *)
(* scan is one step here: what may happen to a session or to a queued job   *)
(* between two of its commands is in SessionTeardown and Provisioning.      *)
Stop(c) ==
  /\ Is(c, "stop") /\ Goes(c, "expire")
  /\ \/ AskedToStop(Tagged) /\ outages' = outages
     \/ StopFails
  /\ UNCHANGED <<hashVars, peopleVars, app, historyVars, calls>>

Expire(c) ==
  /\ Is(c, "expire") /\ Answers(c) /\ expiring' = (expiring \/ state # "gone")
  /\ UNCHANGED <<state, requested, listed, peopleVars, env, app, historyVars,
                 boundVars>>

(* _delete_live_session_keys: after the hash, the other keys and the index. *)
DeleteOthers(c) ==
  /\ Is(c, "others") /\ Answers(c) /\ listed' = FALSE /\ roster' = {} /\ joined' = {}
  /\ provdone' = {} /\ tenantOf' = [l \in Learner |-> NoTenant]
  /\ UNCHANGED <<state, requested, expiring, env, app, historyVars, boundVars>>

(* A roster that is sent replaces the old one, but for who has joined. *)
WriteRoster(c) ==
  /\ Is(c, "roster")
  /\ IF call[c].op = "update"
       THEN roster' = call[c].who \cup joined /\ Answers(c)
       ELSE roster' = roster \cup call[c].who /\ Goes(c, "lookup")
  /\ UNCHANGED <<hashVars, joined, tenantOf, provdone, env, app, historyVars, boundVars>>

Attend(c) ==
  /\ Is(c, "attend") /\ joined' = joined \cup call[c].who /\ Goes(c, "lookup")
  /\ UNCHANGED <<hashVars, roster, tenantOf, provdone, env, app, historyVars, boundVars>>

(* _bind_tenant reads the binding and writes it a step later. *)
ReadBinding(c) ==
  /\ Is(c, "lookup")
  /\ \E l \in call[c].who :
       call' = [call EXCEPT ![c].step = "bind", ![c].seen = tenantOf[l]]
  /\ UNCHANGED <<hashVars, peopleVars, env, app, historyVars, boundVars>>

WriteBinding(c) ==
  /\ Is(c, "bind") /\ Answers(c)
  /\ LET t == BoundTo(call[c].seen, call[c].where, call[c].op = "rebind") IN
     tenantOf' = [l \in Learner |->
       IF l \in call[c].who /\ t # call[c].seen THEN t ELSE tenantOf[l]]
  /\ UNCHANGED <<hashVars, roster, joined, provdone, env, app, historyVars, boundVars>>

-----------------------------------------------------------------------------
(* Environments. *)

(* api_arena_provision: a live session of the learner in the tenant is used *)
(* again, or one is built.                                                  *)
Provisioned(l, t, tag) ==
  \/ /\ \E e \in Active : env[e].who = {l} /\ env[e].where = t
     /\ env' = env
  \/ /\ ~\E e \in Active : env[e].who = {l} /\ env[e].where = t
     /\ \E e \in EnvId :
          /\ env[e] = Unbuilt
          /\ env' = [env EXCEPT ![e] =
                       [life |-> "active", who |-> {l}, where |-> t, tagged |-> tag]]

(* It raises. *)
NotProvisioned ==
  /\ env' = env
  /\ IF \E e \in EnvId : env[e] = Unbuilt
       THEN outages < MaxOutages /\ outages' = outages + 1
       ELSE outages' = outages

(* Mutant: the call serves whom it can and leaves no request. *)
Intend_NotKept(c) ==
  /\ Is(c, "intent") /\ Goes(c, "unsettle")
  /\ UNCHANGED <<hashVars, peopleVars, env, app, historyVars, boundVars>>

(* The intent comes first, so that a call that dies half way covers all. *)
Intend(c) ==
  /\ Is(c, "intent") /\ requested' = TRUE /\ Goes(c, "unsettle")
  /\ UNCHANGED <<state, expiring, listed, peopleVars, env, app, historyVars,
                 boundVars>>

Unsettle(c) ==
  /\ Is(c, "unsettle") /\ provdone' = provdone \ call[c].todo
  /\ wanted' = wanted \cup call[c].todo /\ Goes(c, "targets")
  /\ UNCHANGED <<hashVars, roster, joined, tenantOf, env, app, leftover, boundVars>>

(* Whoever is left out is served by their own app. *)
Provide(c, l) ==
  /\ Is(c, "targets") /\ l \in call[c].todo
  /\ \/ /\ l \in call[c].mine /\ Provisioned(l, Home, TRUE) /\ outages' = outages
        /\ call' = [call EXCEPT ![c].todo = @ \ {l}, ![c].who = {l}, ![c].step = "settle"]
     \/ /\ IF l \in call[c].mine THEN NotProvisioned ELSE UNCHANGED <<env, outages>>
        /\ call' = [call EXCEPT ![c].todo = @ \ {l}]
  /\ UNCHANGED <<hashVars, peopleVars, app, historyVars, calls>>

Settle(c) ==
  /\ Is(c, "settle") /\ provdone' = provdone \cup call[c].who
  /\ IF call[c].op = "reprovision" THEN Answers(c) ELSE Goes(c, "targets")
  /\ UNCHANGED <<hashVars, roster, joined, tenantOf, env, app, historyVars, boundVars>>

ProvidedAll(c) ==
  /\ Is(c, "targets") /\ call[c].todo = {} /\ Answers(c)
  /\ UNCHANGED <<hashVars, peopleVars, env, app, historyVars, boundVars>>

(* _workshop_jobs, _terminate_jobs: these learners', for this training. *)
Kill(c) ==
  /\ Is(c, "kill") /\ AskedToStop({e \in EnvId : env[e].who \subseteq call[c].who})
  /\ IF call[c].op = "reprovision" THEN Goes(c, "look") ELSE Answers(c)
  /\ UNCHANGED <<hashVars, peopleVars, app, historyVars, boundVars>>

(* Reprovision leaves a learner of another tenant to their own app. *)
Look(c) ==
  /\ Is(c, "look")
  /\ \E l \in call[c].who :
       IF SkipStatus(l \in joined, tenantOf[l], Home) = "none"
         THEN Goes(c, "build") /\ UNCHANGED provdone
         ELSE Goes(c, "rearm") /\ provdone' = provdone \ {l}
  /\ UNCHANGED <<hashVars, roster, joined, tenantOf, env, app, historyVars, boundVars>>

Rearm(c) ==
  /\ Is(c, "rearm") /\ requested' = TRUE /\ Answers(c)
  /\ UNCHANGED <<state, expiring, listed, peopleVars, env, app, historyVars,
                 boundVars>>

(* It names no workshop. *)
Rebuild(c) ==
  /\ Is(c, "build")
  /\ \E l \in call[c].who :
       \/ Provisioned(l, Home, FALSE) /\ outages' = outages /\ Goes(c, "settle")
       \/ NotProvisioned /\ Answers(c)
  /\ UNCHANGED <<hashVars, peopleVars, app, historyVars, calls>>

-----------------------------------------------------------------------------
(* A learner's own app, in whatever tenant they have it open: it sees the   *)
(* request in the detail it polls, provisions there, and acknowledges.      *)

AppAt(l, step, where) == app' = [app EXCEPT ![l] = [step |-> step, where |-> where]]

Poll(l, t) ==
  /\ app[l].step = "idle" /\ l \in roster /\ RequestPending(l) /\ AppAt(l, "build", t)
  /\ UNCHANGED <<hashVars, peopleVars, env, call, historyVars, boundVars>>

AppBuilds(l) ==
  /\ app[l].step = "build" /\ AppAt(l, "ack", app[l].where)
  /\ \/ Provisioned(l, app[l].where, TRUE) /\ outages' = outages
     \/ NotProvisioned
  /\ UNCHANGED <<hashVars, peopleVars, call, historyVars, calls>>

(* Every outcome settles the request, a failure too. *)
Ack(l) ==
  /\ app[l].step = "ack"
  /\ IF state = "gone" THEN app' = [app EXCEPT ![l] = Closed] /\ UNCHANGED provdone
     ELSE AppAt(l, "bind", app[l].where) /\ provdone' = provdone \cup {l}
  /\ UNCHANGED <<hashVars, roster, joined, tenantOf, env, call, historyVars, boundVars>>

AckBinds(l) ==
  /\ app[l].step = "bind" /\ app' = [app EXCEPT ![l] = Closed]
  /\ tenantOf' = [tenantOf EXCEPT ![l] = app[l].where]
  /\ UNCHANGED <<hashVars, roster, joined, provdone, env, call, historyVars, boundVars>>

(* The apps see an error and poll again. *)
LiveRestart ==
  /\ outages < MaxOutages /\ outages' = outages + 1
  /\ \E c \in Call : ~Is(c, "idle")
  /\ call' = [c \in Call |-> NoCall] /\ app' = [l \in Learner |-> Closed]
  /\ UNCHANGED <<hashVars, peopleVars, env, historyVars, calls>>

-----------------------------------------------------------------------------
CallBegins(c) ==
  \/ \E op \in DOMAIN Moves : BeginMove(c, op)
  \/ BeginUpdate(c) \/ BeginProvisionAll(c) \/ BeginTerminate(c)
  \/ \E l \in Learner :
       \/ BeginReprovision(c, l)
       \/ \E t \in Tenant : BeginJoin(c, l, t) \/ BeginCode(c, l, t) \/ BeginBind(c, l, t)

CallStep(c) ==
  \/ WriteState(c) \/ Export(c) \/ Stop(c) \/ Expire(c) \/ DeleteOthers(c)
  \/ WriteRoster(c) \/ Attend(c) \/ ReadBinding(c) \/ WriteBinding(c)
  \/ Intend(c) \/ Unsettle(c) \/ Settle(c) \/ ProvidedAll(c)
  \/ Kill(c) \/ Look(c) \/ Rearm(c) \/ Rebuild(c)
  \/ \E l \in Learner : Provide(c, l)

AppStep(l) ==
  AppBuilds(l) \/ Ack(l) \/ AckBinds(l) \/ \E t \in Tenant : Poll(l, t)

LiveNext ==
  \/ \E c \in Call : CallBegins(c) \/ CallStep(c)
  \/ \E l \in Learner : AppStep(l)
  \/ LiveRestart

LiveSpec == LiveInit /\ [][LiveNext]_liveVars

-----------------------------------------------------------------------------
(* Properties. *)

LiveTypeOK ==
  /\ state \in Live \cup Over \cup {"gone"} /\ requested \in BOOLEAN
  /\ expiring \in BOOLEAN /\ listed \in BOOLEAN
  /\ roster \subseteq Learner /\ joined \subseteq Learner
  /\ tenantOf \in [Learner -> Tenant \cup {NoTenant}] /\ provdone \subseteq Learner
  /\ env \in [EnvId -> [life : {"none", "active", "asked"}, who : SUBSET Learner,
                        where : Tenant, tagged : BOOLEAN]]
  /\ call \in [Call -> [op : Ops, step : CallSteps, who : SUBSET Learner,
                        where : Tenant, todo : SUBSET Learner, mine : SUBSET Learner,
                        seen : Tenant \cup {NoTenant}]]
  /\ app \in [Learner -> [step : {"idle", "build", "ack", "bind"}, where : Tenant]]
  /\ wanted \subseteq Learner /\ leftover \subseteq EnvId
  /\ calls \in 0 .. MaxCalls /\ outages \in 0 .. MaxOutages

(* A learner who has the app open, so that it polls and goes on. *)
KeepsAppOpen(l) == WF_liveVars(AppStep(l))

(* Whoever a provision-all set out to serve is served, or its app is told   *)
(* why not, wherever the call died: by the call, or by their own app, which *)
(* finds the request -- as long as they keep it open, and the workshop      *)
(* lives and has them.                                                      *)
AskedIsServed ==
  \A l \in Learner : KeepsAppOpen(l) =>
    (l \in wanted ~> l \in provdone \/ l \notin roster \/ state \notin Live)

StillUp == {e \in leftover \cap Active : env[e].tagged}

(* The environments built for a workshop and named so are stopped when it   *)
(* ends, whoever else is calling meanwhile -- unless there is a restart, or *)
(* the export or a command of the stop fails.                               *)
EndStopsTagged == StillUp # {} ~> StillUp = {} \/ outages > 0
=============================================================================
