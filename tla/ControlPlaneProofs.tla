-------------------------- MODULE ControlPlaneProofs --------------------------
(***************************************************************************)
(* Proofs about a workshop's calls, for every number of learners, tenants,  *)
(* environments and calls at a time, and about the two components of the    *)
(* control plane together: a behaviour of the whole is one of each, so that *)
(* what is proved of a component holds of the whole.                        *)
(***************************************************************************)
EXTENDS ControlPlane, ProvisioningProofs

(* Types, in the groups that the steps leave alone.                         *)
HashTypes ==
  /\ state \in Live \cup Over \cup {"gone"} /\ requested \in BOOLEAN
  /\ expiring \in BOOLEAN /\ listed \in BOOLEAN
PeopleTypes ==
  /\ roster \subseteq Learner /\ joined \subseteq Learner
  /\ tenantOf \in [Learner -> Tenant \cup {NoTenant}] /\ provdone \subseteq Learner
EnvType == [life : {"none", "active", "asked"}, who : SUBSET Learner,
            where : Tenant, tagged : BOOLEAN]
CallType == [op : Ops, step : CallSteps, who : SUBSET Learner, where : Tenant,
             todo : SUBSET Learner, mine : SUBSET Learner, seen : Tenant \cup {NoTenant}]
AppType == [step : {"idle", "build", "ack", "bind"}, where : Tenant]
DoingTypes ==
  env \in [EnvId -> EnvType] /\ call \in [Call -> CallType] /\ app \in [Learner -> AppType]
HistoryTypes ==
  /\ wanted \subseteq Learner /\ leftover \subseteq EnvId
  /\ calls \in 0 .. MaxCalls /\ outages \in 0 .. MaxOutages

LiveTypes == HashTypes /\ PeopleTypes /\ DoingTypes /\ HistoryTypes

LEMMA LiveTypesTogether ==
  (LiveTypeOK <=> LiveTypes) /\ (LiveTypes' => LiveTypeOK')
BY DEF LiveTypeOK, LiveTypes, HashTypes, PeopleTypes, EnvType, CallType, AppType, DoingTypes,
       HistoryTypes

LEMMA CallFacts ==
  ASSUME DoingTypes, NEW c \in Call
  PROVE  /\ \A s \in CallSteps : Goes(c, s) => call' \in [Call -> CallType]
         /\ Answers(c) => call' \in [Call -> CallType]
         /\ NoCall \in CallType
<1>1. NoCall \in CallType
  BY LiveSessionAssumption DEF NoCall, CallType, Ops, CallSteps
<1>2. \A s \in CallSteps : [call[c] EXCEPT !.step = s] \in CallType
  BY DEF DoingTypes, CallType
<1> QED BY <1>1, <1>2 DEF Goes, Answers, DoingTypes

LEMMA EnvFacts ==
  ASSUME DoingTypes
  PROVE  /\ \A es : AskedToStop(es) => env' \in [EnvId -> EnvType]
         /\ \A l \in Learner, t \in Tenant, tag \in BOOLEAN :
              Provisioned(l, t, tag) => env' \in [EnvId -> EnvType]
         /\ NotProvisioned => env' = env
<1>1. ASSUME NEW es, AskedToStop(es)
      PROVE  env' \in [EnvId -> EnvType]
  BY <1>1 DEF AskedToStop, DoingTypes, EnvType
<1>2. ASSUME NEW l \in Learner, NEW t \in Tenant, NEW tag \in BOOLEAN, Provisioned(l, t, tag)
      PROVE  env' \in [EnvId -> EnvType]
  <2>1. [life |-> "active", who |-> {l}, where |-> t, tagged |-> tag] \in EnvType
    BY <1>2 DEF EnvType
  <2> QED BY <1>2, <2>1 DEF Provisioned, DoingTypes
<1> QED BY <1>1, <1>2 DEF NotProvisioned

LEMMA OutageFacts ==
  ASSUME HistoryTypes
  PROVE  /\ outages < MaxOutages /\ outages' = outages + 1 => outages' \in 0 .. MaxOutages
         /\ NotProvisioned => outages' \in 0 .. MaxOutages
BY LiveSessionAssumption DEF HistoryTypes, NotProvisioned

LEMMA InitLiveTypes == LiveInit => LiveTypes
<1> SUFFICES ASSUME LiveInit PROVE LiveTypes
  OBVIOUS
<1>1. HashTypes /\ PeopleTypes
  BY DEF LiveInit, HashTypes, PeopleTypes, Live
<1>2. Unbuilt \in EnvType /\ NoCall \in CallType /\ Closed \in AppType
  BY LiveSessionAssumption DEF EnvType, CallType, AppType, Unbuilt, NoCall, Closed, Ops, CallSteps
<1>3. DoingTypes
  BY <1>2 DEF LiveInit, DoingTypes
<1>4. HistoryTypes
  BY LiveSessionAssumption DEF LiveInit, HistoryTypes
<1> QED BY <1>1, <1>3, <1>4 DEF LiveTypes

(* A call begins: it is noted with what it was given.                       *)
LEMMA BeginTypes ==
  ASSUME LiveTypes, NEW c \in Call, CallBegins(c)
  PROVE  LiveTypes'
<1>1. ASSUME NEW op \in Ops, NEW step \in CallSteps, NEW who \in SUBSET Learner,
             NEW where \in Tenant, Begin(c, op, step, who, where)
      PROVE  LiveTypes'
  <2>1. [NoCall EXCEPT !.op = op, !.step = step, !.who = who, !.where = where] \in CallType
    BY CallFacts DEF LiveTypes, CallType
  <2>2. DoingTypes' /\ HistoryTypes'
    BY <1>1, <2>1, LiveSessionAssumption DEF Begin, LiveTypes, DoingTypes, HistoryTypes, historyVars
  <2> QED BY <1>1, <2>2 DEF Begin, LiveTypes, HashTypes, PeopleTypes, hashVars, peopleVars
<1>2. Home \in Tenant /\ roster \in SUBSET Learner
  BY LiveSessionAssumption DEF LiveTypes, PeopleTypes
<1>3. CASE \E op \in DOMAIN Moves : BeginMove(c, op)
  <2>1. DOMAIN Moves \subseteq Ops /\ {"write", "expire"} \subseteq CallSteps
    BY DEF Moves, Ops, CallSteps
  <2> QED BY <1>1, <1>2, <1>3, <2>1 DEF BeginMove
<1>4. CASE BeginUpdate(c)
  BY <1>1, <1>2, <1>4 DEF BeginUpdate, Ops, CallSteps
<1>5. CASE BeginProvisionAll(c)
  <2>1. [NoCall EXCEPT !.op = "provision-all", !.step = "intent", !.todo = roster,
           !.mine = {l \in roster : SkipStatus(l \in joined, tenantOf[l], Home) = "none"}] \in CallType
    BY <1>2, CallFacts DEF LiveTypes, CallType, Ops, CallSteps
  <2>2. DoingTypes' /\ HistoryTypes'
    BY <1>5, <2>1, LiveSessionAssumption
       DEF BeginProvisionAll, LiveTypes, DoingTypes, HistoryTypes, historyVars
  <2> QED BY <1>5, <2>2 DEF BeginProvisionAll, LiveTypes, HashTypes, PeopleTypes, hashVars, peopleVars
<1>6. CASE BeginTerminate(c)
  BY <1>1, <1>2, <1>6 DEF BeginTerminate, Ops, CallSteps
<1>7. ASSUME NEW l \in Learner, BeginReprovision(c, l)
      PROVE  LiveTypes'
  BY <1>1, <1>2, <1>7 DEF BeginReprovision, Ops, CallSteps
<1>8. ASSUME NEW l \in Learner, NEW t \in Tenant,
             BeginJoin(c, l, t) \/ BeginCode(c, l, t) \/ BeginBind(c, l, t)
      PROVE  LiveTypes'
  BY <1>1, <1>8 DEF BeginJoin, BeginCode, BeginBind, Ops, CallSteps
<1> QED BY <1>3, <1>4, <1>5, <1>6, <1>7, <1>8 DEF CallBegins

LEMMA CallStepTypes ==
  ASSUME LiveTypes, NEW c \in Call, CallStep(c)
  PROVE  LiveTypes'
<1>0. HashTypes /\ PeopleTypes /\ DoingTypes /\ HistoryTypes
  BY DEF LiveTypes
<1>s. {"export", "others", "stop", "expire", "lookup", "bind", "unsettle", "targets", "settle",
       "look", "build", "rearm"} \subseteq CallSteps
  BY DEF CallSteps
<1>c. call[c] \in CallType
  BY <1>0 DEF DoingTypes
<1>w. call[c].who \in SUBSET Learner /\ call[c].todo \in SUBSET Learner /\ call[c].where \in Tenant
      /\ Home \in Tenant
  BY <1>c, LiveSessionAssumption DEF CallType
<1> USE DEF hashVars, peopleVars, historyVars, boundVars
<1>1. CASE WriteState(c)
  <2>1. state' \in Live \cup Over \cup {"gone"}
    BY <1>1 DEF WriteState, Moves, Live, Over
  <2>2. leftover' \subseteq EnvId
    BY <1>0, <1>1 DEF WriteState, Active, HistoryTypes
  <2>3. call' \in [Call -> CallType]
    BY <1>0, <1>s, <1>1, CallFacts DEF WriteState
  <2> QED BY <1>0, <1>1, <2>1, <2>2, <2>3
          DEF WriteState, LiveTypes, HashTypes, PeopleTypes, DoingTypes, HistoryTypes
<1>2. CASE Export(c)
  BY <1>0, <1>s, <1>2, CallFacts, OutageFacts
     DEF Export, LiveTypes, HashTypes, PeopleTypes, DoingTypes, HistoryTypes
<1>3. CASE Stop(c)
  BY <1>0, <1>s, <1>3, CallFacts, EnvFacts, OutageFacts
     DEF Stop, StopFails, LiveTypes, HashTypes, PeopleTypes, DoingTypes, HistoryTypes
<1>4. CASE Expire(c)
  BY <1>0, <1>4, CallFacts
     DEF Expire, LiveTypes, HashTypes, PeopleTypes, DoingTypes, HistoryTypes
<1>5. CASE DeleteOthers(c)
  BY <1>0, <1>5, CallFacts
     DEF DeleteOthers, LiveTypes, HashTypes, PeopleTypes, DoingTypes, HistoryTypes
<1>6. CASE WriteRoster(c)
  BY <1>0, <1>s, <1>w, <1>6, CallFacts
     DEF WriteRoster, LiveTypes, HashTypes, PeopleTypes, DoingTypes, HistoryTypes
<1>7. CASE Attend(c)
  BY <1>0, <1>s, <1>w, <1>7, CallFacts
     DEF Attend, LiveTypes, HashTypes, PeopleTypes, DoingTypes, HistoryTypes
<1>8. CASE ReadBinding(c)
  <2>1. PICK l \in call[c].who : call' = [call EXCEPT ![c].step = "bind", ![c].seen = tenantOf[l]]
    BY <1>8 DEF ReadBinding
  <2>2. [call[c] EXCEPT !.step = "bind", !.seen = tenantOf[l]] \in CallType
    BY <1>0, <1>c, <1>s, <1>w DEF CallType, PeopleTypes
  <2>3. call' \in [Call -> CallType]
    BY <1>0, <2>1, <2>2 DEF DoingTypes
  <2> QED BY <1>0, <1>8, <2>3
          DEF ReadBinding, LiveTypes, HashTypes, PeopleTypes, DoingTypes, HistoryTypes
<1>9. CASE WriteBinding(c)
  <2>1. BoundTo(call[c].seen, call[c].where, call[c].op = "rebind") \in Tenant \cup {NoTenant}
    BY <1>c DEF BoundTo, CallType
  <2>2. tenantOf' \in [Learner -> Tenant \cup {NoTenant}]
    BY <1>0, <1>9, <2>1 DEF WriteBinding, PeopleTypes
  <2>3. call' \in [Call -> CallType]
    BY <1>0, <1>9, CallFacts DEF WriteBinding
  <2> QED BY <1>0, <1>9, <2>2, <2>3
          DEF WriteBinding, LiveTypes, HashTypes, PeopleTypes, DoingTypes, HistoryTypes
<1>10. CASE Intend(c)
  BY <1>0, <1>s, <1>10, CallFacts
     DEF Intend, LiveTypes, HashTypes, PeopleTypes, DoingTypes, HistoryTypes
<1>11. CASE Unsettle(c)
  BY <1>0, <1>s, <1>w, <1>11, CallFacts
     DEF Unsettle, LiveTypes, HashTypes, PeopleTypes, DoingTypes, HistoryTypes
<1>12. CASE Settle(c)
  BY <1>0, <1>s, <1>w, <1>12, CallFacts
     DEF Settle, LiveTypes, HashTypes, PeopleTypes, DoingTypes, HistoryTypes
<1>13. CASE ProvidedAll(c)
  BY <1>0, <1>13, CallFacts
     DEF ProvidedAll, LiveTypes, HashTypes, PeopleTypes, DoingTypes, HistoryTypes
<1>14. CASE Kill(c)
  BY <1>0, <1>s, <1>14, CallFacts, EnvFacts
     DEF Kill, LiveTypes, HashTypes, PeopleTypes, DoingTypes, HistoryTypes
<1>15. CASE Look(c)
  <2>1. provdone' \subseteq Learner /\ (Goes(c, "build") \/ Goes(c, "rearm"))
    BY <1>0, <1>15 DEF Look, PeopleTypes
  <2> QED BY <1>0, <1>s, <1>15, <2>1, CallFacts
          DEF Look, LiveTypes, HashTypes, PeopleTypes, DoingTypes, HistoryTypes
<1>16. CASE Rearm(c)
  BY <1>0, <1>16, CallFacts
     DEF Rearm, LiveTypes, HashTypes, PeopleTypes, DoingTypes, HistoryTypes
<1>17. CASE Rebuild(c)
  <2>1. env' \in [EnvId -> EnvType] /\ outages' \in 0 .. MaxOutages
    BY <1>0, <1>w, <1>17, EnvFacts, OutageFacts DEF Rebuild, DoingTypes, HistoryTypes
  <2>2. call' \in [Call -> CallType]
    BY <1>0, <1>s, <1>17, CallFacts DEF Rebuild
  <2> QED BY <1>0, <1>17, <2>1, <2>2
          DEF Rebuild, LiveTypes, HashTypes, PeopleTypes, DoingTypes, HistoryTypes
<1>18. ASSUME NEW l \in Learner, Provide(c, l)
       PROVE  LiveTypes'
  <2>1. env' \in [EnvId -> EnvType] /\ outages' \in 0 .. MaxOutages
    BY <1>0, <1>w, <1>18, EnvFacts, OutageFacts DEF Provide, DoingTypes, HistoryTypes
  <2>2. /\ [call[c] EXCEPT !.todo = @ \ {l}, !.who = {l}, !.step = "settle"] \in CallType
        /\ [call[c] EXCEPT !.todo = @ \ {l}] \in CallType
    BY <1>c, <1>s DEF CallType
  <2>3. call' \in [Call -> CallType]
    BY <1>0, <1>18, <2>2 DEF Provide, DoingTypes
  <2> QED BY <1>0, <1>18, <2>1, <2>3
          DEF Provide, LiveTypes, HashTypes, PeopleTypes, DoingTypes, HistoryTypes
<1> QED BY <1>1, <1>2, <1>3, <1>4, <1>5, <1>6, <1>7, <1>8, <1>9, <1>10, <1>11, <1>12, <1>13,
           <1>14, <1>15, <1>16, <1>17, <1>18 DEF CallStep

LEMMA AppStepTypes ==
  ASSUME LiveTypes, NEW l \in Learner, AppStep(l)
  PROVE  LiveTypes'
<1>0. HashTypes /\ PeopleTypes /\ DoingTypes /\ HistoryTypes
  BY DEF LiveTypes
<1>a. /\ app[l].where \in Tenant /\ Closed \in AppType
      /\ \A s \in {"build", "ack", "bind"}, t \in Tenant :
           AppAt(l, s, t) => app' \in [Learner -> AppType]
      /\ [app EXCEPT ![l] = Closed] \in [Learner -> AppType]
  BY <1>0, LiveSessionAssumption DEF DoingTypes, AppType, Closed, AppAt
<1> USE DEF hashVars, peopleVars, historyVars, boundVars
<1>1. CASE AppBuilds(l)
  <2>1. env' \in [EnvId -> EnvType] /\ outages' \in 0 .. MaxOutages
    BY <1>0, <1>a, <1>1, EnvFacts, OutageFacts DEF AppBuilds, DoingTypes, HistoryTypes
  <2> QED BY <1>0, <1>a, <1>1, <2>1
          DEF AppBuilds, LiveTypes, HashTypes, PeopleTypes, DoingTypes, HistoryTypes
<1>2. CASE Ack(l)
  BY <1>0, <1>a, <1>2 DEF Ack, LiveTypes, HashTypes, PeopleTypes, DoingTypes, HistoryTypes
<1>3. CASE AckBinds(l)
  BY <1>0, <1>a, <1>3 DEF AckBinds, LiveTypes, HashTypes, PeopleTypes, DoingTypes, HistoryTypes
<1>4. ASSUME NEW t \in Tenant, Poll(l, t)
      PROVE  LiveTypes'
  BY <1>0, <1>a, <1>4 DEF Poll, LiveTypes, HashTypes, PeopleTypes, DoingTypes, HistoryTypes
<1> QED BY <1>1, <1>2, <1>3, <1>4 DEF AppStep

LEMMA RestartTypes ==
  ASSUME LiveTypes, LiveRestart \/ UNCHANGED liveVars
  PROVE  LiveTypes'
<1> USE DEF hashVars, peopleVars, historyVars, boundVars
<1>1. CASE LiveRestart
  <2>1. NoCall \in CallType /\ Closed \in AppType
    BY LiveSessionAssumption DEF NoCall, CallType, Ops, CallSteps, Closed, AppType
  <2> QED BY <1>1, <2>1, OutageFacts
          DEF LiveRestart, LiveTypes, HashTypes, PeopleTypes, DoingTypes, HistoryTypes
<1>2. CASE UNCHANGED liveVars
  BY <1>2 DEF liveVars, LiveTypes, HashTypes, PeopleTypes, DoingTypes, HistoryTypes
<1> QED BY <1>1, <1>2

LEMMA StepLiveTypes == LiveTypeOK /\ [LiveNext]_liveVars => LiveTypeOK'
<1> SUFFICES ASSUME LiveTypes, [LiveNext]_liveVars PROVE LiveTypes'
  BY LiveTypesTogether
<1> QED BY BeginTypes, CallStepTypes, AppStepTypes, RestartTypes DEF LiveNext

(* Every variable of a workshop keeps its type, whatever trainers, learners *)
(* and their apps call at the same time, and wherever a restart ends it.    *)
THEOREM LiveTypeCorrect == LiveSpec => []LiveTypeOK
<1>1. LiveInit => LiveTypeOK
  BY InitLiveTypes, LiveTypesTogether
<1> QED BY <1>1, StepLiveTypes, PTL DEF LiveSpec

-----------------------------------------------------------------------------
(* The end of a workshop.  What it has left is stopped, or a call that ends *)
(* it has yet to come to the stop; and no environment is built in the place *)
(* of one that was left.                                                    *)

StopIsDue ==
  StillUp # {} /\ outages = 0 =>
    \E c \in Call : call[c].op \in {"end", "cancel"} /\ call[c].step \in {"export", "stop"}

LeftWereBuilt == \A e \in leftover : env[e].life # "none"

StopInv == LeftWereBuilt /\ StopIsDue

LEMMA InitStop == LiveInit => StopInv
BY DEF LiveInit, StopInv, LeftWereBuilt, StopIsDue, StillUp

(* No step but the end of a workshop puts up what is still up.              *)
LEMMA StillUpShrinks ==
  ASSUME LeftWereBuilt, DoingTypes, leftover \subseteq EnvId, leftover' = leftover,
         \/ env' = env
         \/ \E es : AskedToStop(es)
         \/ \E l, t, tag : Provisioned(l, t, tag)
  PROVE  LeftWereBuilt' /\ StillUp' \subseteq StillUp
<1>1. CASE env' = env
  BY <1>1 DEF LeftWereBuilt, StillUp, Active
<1>2. ASSUME NEW es, AskedToStop(es)
      PROVE  LeftWereBuilt' /\ StillUp' \subseteq StillUp
  <2>1. \A e \in EnvId : \/ env'[e] = env[e]
                         \/ env[e].life = "active" /\ env'[e].life = "asked"
    BY <1>2 DEF AskedToStop, Active, DoingTypes, EnvType
  <2> QED BY <2>1 DEF LeftWereBuilt, StillUp, Active
<1>3. ASSUME NEW e \in EnvId, NEW new, env[e] = Unbuilt, env' = [env EXCEPT ![e] = new]
      PROVE  LeftWereBuilt' /\ StillUp' \subseteq StillUp
  <2>1. e \notin leftover
    BY <1>3 DEF LeftWereBuilt, Unbuilt
  <2>2. \A d \in leftover : env'[d] = env[d]
    BY <1>3, <2>1 DEF DoingTypes
  <2> QED BY <2>1, <2>2 DEF LeftWereBuilt, StillUp, Active
<1> QED BY <1>1, <1>2, <1>3 DEF Provisioned

(* A step after which no call has given up a stop it owed.                  *)
LEMMA StopRests ==
  ASSUME StopInv, LeftWereBuilt', StillUp' \subseteq StillUp, outages' = 0 => outages = 0,
         NEW c \in Call, call[c].step \notin {"export", "stop"}, DoingTypes,
         \A d \in Call \ {c} : call'[d] = call[d]
  PROVE  StopInv'
BY DEF StopInv, StopIsDue

LEMMA CallFrame ==
  ASSUME DoingTypes, NEW c \in Call
  PROVE  /\ \A s : Goes(c, s) => /\ \A d \in Call \ {c} : call'[d] = call[d]
                                 /\ call'[c].op = call[c].op /\ call'[c].step = s
         /\ Answers(c) => \A d \in Call \ {c} : call'[d] = call[d]
BY DEF DoingTypes, CallType, Goes, Answers

LEMMA StepStop == StopInv /\ LiveTypes /\ [LiveNext]_liveVars => StopInv'
<1> SUFFICES ASSUME StopInv, LiveTypes, [LiveNext]_liveVars PROVE StopInv'
  OBVIOUS
<1>0. DoingTypes /\ LeftWereBuilt /\ leftover \subseteq EnvId /\ outages \in Nat
  BY DEF LiveTypes, HistoryTypes, StopInv
<1> USE DEF historyVars, boundVars
<1>n. NotProvisioned => env' = env /\ (outages' = 0 => outages = 0)
  BY <1>0 DEF NotProvisioned
<1>q. ASSUME call' = call, leftover' = leftover, outages' = 0 => outages = 0,
             \/ env' = env
             \/ \E l, t, tag : Provisioned(l, t, tag)
      PROVE  StopInv'
  BY <1>0, <1>q, StillUpShrinks DEF StopInv, StopIsDue
<1>1. ASSUME NEW c \in Call, CallBegins(c)
      PROVE  StopInv'
  <2>1. /\ Is(c, "idle") /\ UNCHANGED <<env, leftover, outages>>
        /\ \E rec : call' = [call EXCEPT ![c] = rec]
    BY <1>1 DEF CallBegins, Begin, BeginMove, BeginUpdate, BeginProvisionAll, BeginTerminate,
                BeginReprovision, BeginJoin, BeginCode, BeginBind
  <2>2. \A d \in Call \ {c} : call'[d] = call[d]
    BY <1>0, <2>1 DEF DoingTypes
  <2> QED BY <1>0, <2>1, <2>2, StillUpShrinks, StopRests DEF Is
<1>2. ASSUME NEW c \in Call, WriteState(c)
      PROVE  StopInv'
  <2>1. CASE call[c].op \in {"end", "cancel"}
    <3>1. leftover' = Active /\ env' = env /\ Goes(c, "export")
      BY <1>2, <2>1 DEF WriteState
    <3>2. call'[c].op \in {"end", "cancel"} /\ call'[c].step = "export"
      BY <1>0, <2>1, <3>1, CallFrame
    <3> QED BY <3>1, <3>2 DEF StopInv, LeftWereBuilt, StopIsDue, Active
  <2>2. CASE call[c].op \notin {"end", "cancel"}
    <3>1. /\ Is(c, "write") /\ UNCHANGED <<leftover, env, outages>>
          /\ Goes(c, "others") \/ Answers(c)
      BY <1>2, <2>2 DEF WriteState
    <3> QED BY <1>0, <3>1, CallFrame, StillUpShrinks, StopRests DEF Is
  <2> QED BY <2>1, <2>2
<1>3. ASSUME NEW c \in Call, Export(c)
      PROVE  StopInv'
  <2>1. LeftWereBuilt' /\ StillUp' = StillUp
    BY <1>0, <1>3 DEF Export, LeftWereBuilt, StillUp, Active
  <2>2. CASE outages' = outages + 1
    BY <1>0, <2>1, <2>2 DEF StopInv, StopIsDue
  <2>3. CASE Goes(c, "stop") /\ outages' = outages
    <3>1. \A d \in Call : call[d].op \in {"end", "cancel"} /\ call[d].step \in {"export", "stop"}
                          => /\ call'[d].op \in {"end", "cancel"}
                             /\ call'[d].step \in {"export", "stop"}
      BY <1>0, <2>3, CallFrame
    <3> QED BY <2>1, <2>3, <3>1 DEF StopInv, StopIsDue
  <2> QED BY <1>3, <2>2, <2>3 DEF Export
<1>4. ASSUME NEW c \in Call, Stop(c)
      PROVE  StopInv'
  <2>1. LeftWereBuilt'
    BY <1>0, <1>4, StillUpShrinks DEF Stop, StopFails
  <2>2. CASE AskedToStop(Tagged)
    <3>1. StillUp' = {}
      BY <1>0, <1>4, <2>2 DEF Stop, AskedToStop, StillUp, Active, Tagged, DoingTypes, EnvType
    <3> QED BY <2>1, <3>1 DEF StopInv, StopIsDue
  <2>3. CASE StopFails
    <3>1. outages' # 0
      BY <1>0, <2>3 DEF StopFails
    <3> QED BY <2>1, <3>1 DEF StopInv, StopIsDue
  <2> QED BY <1>4, <2>2, <2>3 DEF Stop
<1>5. ASSUME NEW c \in Call, CallStep(c), ~WriteState(c), ~Export(c), ~Stop(c)
      PROVE  StopInv'
  <2> DEFINE Framed ==
        /\ call[c].step \notin {"export", "stop"} /\ leftover' = leftover
        /\ outages' = 0 => outages = 0
        /\ \/ env' = env
           \/ \E es : AskedToStop(es)
           \/ \E l, t, tag : Provisioned(l, t, tag)
        /\ \E rec : call' = [call EXCEPT ![c] = rec]
  <2>1. Framed
    <3>1. CASE Expire(c) \/ DeleteOthers(c) \/ WriteRoster(c) \/ Attend(c) \/ ReadBinding(c)
               \/ WriteBinding(c)
      BY <3>1 DEF Expire, DeleteOthers, WriteRoster, Attend, ReadBinding, WriteBinding, Is, Goes,
                  Answers
    <3>2. CASE Intend(c) \/ Unsettle(c) \/ Settle(c) \/ ProvidedAll(c) \/ Kill(c) \/ Rearm(c)
      BY <3>2 DEF Intend, Unsettle, Settle, ProvidedAll, Kill, Rearm, Is, Goes, Answers
    <3>3. CASE Look(c)
      BY <3>3 DEF Look, Is, Goes
    <3>4. CASE Rebuild(c)
      BY <1>0, <1>n, <3>4 DEF Rebuild, Is, Goes, Answers
    <3>5. ASSUME NEW l \in Learner, Provide(c, l)
          PROVE  Framed
      BY <1>0, <1>n, <3>5 DEF Provide, Is
    <3> QED BY <1>5, <3>1, <3>2, <3>3, <3>4, <3>5 DEF CallStep
  <2>2. \A d \in Call \ {c} : call'[d] = call[d]
    BY <1>0, <2>1 DEF DoingTypes
  <2> QED BY <1>0, <2>1, <2>2, StillUpShrinks, StopRests
<1>6. ASSUME NEW l \in Learner, AppStep(l)
      PROVE  StopInv'
  <2>1. call' = call /\ leftover' = leftover
    BY <1>6 DEF AppStep, AppBuilds, Ack, AckBinds, Poll
  <2>2. CASE AppBuilds(l)
    BY <1>n, <1>q, <2>1, <2>2 DEF AppBuilds
  <2>3. CASE Ack(l) \/ AckBinds(l) \/ \E t \in Tenant : Poll(l, t)
    BY <1>q, <2>1, <2>3 DEF Ack, AckBinds, Poll
  <2> QED BY <1>6, <2>2, <2>3 DEF AppStep
<1>7. CASE LiveRestart
  <2>1. outages' # 0 /\ LeftWereBuilt'
    BY <1>0, <1>7 DEF LiveRestart, LeftWereBuilt
  <2> QED BY <2>1 DEF StopInv, StopIsDue
<1>8. CASE UNCHANGED liveVars
  BY <1>q, <1>8 DEF liveVars
<1> QED BY <1>1, <1>2, <1>3, <1>4, <1>5, <1>6, <1>7, <1>8 DEF LiveNext

(* Until there is a restart, or an export, a stop or a provision that fails, *)
(* the environments that were left at the end and are up have a call under  *)
(* way that is to stop them: so the end is missed by nothing else, whoever  *)
(* calls meanwhile.                                                         *)
THEOREM StopStaysDue == LiveSpec => []StopIsDue
<1>1. LiveTypeOK /\ StopInv /\ [LiveNext]_liveVars => StopInv'
  BY StepStop, LiveTypesTogether
<1>2. StopInv => StopIsDue
  BY DEF StopInv
<1> QED BY <1>1, <1>2, InitStop, LiveTypeCorrect, PTL DEF LiveSpec

-----------------------------------------------------------------------------
(* The request of a provision-all comes before anybody is unsettled.        *)

RequestFirst ==
  /\ \A c \in Call : call[c].step = "unsettle" => requested
  /\ wanted # {} => requested

(* Whom it set out to serve, and nobody has settled, finds the request.     *)
AskedIsPending ==
  \A l \in wanted \cap roster : state \in Live /\ l \notin provdone => RequestPending(l)

LEMMA StepRequest == RequestFirst /\ LiveTypes /\ [LiveNext]_liveVars => RequestFirst'
<1> SUFFICES ASSUME RequestFirst, LiveTypes, [LiveNext]_liveVars PROVE RequestFirst'
  OBVIOUS
<1>0. DoingTypes
  BY DEF LiveTypes
<1> USE DEF hashVars, historyVars, boundVars
<1>1. ASSUME NEW c \in Call, NEW rec, call' = [call EXCEPT ![c] = rec], rec.step # "unsettle",
             wanted' = wanted, requested => requested'
      PROVE  RequestFirst'
  BY <1>0, <1>1 DEF RequestFirst, DoingTypes
<1>2. ASSUME NEW c \in Call, CallBegins(c)
      PROVE  RequestFirst'
  <2>1. UNCHANGED <<requested, wanted>>
    BY <1>2 DEF CallBegins, Begin, BeginMove, BeginUpdate, BeginProvisionAll, BeginTerminate,
                BeginReprovision, BeginJoin, BeginCode, BeginBind
  <2>2. ASSUME NEW op, NEW step, NEW who, NEW where, Begin(c, op, step, who, where),
               step # "unsettle"
        PROVE  RequestFirst'
    <3>1. call' = [call EXCEPT ![c] =
                     [NoCall EXCEPT !.op = op, !.step = step, !.who = who, !.where = where]]
      BY <2>2 DEF Begin
    <3>2. [NoCall EXCEPT !.op = op, !.step = step, !.who = who, !.where = where].step = step
      BY DEF NoCall
    <3> QED BY <1>1, <2>1, <2>2, <3>1, <3>2
  <2>3. CASE BeginProvisionAll(c)
    <3>1. PICK mine : call' = [call EXCEPT ![c] = [NoCall EXCEPT
            !.op = "provision-all", !.step = "intent", !.todo = roster, !.mine = mine]]
      BY <2>3 DEF BeginProvisionAll
    <3>2. [NoCall EXCEPT !.op = "provision-all", !.step = "intent", !.todo = roster,
                         !.mine = mine].step = "intent"
      BY DEF NoCall
    <3> QED BY <1>1, <2>1, <3>1, <3>2
  <2> QED BY <1>2, <2>2, <2>3
          DEF CallBegins, BeginMove, BeginUpdate, BeginTerminate, BeginReprovision, BeginJoin,
              BeginCode, BeginBind
<1>3. ASSUME NEW c \in Call, CallStep(c)
      PROVE  RequestFirst'
  <2>1. CASE Intend(c)
    BY <1>0, <2>1 DEF Intend, RequestFirst
  <2>2. CASE Unsettle(c)
    <3>1. requested /\ requested' = requested
      BY <2>2 DEF Unsettle, RequestFirst, Is
    <3> QED BY <3>1 DEF RequestFirst
  <2>3. ASSUME NEW s, Goes(c, s) \/ Answers(c), s # "unsettle", wanted' = wanted,
               requested => requested'
        PROVE  RequestFirst'
    <3>1. \A d \in Call : call'[d].step = "unsettle" => call[d].step = "unsettle"
      <4>1. CASE Goes(c, s)
        BY <1>0, <2>3, <4>1, CallFrame
      <4>2. CASE Answers(c)
        BY <1>0, <4>2 DEF Answers, NoCall, DoingTypes
      <4> QED BY <2>3, <4>1, <4>2
    <3> QED BY <2>3, <3>1 DEF RequestFirst
  <2>4. CASE WriteState(c) \/ Export(c) \/ Stop(c) \/ Expire(c) \/ DeleteOthers(c)
             \/ WriteRoster(c) \/ Attend(c)
    BY <2>3, <2>4 DEF WriteState, Export, Stop, Expire, DeleteOthers, WriteRoster, Attend
  <2>5. CASE WriteBinding(c) \/ Settle(c) \/ ProvidedAll(c) \/ Kill(c) \/ Rebuild(c)
    <3>1. \E s \in {"targets", "look", "settle"} : Goes(c, s) \/ Answers(c)
      BY <2>5 DEF WriteBinding, Settle, ProvidedAll, Kill, Rebuild
    <3>2. wanted' = wanted /\ requested' = requested
      BY <2>5 DEF WriteBinding, Settle, ProvidedAll, Kill, Rebuild
    <3> QED BY <2>3, <3>1, <3>2
  <2>6. CASE Look(c)
    BY <2>3, <2>6 DEF Look
  <2>7. CASE ReadBinding(c)
    BY <1>0, <2>7 DEF ReadBinding, RequestFirst, DoingTypes, CallType
  <2>8. ASSUME NEW l \in Learner, Provide(c, l)
        PROVE  RequestFirst'
    BY <1>0, <2>8 DEF Provide, RequestFirst, DoingTypes, CallType, Is
  <2>9. CASE Rearm(c)
    <3>1. wanted' = wanted /\ requested' /\ Answers(c)
      BY <2>9 DEF Rearm
    <3> QED BY <2>3, <3>1
  <2> QED BY <1>3, <2>1, <2>2, <2>4, <2>5, <2>6, <2>7, <2>8, <2>9 DEF CallStep
<1>4. ASSUME NEW l \in Learner, AppStep(l)
      PROVE  RequestFirst'
  BY <1>4 DEF AppStep, AppBuilds, Ack, AckBinds, Poll, RequestFirst
<1>5. CASE LiveRestart
  BY <1>5 DEF LiveRestart, RequestFirst, NoCall
<1>6. CASE UNCHANGED liveVars
  BY <1>6 DEF liveVars, RequestFirst
<1> QED BY <1>2, <1>3, <1>4, <1>5, <1>6 DEF LiveNext

(* Wherever a provision-all dies, the learners it had unsettled find its    *)
(* request in what their apps poll, as long as they are on the roster of a  *)
(* workshop that lives.                                                     *)
THEOREM AskedStaysPending == LiveSpec => []AskedIsPending
<1>1. LiveInit => RequestFirst
  BY DEF LiveInit, RequestFirst, NoCall
<1>2. LiveTypeOK /\ RequestFirst /\ [LiveNext]_liveVars => RequestFirst'
  BY StepRequest, LiveTypesTogether
<1>3. RequestFirst => AskedIsPending
  BY DEF RequestFirst, AskedIsPending, RequestPending
<1> QED BY <1>1, <1>2, <1>3, LiveTypeCorrect, PTL DEF LiveSpec

-----------------------------------------------------------------------------
(* The two components together.  A behaviour of the control plane is one of *)
(* either: of the other's steps it takes none, or rests.                    *)

LEMMA StepOfBoth ==
  [Next]_vars => [ProvisioningNext]_provisioningVars /\ [LiveNext]_liveVars
BY DEF Next, OfProvisioning, OfLive, vars

(* The composition implements each half's specification.                    *)
THEOREM ControlPlaneOfBoth == Spec => ProvisioningSpec /\ LiveSpec
<1>1. Init => ProvisioningInit /\ LiveInit
  BY DEF Init
<1> QED BY <1>1, StepOfBoth, PTL DEF Spec, ProvisioningSpec, LiveSpec

(* Every variable of the control plane keeps its type.                      *)
THEOREM ControlPlaneTypeOK == Spec => []TypeOK
<1>1. ProvisioningTypeOK /\ LiveTypeOK => TypeOK
  BY DEF TypeOK
<1> QED BY <1>1, ControlPlaneOfBoth, ProvisioningTypeCorrect, LiveTypeCorrect, PTL

(* What is proved of the provision path holds of the control plane: the     *)
(* order of arrival, the pace, the sweep, and the life of each request.     *)
THEOREM ControlPlaneProvisions ==
  Spec => []NoOvertaking /\ []PaceBound /\ []SweepIsThorough /\ LifeKept
BY ControlPlaneOfBoth, ArrivalOrderKept, PaceKept, SweepMissesNothing, RequestLifeKept, PTL

(* And so does what is proved of a workshop's calls: the stop that is due at *)
(* its end, and the request that outlives the call which made it.           *)
THEOREM ControlPlaneServes == Spec => []StopIsDue /\ []AskedIsPending
BY ControlPlaneOfBoth, StopStaysDue, AskedStaysPending, PTL
=============================================================================
