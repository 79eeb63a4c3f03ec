----------------------------- MODULE DailyFleet -----------------------------
(***************************************************************************)
(* The machines of the self-service lane: the pass of the control loop that *)
(* brakes hot workers and buys more of them (ops-server/dashboard/          *)
(* workshop_fleet.py), the fleet owner's calls that launch, cordon, reap and *)
(* scale down (app.py, api_fleet_*; fleet_policy.py; fleet.py), and the     *)
(* agents that register, report and take sessions (worker-agent/agent.py).  *)
(*                                                                         *)
(* A step is one command to Redis or AWS, or one scan, read at one moment.  *)
(* All a pass decides on is read by then, but the seats that other lanes    *)
(* lend, which may be any number; so it decides there.  The owner makes one *)
(* call at a time, over shared workers only: that an apply also reclaims    *)
(* draining machines of a workshop is WorkshopFleet's ApplyUncordons.       *)
(* Left out: the advertised capacity that a shrink lowers, which no decision *)
(* here reads and the next heartbeat overwrites; pets that are started and  *)
(* stopped; the freeze, which only refuses an apply; forced scale-downs,    *)
(* which mean to end sessions; prices and regions.                          *)
(***************************************************************************)
EXTENDS Integers, FiniteSets, FiniteSetsExt

CONSTANTS
  Box,            \* machines AWS may hand out, each once
  Dud,            \* those whose cloud-init fails, or that are gone already
  Seats,          \* slots of a machine
  MinFree,        \* DAILY_MIN_FREE_SEATS
  MaxDaily,       \* DAILY_MAX_WORKERS
  PerCall, MaxFleet,   \* an apply's caps: 4 and 40
  Sustain,        \* PRESSURE_SUSTAIN_TICKS
  Loads,          \* what a host may measure: sets of "mem" and "cpu"
  MaxLent,        \* bound: seats other lanes lend
  MaxTarget,      \* bound: the seats an owner asks for
  MaxOwnerCalls,  \* bound: the owner's calls
  MaxBlips        \* bound: failed commands, lapsed heartbeats, restarts

ASSUME DailyAssumption ==
  /\ IsFiniteSet(Box) /\ Dud \subseteq Box
  /\ Seats \in Nat \ {0} /\ {MinFree, MaxDaily, Sustain, PerCall, MaxFleet} \subseteq Nat
  /\ {MaxLent, MaxTarget} \subseteq Nat
  /\ Loads \subseteq SUBSET {"mem", "cpu"} /\ {} \in Loads
  /\ MaxOwnerCalls \in Nat /\ MaxBlips \in Nat

VARIABLES
  box,        \* a machine's life; see BoxStates
  jobs,       \* the sessions it runs
  popping,    \* its consumer: "no", or waits in BLPOP after a look at the flags
  heeds,      \* the flags as it last read them
  hash,       \* worker:{id}: "none", "bare" (no heartbeat in it), "stale", "fresh"
  pub,        \* what the heartbeat wrote there
  cordon,     \* draining=1 in it
  brake,      \* admission_brake: "unset", "on", "off"
  inflight,   \* fleet:inflight:{id}
  pressure,   \* fleet:pressure, up to Sustain
  pass,       \* the control loop
  owner,      \* the owner's call
  bitten,     \* history: jobs taken since the cordon was set
  ownerCalls, blips

boxVars    == <<box, jobs>>
agentVars  == <<popping, heeds>>
recordVars == <<hash, pub, cordon, brake, bitten>>
dailyVars == <<boxVars, agentVars, recordVars, inflight, pressure, pass, owner,
               ownerCalls, blips>>

BoxStates == {"unborn", "booting", "warming", "up", "dying", "dead"}
Running == {b \in Box : box[b] \in {"warming", "up", "dying"}}

NoReport == [status |-> "none", ready |-> 0, active |-> 0, load |-> {}]
Warming == [NoReport EXCEPT !.status = "warming"]
Idle == [NoReport EXCEPT !.status = "ready", !.ready = Seats]
FreeOf(b) == pub[b].ready - pub[b].active

Calm == [b \in Box |-> 0]
Asleep == [step |-> "idle", ticks |-> Calm, brake |-> {}, unbrake |-> {}, buy |-> FALSE]
NoOwner == [step |-> "idle", todo |-> {}, after |-> {}, launch |-> 0]

(* Workers that have been up for a while, some just cordoned, and machines  *)
(* that were terminated and have left their records.                       *)
DailyInit ==
  /\ box \in [Box -> {"unborn", "up", "dead"}]
  /\ \A b \in Box : box[b] = "up" => b \notin Dud
  /\ \A b \in Box : box[b] = "dead" => b \in Dud
  /\ jobs = [b \in Box |-> 0]
  /\ popping = [b \in Box |-> "no"] /\ heeds = [b \in Box |-> "neither"]
  /\ hash = [b \in Box |-> IF box[b] = "unborn" THEN "none" ELSE "fresh"]
  /\ pub = [b \in Box |-> IF box[b] = "unborn" THEN NoReport ELSE Idle]
  /\ cordon \in [Box -> BOOLEAN] /\ \A b \in Box : cordon[b] => box[b] = "up"
  /\ brake = [b \in Box |-> "unset"] /\ inflight = {}
  /\ pressure = Calm /\ pass = Asleep /\ owner = NoOwner
  /\ bitten = [b \in Box |-> 0] /\ ownerCalls = 0 /\ blips = 0

Blip == blips < MaxBlips /\ blips' = blips + 1
NoBlip == blips' = blips

-----------------------------------------------------------------------------
(* worker:{id}. *)

(* HSET of flags, on a hash that may be gone by now. *)
Touched(b) == IF hash[b] = "none" THEN "bare" ELSE hash[b]
SetCordon(bs, v) ==
  /\ cordon' = [b \in Box |-> IF b \in bs THEN v ELSE cordon[b]]
  /\ hash' = [b \in Box |-> IF b \in bs THEN Touched(b) ELSE hash[b]]
  /\ bitten' = [b \in Box |-> IF b \in bs /\ (~v \/ ~cordon[b]) THEN 0 ELSE bitten[b]]
  /\ UNCHANGED <<pub, brake>>
SetBrake(b, v) ==
  /\ brake' = [brake EXCEPT ![b] = v] /\ hash' = [hash EXCEPT ![b] = Touched(b)]
  /\ UNCHANGED <<pub, cordon, bitten>>

(* It is deleted, or expires. *)
Erased(b) ==
  /\ hash' = [hash EXCEPT ![b] = "none"] /\ pub' = [pub EXCEPT ![b] = NoReport]
  /\ cordon' = [cordon EXCEPT ![b] = FALSE] /\ brake' = [brake EXCEPT ![b] = "unset"]
  /\ bitten' = [bitten EXCEPT ![b] = 0]

(* normalize_worker: a record without a heartbeat in it is not stale. *)
Known == {b \in Box : hash[b] # "none"}
NotStale == {b \in Known : hash[b] # "stale"}

-----------------------------------------------------------------------------
(* The agents. *)

(* _register names the cordon, but neither the brake nor what was measured. *)
Registers(b) ==
  /\ box[b] = "booting" /\ b \notin Dud /\ box' = [box EXCEPT ![b] = "warming"]
  /\ hash' = [hash EXCEPT ![b] = "fresh"]
  /\ pub' = [pub EXCEPT ![b] = [Warming EXCEPT !.load = pub[b].load]]
  /\ cordon' = [cordon EXCEPT ![b] = FALSE] /\ bitten' = [bitten EXCEPT ![b] = 0]
  /\ UNCHANGED <<jobs, agentVars, brake, inflight, pressure, pass, owner,
                 ownerCalls, blips>>

Warms(b) ==
  /\ box[b] = "warming" /\ box' = [box EXCEPT ![b] = "up"]
  /\ UNCHANGED <<jobs, agentVars, recordVars, inflight, pressure, pass, owner,
                 ownerCalls, blips>>

Report(b, l) ==
  LET ready == IF box[b] = "warming" THEN 0 ELSE Seats
      status == IF heeds[b] = "cordon" THEN "draining"
                ELSE IF box[b] = "warming" THEN "warming"
                ELSE IF jobs[b] >= ready THEN "busy" ELSE "ready"
  IN [status |-> status, ready |-> ready, active |-> jobs[b], load |-> l]

Heartbeat(b) ==
  /\ b \in Running
  /\ \E l \in Loads : pub' = [pub EXCEPT ![b] = Report(b, l)]
  /\ hash' = [hash EXCEPT ![b] = "fresh"]
  /\ UNCHANGED <<boxVars, agentVars, cordon, brake, bitten, inflight, pressure, pass,
                 owner, ownerCalls, blips>>

(* Mutant: a brake that was taken off answers for the cordon too. *)
Looks_OffIsOff(b) ==
  /\ box[b] \in {"up", "dying"} /\ popping[b] = "no" /\ jobs[b] < Seats
  /\ LET flag == IF brake[b] = "off" THEN "neither"
                 ELSE IF cordon[b] THEN "cordon"
                 ELSE IF brake[b] = "on" THEN "brake" ELSE "neither" IN
     /\ heeds' = [heeds EXCEPT ![b] = flag]
     /\ popping' = [popping EXCEPT ![b] = IF flag = "neither" THEN "yes" ELSE "no"]
  /\ UNCHANGED <<boxVars, recordVars, inflight, pressure, pass, owner, ownerCalls, blips>>

(* _refresh_draining, once per turn of the consumer, when it has a slot. *)
Looks(b) ==
  /\ box[b] \in {"up", "dying"} /\ popping[b] = "no" /\ jobs[b] < Seats
  /\ LET flag == IF cordon[b] THEN "cordon" ELSE IF brake[b] = "on" THEN "brake" ELSE "neither" IN
     /\ heeds' = [heeds EXCEPT ![b] = flag]
     /\ popping' = [popping EXCEPT ![b] = IF flag = "neither" THEN "yes" ELSE "no"]
  /\ UNCHANGED <<boxVars, recordVars, inflight, pressure, pass, owner, ownerCalls, blips>>

(* Redis does not answer: it goes by what it read last. *)
LooksInVain(b) ==
  /\ box[b] \in {"up", "dying"} /\ popping[b] = "no" /\ jobs[b] < Seats
  /\ heeds[b] = "neither" /\ Blip /\ popping' = [popping EXCEPT ![b] = "blind"]
  /\ UNCHANGED <<boxVars, heeds, recordVars, inflight, pressure, pass, owner, ownerCalls>>

(* BLPOP: somebody's request for a session, or none for five seconds. *)
Claims(b) ==
  /\ popping[b] # "no" /\ popping' = [popping EXCEPT ![b] = "no"]
  /\ jobs' = [jobs EXCEPT ![b] = @ + 1]
  /\ bitten' = [bitten EXCEPT ![b] =
       IF cordon[b] /\ popping[b] = "yes" THEN @ + 1 ELSE @]
  /\ UNCHANGED <<box, heeds, hash, pub, cordon, brake, inflight, pressure, pass,
                 owner, ownerCalls, blips>>

FindsNone(b) ==
  /\ popping[b] # "no" /\ popping' = [popping EXCEPT ![b] = "no"]
  /\ UNCHANGED <<boxVars, heeds, recordVars, inflight, pressure, pass, owner, ownerCalls,
                 blips>>

JobEnds(b) ==
  /\ jobs[b] > 0 /\ jobs' = [jobs EXCEPT ![b] = @ - 1]
  /\ UNCHANGED <<box, agentVars, recordVars, inflight, pressure, pass, owner,
                 ownerCalls, blips>>

(* No heartbeat for 90 s, and then for REGISTRATION_TTL. *)
RecordAges(b) ==
  /\ IF b \in Running THEN Blip ELSE NoBlip
  /\ \/ /\ hash[b] = "fresh" /\ hash' = [hash EXCEPT ![b] = "stale"]
        /\ UNCHANGED <<pub, cordon, brake, bitten>>
     \/ hash[b] = "stale" /\ Erased(b)
  /\ UNCHANGED <<boxVars, agentVars, inflight, pressure, pass, owner, ownerCalls>>

AgentRestarts(b) ==
  /\ box[b] = "up" /\ Blip /\ box' = [box EXCEPT ![b] = "booting"]
  /\ jobs' = [jobs EXCEPT ![b] = 0] /\ popping' = [popping EXCEPT ![b] = "no"]
  /\ heeds' = [heeds EXCEPT ![b] = "neither"]
  /\ Erased(b) \/ UNCHANGED recordVars
  /\ UNCHANGED <<inflight, pressure, pass, owner, ownerCalls>>

(* A terminated machine shuts down; its agent may still delete its record. *)
Dies(b) ==
  /\ box[b] = "dying" /\ box' = [box EXCEPT ![b] = "dead"]
  /\ jobs' = [jobs EXCEPT ![b] = 0] /\ popping' = [popping EXCEPT ![b] = "no"]
  /\ heeds' = [heeds EXCEPT ![b] = "neither"]
  /\ Erased(b) \/ UNCHANGED recordVars
  /\ UNCHANGED <<inflight, pressure, pass, owner, ownerCalls, blips>>

-----------------------------------------------------------------------------
(* AWS. *)
Unborn == {b \in Box : box[b] = "unborn"}
Launched(bs) == box' = [b \in Box |-> IF b \in bs THEN "booting" ELSE box[b]]
Terminated(bs) ==
  box' = [b \in Box |-> IF b \in bs THEN
                          IF b \in Running THEN "dying"
                          ELSE IF box[b] = "booting" THEN "dead" ELSE box[b]
                        ELSE box[b]]

-----------------------------------------------------------------------------
(* The pass over the daily pool, at the end of tick. *)

PassAt(step) == pass.step = step
Hot(b) == pub[b].load # {}

(* update_pressure: who is not looked at keeps the count. *)
Counted(b) == IF b \notin NotStale THEN pressure[b]
              ELSE IF Hot(b) THEN Min({pressure[b] + 1, Sustain}) ELSE 0

Sustained(b) == b \in NotStale /\ Counted(b) >= Sustain

(* daily_scale_decision, for this many seats lent. *)
FreeSeats(lent) ==
  lent + MapThenSumSet(FreeOf, {b \in NotStale : pub[b].status = "ready" /\ ~cordon[b]})
ComingSeats == Seats * Cardinality({b \in NotStale : pub[b].status = "warming" /\ ~cordon[b]})
BuysOne(lent) ==
  /\ NotStale # {} /\ Cardinality(NotStale) < MaxDaily
  /\ IF FreeSeats(lent) < MinFree THEN FreeSeats(lent) + ComingSeats < MinFree
     ELSE \E b \in NotStale : Sustained(b) /\ "mem" \in pub[b].load

(* Mutant: only the brakes of workers that were hot a pass ago are lifted. *)
PassReads_Edge ==
  /\ PassAt("idle") /\ pressure' = Calm
  /\ LET hot == {b \in NotStale : Sustained(b) /\ "cpu" \in pub[b].load} IN
     \E lent \in 0 .. MaxLent :
       pass' = [step |-> "keep", ticks |-> [b \in Box |-> Counted(b)], brake |-> hot,
                unbrake |-> {b \in NotStale \ hot : brake[b] # "unset" /\ pressure[b] > 0},
                buy |-> BuysOne(lent)]
  /\ UNCHANGED <<boxVars, agentVars, recordVars, inflight, owner, ownerCalls, blips>>

(* The counts, which nobody else reads, are deleted with it. *)
PassReads ==
  /\ PassAt("idle") /\ pressure' = Calm
  /\ LET hot == {b \in NotStale : Sustained(b) /\ "cpu" \in pub[b].load} IN
     \E lent \in 0 .. MaxLent :
       pass' = [step |-> "keep", ticks |-> [b \in Box |-> Counted(b)], brake |-> hot,
                unbrake |-> {b \in NotStale \ hot : brake[b] # "unset"},
                buy |-> BuysOne(lent)]
  /\ UNCHANGED <<boxVars, agentVars, recordVars, inflight, owner, ownerCalls, blips>>

(* They are written anew. *)
PassKeeps ==
  /\ PassAt("keep") /\ pass' = [pass EXCEPT !.step = "act", !.ticks = Calm]
  /\ pressure' = pass.ticks
  /\ UNCHANGED <<boxVars, agentVars, recordVars, inflight, owner, ownerCalls, blips>>

PassBrakes(b) ==
  /\ PassAt("act") /\ b \in pass.brake /\ pass' = [pass EXCEPT !.brake = @ \ {b}]
  /\ \/ SetBrake(b, "on") /\ NoBlip
     \/ UNCHANGED recordVars /\ Blip
  /\ UNCHANGED <<boxVars, agentVars, inflight, pressure, owner, ownerCalls>>

PassUnbrakes(b) ==
  /\ PassAt("act") /\ pass.brake = {} /\ b \in pass.unbrake
  /\ pass' = [pass EXCEPT !.unbrake = @ \ {b}] /\ SetBrake(b, "off")
  /\ UNCHANGED <<boxVars, agentVars, inflight, pressure, owner, ownerCalls, blips>>

PassBuys ==
  /\ PassAt("act") /\ pass.brake = {} /\ pass.unbrake = {} /\ pass' = Asleep
  /\ IF pass.buy /\ Unborn # {}
       THEN \/ NoBlip /\ \E b \in Unborn : Launched({b})
            \/ Blip /\ box' = box
       ELSE NoBlip /\ box' = box
  /\ UNCHANGED <<jobs, agentVars, recordVars, inflight, pressure, owner, ownerCalls>>

(* A command raises, or the dashboard restarts: the rest of the pass is lost. *)
PassFails ==
  /\ ~PassAt("idle") /\ Blip /\ pass' = Asleep
  /\ UNCHANGED <<boxVars, agentVars, recordVars, inflight, pressure, owner, ownerCalls>>

PassStep ==
  \/ PassReads \/ PassKeeps \/ PassBuys
  \/ \E b \in Box : PassBrakes(b) \/ PassUnbrakes(b)

-----------------------------------------------------------------------------
(* The owner's calls. *)

OwnerAt(step) == owner.step = step
OwnerDone == owner' = NoOwner
OwnerCalls(step, bs, then, n) ==
  /\ OwnerAt("idle") /\ ownerCalls < MaxOwnerCalls /\ ownerCalls' = ownerCalls + 1
  /\ owner' = [step |-> step, todo |-> bs, after |-> then, launch |-> n]
  /\ UNCHANGED <<boxVars, agentVars, recordVars, inflight, pressure, pass, blips>>

(* fleet_state: the seats there are, and those of launches noted. *)
EffectiveSeats ==
  MapThenSumSet(FreeOf, {b \in NotStale : ~cordon[b]}) + Seats * Cardinality(inflight)

(* plan_scale_up: the cordoned workers with most seats, until they suffice, *)
(* and machines for what is still short, as far as the caps allow.          *)
Cordoned == {b \in Known : cordon[b]}
SeatsOf(bs) == MapThenSumSet(FreeOf, bs)
Reclaimed(bs, deficit) ==
  /\ \A b \in bs, c \in Cordoned \ bs : FreeOf(b) >= FreeOf(c)
  /\ bs = Cordoned \/ SeatsOf(bs) >= deficit
  /\ bs # {} => \E b \in bs : SeatsOf(bs \ {b}) < deficit /\ \A c \in bs : FreeOf(b) <= FreeOf(c)
LaunchesFor(short) ==
  IF short <= 0 THEN 0
  ELSE Min({(short + Seats - 1) \div Seats, PerCall,
            Max({0, MaxFleet - Cardinality(Known) - Cardinality(inflight)})})

OwnerApplies ==
  \E target \in 1 .. MaxTarget, bs \in SUBSET Cordoned, launches \in 0 .. PerCall :
    LET deficit == target - EffectiveSeats
        short == deficit - SeatsOf(bs)
    IN /\ deficit > 0 /\ Reclaimed(bs, deficit) /\ launches = LaunchesFor(short)
       /\ short > 0 => launches > 0
       /\ OwnerCalls("uncordon", bs, {}, launches)

OwnerUncordons(b) ==
  /\ OwnerAt("uncordon") /\ b \in owner.todo /\ SetCordon({b}, FALSE)
  /\ owner' = [owner EXCEPT !.todo = @ \ {b}]
  /\ UNCHANGED <<boxVars, agentVars, inflight, pressure, pass, ownerCalls, blips>>

(* One run-instances for all of them, which may fail. *)
OwnerLaunches ==
  /\ OwnerAt("uncordon") /\ owner.todo = {}
  /\ \/ \E bs \in SUBSET Unborn :
          /\ Cardinality(bs) = owner.launch /\ Launched(bs) /\ NoBlip
          /\ owner' = IF bs = {} THEN NoOwner ELSE [owner EXCEPT !.step = "note", !.todo = bs]
     \/ /\ owner.launch > 0 /\ OwnerDone /\ box' = box
        /\ IF owner.launch > Cardinality(Unborn) THEN NoBlip ELSE Blip
  /\ UNCHANGED <<jobs, agentVars, recordVars, inflight, pressure, pass, ownerCalls>>

OwnerNotes(b) ==
  /\ OwnerAt("note") /\ b \in owner.todo /\ inflight' = inflight \cup {b}
  /\ owner' = IF owner.todo = {b} THEN NoOwner ELSE [owner EXCEPT !.todo = @ \ {b}]
  /\ UNCHANGED <<boxVars, agentVars, recordVars, pressure, pass, ownerCalls, blips>>

(* FLEET_INFLIGHT_TTL_S; to register does not remove it. *)
NoteExpires(b) ==
  /\ b \in inflight /\ inflight' = inflight \ {b}
  /\ UNCHANGED <<boxVars, agentVars, recordVars, pressure, pass, owner, ownerCalls, blips>>

(* plan_scale_down: warm workers that fit into the surplus, but for one; it *)
(* takes the emptiest first, here any of them.                              *)
OwnerCordons ==
  LET candidates == {b \in NotStale : ~cordon[b] /\ (pub[b].ready = Seats \/ hash[b] = "bare")}
      seats(b) == pub[b].ready
  IN \E target \in 0 .. MaxTarget, bs \in (SUBSET candidates) \ {{}} :
       /\ bs # candidates /\ MapThenSumSet(seats, bs) <= EffectiveSeats - target
       /\ OwnerCalls("mark", bs, {}, 0)

(* Scale-down by hand: those that report no session are cordoned, and then  *)
(* all are terminated -- unless one of them reports a session.              *)
OwnerChooses ==
  \E bs \in (SUBSET {b \in Box : box[b] # "unborn"}) \ {{}} :
    LET met == {b \in bs : box[b] # "dead" /\ hash[b] \in {"fresh", "stale"}}
        busy == {b \in met : pub[b].active > 0}
    IN OwnerCalls("mark", met \ busy, IF busy = {} THEN bs ELSE {}, 0)

OwnerMarks(b) ==
  /\ OwnerAt("mark") /\ b \in owner.todo /\ SetCordon({b}, TRUE)
  /\ owner' = [owner EXCEPT !.todo = @ \ {b}]
  /\ UNCHANGED <<boxVars, agentVars, inflight, pressure, pass, ownerCalls, blips>>

OwnerStops ==
  /\ OwnerAt("mark") /\ owner.todo = {} /\ OwnerDone
  /\ \/ Terminated(owner.after) /\ NoBlip
     \/ box' = box /\ Blip
  /\ UNCHANGED <<jobs, agentVars, recordVars, inflight, pressure, pass, ownerCalls>>

(* terminatable, and a host to find an instance by. *)
OwnerReaps ==
  LET bs == {b \in Cordoned : pub[b].active = 0 /\ hash[b] # "bare" /\ box[b] # "dead"} IN
  bs # {} /\ OwnerCalls("reap", bs, {}, 0)

OwnerKills(b) ==
  /\ OwnerAt("reap") /\ owner.after = {} /\ b \in owner.todo
  /\ \/ /\ Terminated({b}) /\ NoBlip
        /\ owner' = [owner EXCEPT !.todo = @ \ {b}, !.after = {b}]
     \/ /\ box' = box /\ Blip
        /\ owner' = [owner EXCEPT !.todo = @ \ {b}]
  /\ UNCHANGED <<jobs, agentVars, recordVars, inflight, pressure, pass, ownerCalls>>

OwnerErases(b) ==
  /\ OwnerAt("reap") /\ b \in owner.after /\ Erased(b)
  /\ owner' = [owner EXCEPT !.after = {}]
  /\ UNCHANGED <<boxVars, agentVars, inflight, pressure, pass, ownerCalls, blips>>

OwnerReaped ==
  /\ OwnerAt("reap") /\ owner.todo = {} /\ owner.after = {} /\ OwnerDone
  /\ UNCHANGED <<boxVars, agentVars, recordVars, inflight, pressure, pass, ownerCalls, blips>>

(* The dashboard restarts under the call. *)
OwnerLeaves ==
  /\ ~OwnerAt("idle") /\ Blip /\ OwnerDone
  /\ UNCHANGED <<boxVars, agentVars, recordVars, inflight, pressure, pass, ownerCalls>>

-----------------------------------------------------------------------------
AgentStep(b) ==
  \/ Registers(b) \/ Warms(b) \/ Heartbeat(b) \/ Looks(b) \/ LooksInVain(b)
  \/ Claims(b) \/ FindsNone(b) \/ JobEnds(b)
  \/ AgentRestarts(b) \/ Dies(b)

OwnerStep ==
  \/ OwnerApplies \/ OwnerCordons \/ OwnerChooses \/ OwnerReaps
  \/ OwnerLaunches \/ OwnerStops \/ OwnerReaped \/ OwnerLeaves
  \/ \E b \in Box : OwnerUncordons(b) \/ OwnerNotes(b) \/ OwnerMarks(b) \/ OwnerKills(b)
                    \/ OwnerErases(b)

DailyNext ==
  \/ PassStep \/ PassFails \/ OwnerStep
  \/ \E b \in Box : AgentStep(b) \/ RecordAges(b) \/ NoteExpires(b)

DailySpec == DailyInit /\ [][DailyNext]_dailyVars

-----------------------------------------------------------------------------
(* Properties. *)

DailyTypeOK ==
  /\ box \in [Box -> BoxStates] /\ jobs \in [Box -> 0 .. Seats]
  /\ popping \in [Box -> {"no", "yes", "blind"}]
  /\ heeds \in [Box -> {"neither", "brake", "cordon"}]
  /\ hash \in [Box -> {"none", "bare", "stale", "fresh"}]
  /\ pub \in [Box -> [status : {"none", "warming", "ready", "busy", "draining"},
                      ready : {0, Seats}, active : 0 .. Seats, load : Loads]]
  /\ cordon \in [Box -> BOOLEAN] /\ brake \in [Box -> {"unset", "on", "off"}]
  /\ inflight \subseteq Box /\ pressure \in [Box -> 0 .. Sustain]
  /\ pass \in [step : {"idle", "keep", "act"}, ticks : [Box -> 0 .. Sustain],
               brake : SUBSET Box, unbrake : SUBSET Box, buy : BOOLEAN]
  /\ owner \in [step : {"idle", "uncordon", "note", "mark", "reap"}, todo : SUBSET Box,
                after : SUBSET Box, launch : Nat]
  /\ bitten \in [Box -> Nat]
  /\ ownerCalls \in 0 .. MaxOwnerCalls /\ blips \in 0 .. MaxBlips

(* A cordon bites within one turn of the consumer: while Redis answers its  *)
(* looks, a worker takes at most the one job it was waiting for when the    *)
(* cordon was set -- whatever the brake, the heartbeat and other jobs do.   *)
CordonBites == \A b \in Box : bitten[b] <= 1

(* A brake comes off again: it is not on for good on a host that reports    *)
(* calm, whatever restarts, expires or fails between the passes.            *)
BrakeComesOff == \A b \in Box : []<>(pub[b].load = {} => brake[b] # "on")
=============================================================================
