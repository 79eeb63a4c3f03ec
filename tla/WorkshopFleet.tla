---------------------------- MODULE WorkshopFleet ----------------------------
(***************************************************************************)
(* The control loop that buys a workshop its machines ahead of its start   *)
(* and gives them back after its end (ops-server/dashboard/                *)
(* workshop_fleet.py, fleet.py), with what it races: trainers who end,     *)
(* reschedule and delete workshops, machines that boot, agents that claim  *)
(* sessions, and a dashboard that crashes between two steps.               *)
(*                                                                         *)
(* The loop is one task; a step is one command to Redis or AWS, or a scan. *)
(* It acts on what it read when it came to a workshop, and on the time it  *)
(* read when the pass began.  Time is counted in coarse units.  A command  *)
(* that raises abandons the workshop until the next pass, as a crash does. *)
(* The machines' own shutdown timer, hours later, is left out: the loop is *)
(* to return them without it; so is a scale-down of named machines by      *)
(* hand.  Applying (CONTROL_LOOP_APPLY) is on.                             *)
(***************************************************************************)
EXTENDS Integers, FiniteSets

CONSTANTS
  Workshop,       \* workshop ids
  Machine,        \* instances AWS may hand out, each once
  Plan,           \* what a trainer books: [start, length, lead, hold, seats, roster]
  PrewarmLead, TeardownGrace, Hold, LeadCap, HoldCap,    \* the tunables, in units
  StandingMax,    \* most seats the standing box takes
  SeatsPerWorker, \* seats of a machine
  MaxScaleUp,     \* most machines one launch may ask for
  MaxTime,        \* bound: the clock
  MaxUpdates,     \* bound: changes of a booking
  MaxFaults,      \* bound: failed reads and AWS calls, and crashes
  Nobody          \* nothing

ASSUME FleetAssumption ==
  /\ IsFiniteSet(Workshop) /\ IsFiniteSet(Machine)
  /\ Nobody \notin Workshop \cup Machine
  /\ "unborn" \notin Workshop /\ "dead" \notin Workshop
  /\ Plan # {}
  /\ \A p \in Plan : {p.start, p.length, p.lead, p.hold, p.seats, p.roster} \subseteq Nat
  /\ {PrewarmLead, TeardownGrace, Hold, LeadCap, HoldCap} \subseteq Nat
  /\ {StandingMax, MaxTime, MaxUpdates, MaxFaults} \subseteq Nat
  /\ SeatsPerWorker \in Nat \ {0} /\ MaxScaleUp \in Nat \ {0}

VARIABLES
  clock,
  booking,      \* live:session:{ws}: what is booked,
  isOver,       \* the workshops a trainer ended,
  exists,       \* the hashes that exist,
  indexed,      \* live:sessions:index
  fleetState,   \* workshop:fleet: "none", "warming", "ready", "draining", "done"
  standing,     \* the records of the standing lane
  instances,    \* the machines a record names
  deferral,     \* deferred_since: "no", "waiting", "expired"
  binding,      \* workshop:pools: "none", "standing", "own"
  ec2,          \* per machine: "unborn", the workshop it is tagged with, "dead"
  registered,   \* the machines with a worker:{id} hash
  cordoned,     \* those with draining=1
  sess,         \* a learner's session on a workshop's own machines
  host,         \* the machine it runs on
  at,           \* where the loop is; see LoopSteps
  tickNow,      \* the pass's now
  indexSeen, indexOk,   \* its reading of the index
  todo,         \* workshops it has still to visit
  cur,          \* the one it is at
  seats,        \* the seats it plans for there
  batch,        \* machines still to launch, and those launched
  poolWorkers,  \* workers found before the cordon
  found,        \* machines to terminate
  blind,        \* history: workshops whose last listing or termination failed
  finished,     \* history: whether cur was over when the loop came to it
  updates, faults

fleetWorld    == <<clock, booking, isOver, exists, indexed>>
fleetRecord   == <<fleetState, standing, instances, deferral>>
fleetMachines == <<ec2, registered, cordoned>>
fleetSessions == <<sess, host>>
fleetLocals   == <<tickNow, indexSeen, indexOk, cur, seats, batch, poolWorkers, found>>
fleetLoop     == <<at, todo, fleetLocals>>
fleetHistory  == <<blind, finished>>
fleetVars == <<fleetWorld, fleetRecord, binding, fleetMachines, fleetSessions,
               fleetLoop, fleetHistory, updates, faults>>

SessionStates == {"none", "queued", "running", "asked"}

LoopSteps == {"idle", "index", "orphans", "provision", "saveStanding", "saveWarming",
              "launch", "teardown", "unbind", "cordon", "stop",
              "list", "busy", "terminate", "forget", "finish"}

-----------------------------------------------------------------------------
(* Pure decisions. *)

Larger(a, b) == IF a > b THEN a ELSE b
Smaller(a, b) == IF a < b THEN a ELSE b

Clamped(n, cap, default) == IF n = 0 THEN default ELSE Smaller(n, cap)

LeadOf(p) == Clamped(p.lead, LeadCap, PrewarmLead)
HoldOf(p) == Clamped(p.hold, HoldCap, Hold)
PrewarmAt(p) == p.start - LeadOf(p)
WorkshopEnd(p) == p.start + p.length
(* Mutant: the hold is no floor. *)
TeardownAt_NoFloor(p) == WorkshopEnd(p) + TeardownGrace

TeardownAt(p) == Larger(WorkshopEnd(p) + TeardownGrace, p.start + HoldOf(p))

DueForTeardown(p, ended, t) == ended \/ t >= TeardownAt(p)
DueForPrewarm(p, ended, t) ==
  ~ended /\ t >= PrewarmAt(p) /\ ~DueForTeardown(p, ended, t)

(* Mutant: a fleet that has begun to drain is not visited again. *)
Teardownable_Once == {"warming", "ready"}

Prewarmable == {"none", "done"}
Teardownable == {"warming", "ready", "draining"}

ShouldPrewarm(state, p, ended, t) == state \in Prewarmable /\ DueForPrewarm(p, ended, t)
ShouldTeardown(state, p, ended, t) == state \in Teardownable /\ DueForTeardown(p, ended, t)

PlannedSeats(p) == (IF p.seats > 0 THEN p.seats ELSE p.roster) + 1

NeedsBiggerFleet(state, isStanding, n) ==
  state = "ready" /\ isStanding /\ n > StandingMax

OrphanCandidates(fleets, index, ok) == IF ok THEN fleets \ index ELSE {}

IsOrphaned(state, there) == there = "no" /\ state \notin {"none", "done"}

(* Seats over seats per machine, rounded up. *)
WorkersFor(n) == (n + SeatsPerWorker - 1) \div SeatsPerWorker

-----------------------------------------------------------------------------
TaggedWith(w) == {m \in Machine : ec2[m] = w}
PoolWorkerIds(w) == registered \cap TaggedWith(w)
Hosted(m) == {w \in Workshop : host[w] = m /\ sess[w] \in {"running", "asked"}}
(* What _busy_pool_workers may answer: it goes by each worker's last        *)
(* heartbeat, which lags behind its host and may stay wrong, and skips the  *)
(* records it cannot read.                                                  *)
BusyPoolWorkers(w) == SUBSET PoolWorkerIds(w)

FleetInit ==
  /\ clock = 0 /\ booking \in [Workshop -> Plan] /\ isOver = {}
  /\ exists = Workshop /\ indexed = Workshop
  /\ fleetState = [w \in Workshop |-> "none"] /\ standing = {}
  /\ instances = [w \in Workshop |-> {}] /\ deferral = [w \in Workshop |-> "no"]
  /\ binding = [w \in Workshop |-> "none"]
  /\ ec2 = [m \in Machine |-> "unborn"] /\ registered = {} /\ cordoned = {}
  /\ sess = [w \in Workshop |-> "none"] /\ host = [w \in Workshop |-> Nobody]
  /\ at = "idle" /\ todo = {} /\ tickNow = 0 /\ indexSeen = {} /\ indexOk = TRUE
  /\ cur = Nobody /\ seats = 0
  /\ batch = [left |-> 0, got |-> {}] /\ poolWorkers = {} /\ found = {}
  /\ blind = {} /\ finished = FALSE /\ updates = 0 /\ faults = 0

Fault == faults < MaxFaults /\ faults' = faults + 1
NoFault == faults' = faults

SetState(w, s) == fleetState' = [fleetState EXCEPT ![w] = s]

(* The visit is over: its locals go out of scope, the loop goes back to    *)
(* the pass the visit belongs to, the index first and then the orphans.    *)
Forgotten ==
  /\ cur' = Nobody /\ seats' = 0 /\ batch' = [left |-> 0, got |-> {}]
  /\ poolWorkers' = {} /\ found' = {} /\ finished' = FALSE

Return == Forgotten /\ at' = IF cur \in indexSeen THEN "index" ELSE "orphans"

fleetVisit == <<cur, seats, batch, poolWorkers, found, finished>>
fleetRest  == <<fleetWorld, fleetMachines, fleetSessions, todo, tickNow, indexSeen,
                indexOk, updates>>

-----------------------------------------------------------------------------
(* tick: the pass over the index. *)

TickBegins ==
  /\ at = "idle" /\ at' = "index" /\ tickNow' = clock
  /\ \/ NoFault /\ indexOk' = TRUE /\ indexSeen' = indexed
     \/ Fault /\ indexOk' = FALSE /\ indexSeen' = {}
  /\ todo' = indexSeen'
  /\ UNCHANGED <<fleetWorld, fleetRecord, binding, fleetMachines, fleetSessions,
                 fleetVisit, blind, updates>>

(* The workshop is over for everyone, not only by the loop's clock: it is  *)
(* gone or ended, or past its booked end plus grace and past its hold.     *)
IsFinished(w) ==
  LET p == booking[w] IN
  \/ w \notin exists \/ w \in isOver
  \/ clock >= p.start + p.length + TeardownGrace /\ clock >= p.start + HoldOf(p)

(* A warming fleet is ready once one of its workers reports all its slots  *)
(* (warm), or when it took too long.                                       *)
RolledOver(w, warm, tooLong) ==
  IF fleetState[w] = "warming" /\ (tooLong \/ (warm /\ PoolWorkerIds(w) # {}))
    THEN "ready" ELSE fleetState[w]

Branch(w, s) ==
  LET p == booking[w] ended == w \in isOver IN
  IF ShouldPrewarm(s, p, ended, tickNow) THEN "provision"
  ELSE IF ShouldTeardown(s, p, ended, tickNow) THEN "teardown"
  ELSE IF NeedsBiggerFleet(s, w \in standing, PlannedSeats(p)) THEN "provision"
  ELSE "index"

Visit(w) ==
  /\ at = "index" /\ w \in todo /\ todo' = todo \ {w}
  /\ IF w \in exists
       THEN \E warm, tooLong \in BOOLEAN :
              LET s == RolledOver(w, warm, tooLong) IN
              /\ SetState(w, s) /\ at' = Branch(w, s)
              /\ IF at' = "index" THEN UNCHANGED <<cur, seats, finished>>
                 ELSE /\ cur' = w /\ finished' = IsFinished(w)
                      /\ seats' = IF at' = "provision" THEN PlannedSeats(booking[w]) ELSE 0
       ELSE UNCHANGED <<fleetState, at, cur, seats, finished>>
  /\ UNCHANGED <<fleetWorld, standing, instances, deferral, binding, fleetMachines,
                 fleetSessions, tickNow, indexSeen, indexOk, batch, poolWorkers,
                 found, blind, updates, faults>>

(* The pass over the fleet hash: records of workshops that are gone. *)
OrphanPass ==
  /\ at = "index" /\ todo = {} /\ at' = "orphans" /\ tickNow' = 0 /\ indexOk' = TRUE
  /\ \/ NoFault /\ todo' = OrphanCandidates({w \in Workshop : fleetState[w] # "none"},
                                            indexSeen, indexOk)
     \/ Fault /\ todo' = {}
  /\ UNCHANGED <<fleetWorld, fleetRecord, binding, fleetMachines, fleetSessions,
                 indexSeen, fleetVisit, blind, updates>>

CheckOrphan(w) ==
  /\ at = "orphans" /\ w \in todo /\ todo' = todo \ {w}
  /\ \E there \in {"yes", "no", "unknown"} :
       /\ IF there = "unknown" THEN Fault ELSE NoFault
       /\ there = "yes" => w \in exists
       /\ there = "no" => w \notin exists
       /\ IF IsOrphaned(fleetState[w], there)
            THEN at' = "teardown" /\ cur' = w /\ finished' = IsFinished(w)
            ELSE UNCHANGED <<at, cur, finished>>
  /\ UNCHANGED <<fleetWorld, fleetRecord, binding, fleetMachines, fleetSessions,
                 tickNow, indexSeen, indexOk, seats, batch, poolWorkers, found,
                 blind, updates>>

TickEnds ==
  /\ at = "orphans" /\ todo = {} /\ at' = "idle" /\ indexSeen' = {}
  /\ UNCHANGED <<fleetWorld, fleetRecord, binding, fleetMachines, fleetSessions,
                 todo, tickNow, indexOk, fleetVisit, blind, updates, faults>>

-----------------------------------------------------------------------------
(* provision_workshop_fleet. *)

(* Small enough for the standing box; or as many machines as it takes; or  *)
(* nothing, neither bound nor saved, where no machine takes the repository. *)
Bind ==
  /\ at = "provision"
  /\ \/ /\ seats <= StandingMax /\ at' = "saveStanding"
        /\ binding' = [binding EXCEPT ![cur] = "standing"] /\ UNCHANGED fleetVisit
     \/ /\ seats > StandingMax /\ at' = "saveWarming"
        /\ binding' = [binding EXCEPT ![cur] = "own"]
        /\ batch' = [left |-> WorkersFor(seats), got |-> {}]
        /\ UNCHANGED <<cur, seats, poolWorkers, found, finished>>
     \/ seats > StandingMax /\ Return /\ binding' = binding
  /\ UNCHANGED <<fleetRest, fleetRecord, blind, faults>>

(* A record is written whole: a new one names no machine, defers nothing. *)
SaveNew(s, isStanding) ==
  /\ SetState(cur, s)
  /\ standing' = IF isStanding THEN standing \cup {cur} ELSE standing \ {cur}
  /\ instances' = [instances EXCEPT ![cur] = {}]
  /\ deferral' = [deferral EXCEPT ![cur] = "no"]
  /\ UNCHANGED <<fleetRest, binding, faults>>

SaveStanding ==
  /\ at = "saveStanding" /\ SaveNew("ready", TRUE) /\ Return /\ UNCHANGED blind

SaveWarming ==
  /\ at = "saveWarming" /\ SaveNew("warming", FALSE) /\ at' = "launch"
  /\ UNCHANGED <<fleetVisit, blind>>

Unlaunched == {m \in Machine : ec2[m] = "unborn"}

(* scale_up, a batch at a time; the exception of a failed one leaves the   *)
(* earlier batches running and unnamed.                                    *)
LaunchBatch ==
  /\ at = "launch" /\ batch.left > 0
  /\ LET n == Smaller(batch.left, MaxScaleUp) IN
     \/ /\ NoFault
        /\ \E ms \in SUBSET Unlaunched :
             /\ Cardinality(ms) = n
             /\ ec2' = [m \in Machine |-> IF m \in ms THEN cur ELSE ec2[m]]
             /\ batch' = [left |-> batch.left - n, got |-> batch.got \cup ms]
     \/ /\ IF Cardinality(Unlaunched) < n THEN NoFault ELSE Fault
        /\ batch' = [left |-> 0, got |-> {}] /\ ec2' = ec2
  /\ UNCHANGED <<fleetWorld, fleetRecord, binding, registered, cordoned, fleetSessions,
                 at, todo, tickNow, indexSeen, indexOk, cur, seats, poolWorkers,
                 found, finished, blind, updates>>

SaveLaunch ==
  /\ at = "launch" /\ batch.left = 0 /\ Return
  /\ instances' = [instances EXCEPT ![cur] = batch.got]
  /\ UNCHANGED <<fleetRest, fleetState, standing, deferral, binding, blind, faults>>

-----------------------------------------------------------------------------
(* teardown_workshop_fleet. *)

SaveDraining ==
  /\ at = "teardown" /\ at' = "unbind" /\ SetState(cur, "draining")
  /\ UNCHANGED <<fleetRest, standing, instances, deferral, binding, fleetVisit, blind,
                 faults>>

Unbind ==
  /\ at = "unbind" /\ binding' = [binding EXCEPT ![cur] = "none"]
  /\ at' = IF cur \in standing THEN "stop" ELSE "cordon"
  /\ UNCHANGED <<fleetRest, fleetRecord, fleetVisit, blind, faults>>

(* Workers that cannot be read are skipped; one whose flag fails is as one *)
(* that an apply un-cordons at once.                                       *)
Cordon ==
  /\ at = "cordon" /\ at' = "stop"
  /\ \/ NoFault /\ poolWorkers' = PoolWorkerIds(cur)
     \/ Fault /\ poolWorkers' \in SUBSET PoolWorkerIds(cur)
  /\ cordoned' = cordoned \cup poolWorkers'
  /\ UNCHANGED <<fleetWorld, fleetRecord, binding, ec2, registered, fleetSessions, todo,
                 tickNow, indexSeen, indexOk, cur, seats, batch, found, finished,
                 blind, updates>>

(* A running session is flagged, a queued one leaves its queue.            *)
Stopped(s) ==
  CASE s = "running" -> "asked" [] s = "queued" -> "none" [] OTHER -> s

(* One that cannot be read or flagged goes on, and so does the caller. *)
TerminateSessions(w) ==
  \/ NoFault /\ sess' = [sess EXCEPT ![w] = Stopped(@)]
  \/ Fault /\ sess' = sess

StopSessions ==
  /\ at = "stop" /\ TerminateSessions(cur)
  /\ at' = IF cur \in standing THEN "finish" ELSE "list"
  /\ UNCHANGED <<fleetWorld, fleetRecord, binding, fleetMachines, host, todo,
                 tickNow, indexSeen, indexOk, fleetVisit, blind, updates>>

(* Mutant: what the record names, only. *)
ListInstances_Named ==
  /\ at = "list" /\ at' = "busy" /\ NoFault
  /\ found' = instances[cur] /\ blind' = blind \ {cur}
  /\ UNCHANGED <<fleetRest, fleetRecord, binding, cur, seats, batch, poolWorkers,
                 finished>>

(* What the record names, and what AWS says is tagged, if it answers. *)
ListInstances ==
  /\ at = "list" /\ at' = "busy"
  /\ \/ NoFault /\ found' = instances[cur] \cup TaggedWith(cur)
        /\ blind' = blind \ {cur}
     \/ Fault /\ found' = instances[cur] /\ blind' = blind \cup {cur}
  /\ UNCHANGED <<fleetRest, fleetRecord, binding, cur, seats, batch, poolWorkers,
                 finished>>

(* Workers that report sessions defer the end, until the deferral expires. *)
DeferOrGo ==
  /\ at = "busy"
  /\ \E busy \in BusyPoolWorkers(cur) :
       IF busy # {} /\ found # {} /\ deferral[cur] # "expired"
         THEN Return /\ deferral' = [deferral EXCEPT ![cur] = "waiting"]
         ELSE at' = "terminate" /\ UNCHANGED <<deferral, fleetVisit>>
  /\ UNCHANGED <<fleetRest, fleetState, standing, instances, binding, blind, faults>>

(* The sessions of a machine end with it. *)
ScaleDown ==
  /\ at = "terminate" /\ at' = "forget"
  /\ \/ /\ NoFault /\ blind' = blind
        /\ ec2' = [m \in Machine |-> IF m \in found THEN "dead" ELSE ec2[m]]
        /\ sess' = [w \in Workshop |-> IF \E m \in found : w \in Hosted(m)
                                         THEN "none" ELSE sess[w]]
        /\ host' = [w \in Workshop |-> IF host[w] \in found THEN Nobody ELSE host[w]]
     \/ /\ found # {} /\ Fault /\ blind' = blind \cup {cur}
        /\ UNCHANGED <<ec2, sess, host>>
  /\ UNCHANGED <<fleetWorld, fleetRecord, binding, registered, cordoned, todo,
                 tickNow, indexSeen, indexOk, fleetVisit, updates>>

ForgetWorkers ==
  /\ at = "forget" /\ at' = "finish"
  /\ \E dropped \in SUBSET poolWorkers :
       /\ IF dropped = poolWorkers THEN NoFault ELSE Fault
       /\ registered' = registered \ dropped /\ cordoned' = cordoned \ dropped
  /\ UNCHANGED <<fleetWorld, fleetRecord, binding, ec2, fleetSessions, todo, tickNow,
                 indexSeen, indexOk, fleetVisit, blind, updates>>

(* Mutant: a state that no branch of the loop knows. *)
SaveDone_Unknown ==
  /\ at = "finish" /\ Return /\ SetState(cur, "gone")
  /\ UNCHANGED <<fleetRest, standing, instances, deferral, binding, blind, faults>>

SaveDone ==
  /\ at = "finish" /\ Return /\ SetState(cur, "done")
  /\ UNCHANGED <<fleetRest, standing, instances, deferral, binding, blind, faults>>

(* The dashboard restarts: the pass is lost, what it wrote stays. *)
DashboardCrash ==
  /\ at # "idle" /\ Fault
  /\ at' = "idle" /\ todo' = {} /\ Forgotten
  /\ tickNow' = 0 /\ indexSeen' = {} /\ indexOk' = TRUE
  /\ UNCHANGED <<fleetWorld, fleetRecord, binding, fleetMachines, fleetSessions,
                 blind, updates>>

-----------------------------------------------------------------------------
(* Trainers, the clock, machines, agents and learners. *)

fleetRests == <<fleetRecord, fleetLoop, fleetHistory>>
fleetIdle == <<fleetRests, faults>>

Clock ==
  /\ clock < MaxTime /\ clock' = clock + 1
  /\ UNCHANGED <<booking, isOver, exists, indexed, binding, fleetMachines,
                 fleetSessions, fleetIdle, updates>>

(* live_end stops the sessions itself. *)
TrainerEnds(w) ==
  /\ w \in exists \ isOver /\ isOver' = isOver \cup {w} /\ TerminateSessions(w)
  /\ UNCHANGED <<clock, booking, exists, indexed, binding, fleetMachines, host,
                 fleetRests, updates>>

TrainerUpdates(w) ==
  /\ w \in exists \ isOver /\ updates < MaxUpdates /\ updates' = updates + 1
  /\ \E p \in Plan : booking' = [booking EXCEPT ![w] = p]
  /\ UNCHANGED <<clock, isOver, exists, indexed, binding, fleetMachines,
                 fleetSessions, fleetIdle>>

(* live_delete: the hash, then the index. *)
TrainerDeletes(w) ==
  /\ w \in exists /\ exists' = exists \ {w}
  /\ UNCHANGED <<clock, booking, isOver, indexed, binding, fleetMachines,
                 fleetSessions, fleetIdle, updates>>

Unindex(w) ==
  /\ w \in indexed \ exists /\ indexed' = indexed \ {w}
  /\ UNCHANGED <<clock, booking, isOver, exists, binding, fleetMachines,
                 fleetSessions, fleetIdle, updates>>

Register(m) ==
  /\ ec2[m] \in Workshop /\ m \notin registered /\ registered' = registered \cup {m}
  /\ UNCHANGED <<fleetWorld, binding, ec2, cordoned, fleetSessions, fleetIdle, updates>>

(* A fleet owner's apply reclaims draining workers of any pool, so it may  *)
(* un-cordon a workshop's machine that the loop is tearing down.           *)
ApplyUncordons(m) ==
  /\ m \in cordoned /\ cordoned' = cordoned \ {m}
  /\ UNCHANGED <<fleetWorld, binding, ec2, registered, fleetSessions, fleetIdle, updates>>

(* A job for the workshop's pool.  One routed to the standing or the daily *)
(* lane touches no machine of the loop's.                                  *)
EnqueueJob(w) ==
  /\ w \in exists \ isOver /\ sess[w] = "none" /\ binding[w] = "own"
  /\ sess' = [sess EXCEPT ![w] = "queued"]
  /\ UNCHANGED <<fleetWorld, binding, fleetMachines, host, fleetIdle, updates>>

(* An agent looks at draining before it takes a job. *)
ClaimJob(w, m) ==
  /\ sess[w] = "queued" /\ m \in PoolWorkerIds(w) \ cordoned
  /\ sess' = [sess EXCEPT ![w] = "running"] /\ host' = [host EXCEPT ![w] = m]
  /\ UNCHANGED <<fleetWorld, binding, fleetMachines, fleetIdle, updates>>

SessionEnds(w) ==
  /\ sess[w] \in {"running", "asked"} /\ sess' = [sess EXCEPT ![w] = "none"]
  /\ host' = [host EXCEPT ![w] = Nobody]
  /\ UNCHANGED <<fleetWorld, binding, fleetMachines, fleetIdle, updates>>

DeferralExpires(w) ==
  /\ deferral[w] = "waiting" /\ deferral' = [deferral EXCEPT ![w] = "expired"]
  /\ UNCHANGED <<fleetWorld, fleetState, standing, instances, binding, fleetMachines,
                 fleetSessions, fleetLoop, fleetHistory, updates, faults>>

-----------------------------------------------------------------------------
Provision == Bind \/ SaveStanding \/ SaveWarming \/ LaunchBatch \/ SaveLaunch
Teardown == \/ SaveDraining \/ Unbind \/ Cordon \/ StopSessions \/ ListInstances
            \/ DeferOrGo \/ ScaleDown \/ ForgetWorkers \/ SaveDone

FleetPass == \/ TickBegins \/ OrphanPass \/ TickEnds \/ Provision \/ Teardown
             \/ \E w \in Workshop : Visit(w) \/ CheckOrphan(w)

FleetWorldStep ==
  \/ Clock
  \/ \E w \in Workshop :
       \/ TrainerEnds(w) \/ TrainerUpdates(w) \/ TrainerDeletes(w) \/ Unindex(w)
       \/ EnqueueJob(w) \/ SessionEnds(w) \/ DeferralExpires(w)
       \/ \E m \in Machine : ClaimJob(w, m)
  \/ \E m \in Machine : Register(m) \/ ApplyUncordons(m)

FleetNext == FleetPass \/ DashboardCrash \/ FleetWorldStep

FleetSpec == FleetInit /\ [][FleetNext]_fleetVars

-----------------------------------------------------------------------------
(* Properties. *)

FleetTypeOK ==
  /\ clock \in 0 .. MaxTime /\ booking \in [Workshop -> Plan]
  /\ isOver \subseteq Workshop /\ exists \subseteq Workshop /\ indexed \subseteq Workshop
  /\ fleetState \in [Workshop -> {"none", "warming", "ready", "draining", "done"}]
  /\ standing \subseteq Workshop /\ instances \in [Workshop -> SUBSET Machine]
  /\ deferral \in [Workshop -> {"no", "waiting", "expired"}]
  /\ binding \in [Workshop -> {"none", "standing", "own"}]
  /\ ec2 \in [Machine -> Workshop \cup {"unborn", "dead"}]
  /\ registered \subseteq Machine /\ cordoned \subseteq Machine
  /\ sess \in [Workshop -> SessionStates]
  /\ host \in [Workshop -> Machine \cup {Nobody}]
  /\ at \in LoopSteps /\ tickNow \in 0 .. MaxTime
  /\ indexSeen \subseteq Workshop /\ indexOk \in BOOLEAN /\ todo \subseteq Workshop
  /\ cur \in Workshop \cup {Nobody} /\ seats \in Nat
  /\ batch \in [left : Nat, got : SUBSET Machine]
  /\ poolWorkers \subseteq Machine /\ found \subseteq Machine
  /\ blind \subseteq Workshop /\ finished \in BOOLEAN
  /\ updates \in 0 .. MaxUpdates /\ faults \in 0 .. MaxFaults

(* A fleet that is done has given everything back: whatever crashed while  *)
(* its machines were launched, recorded, drained or terminated, AWS runs   *)
(* none that is tagged with the workshop -- unless an AWS call of its last *)
(* teardown of own machines failed, which the code only logs.              *)
DoneHoldsNothing ==
  \A w \in Workshop \ blind : fleetState[w] = "done" => TaggedWith(w) = {}

(* The loop takes a machine only from a workshop that was gone, ended or    *)
(* past its whole window when it came to it: no failed read of the index, *)
(* no half-done delete and no short booking makes a running one look over. *)
OnlyTheFinishedAreTorn ==
  [][\A m \in Machine : ec2[m] \in Workshop /\ ec2'[m] = "dead" =>
       ec2[m] = cur /\ finished]_fleetVars

(* The machines of a workshop that is over come back, however often the    *)
(* dashboard crashes and whatever its sessions do -- unless it is booked   *)
(* anew, or AWS fails in its teardown.                                     *)
MachinesComeBack ==
  \A w \in Workshop : []<>(IsFinished(w) => TaggedWith(w) = {} \/ w \in blind)
=============================================================================
