----------------------------- MODULE FleetsProofs -----------------------------
(***************************************************************************)
(* Proofs about the two halves of the control loop and about both at once: *)
(* for every set of workshops and machines, every booking, every value of  *)
(* the tunables, and any number of changes, calls, failures and crashes.   *)
(***************************************************************************)
EXTENDS Fleets, FiniteSetTheorems, TLAPS

(***************************************************************************)
(* The workshops' own machines.                                            *)
(***************************************************************************)

Tearing == {"teardown", "unbind", "cordon", "stop", "list", "busy", "terminate",
            "forget", "finish"}
Visiting == Tearing \cup {"provision", "saveStanding", "saveWarming", "launch"}

LEMMA ClampedFacts ==
  ASSUME NEW n \in Nat, NEW cap \in Nat, NEW d \in Nat
  PROVE  Clamped(n, cap, d) \in Nat
BY DEF Clamped, Smaller

LEMMA BookingFacts ==
  ASSUME NEW p \in Plan
  PROVE  /\ p.start \in Nat /\ p.length \in Nat /\ p.seats \in Nat /\ p.roster \in Nat
         /\ HoldOf(p) \in Nat /\ PlannedSeats(p) \in Nat
         /\ TeardownAt(p) \in Nat /\ TeardownAt(p) >= p.start + p.length + TeardownGrace
         /\ TeardownAt(p) >= p.start + HoldOf(p)
<1>1. p.start \in Nat /\ p.length \in Nat /\ p.hold \in Nat /\ p.seats \in Nat /\ p.roster \in Nat
      /\ TeardownGrace \in Nat /\ Hold \in Nat /\ HoldCap \in Nat
  BY FleetAssumption
<1>2. HoldOf(p) \in Nat
  BY <1>1, ClampedFacts DEF HoldOf
<1>3. PlannedSeats(p) \in Nat
  BY <1>1 DEF PlannedSeats
<1> QED BY <1>1, <1>2, <1>3 DEF TeardownAt, Larger, WorkshopEnd

-----------------------------------------------------------------------------
(* Types, in the groups that the actions leave alone.                       *)

WorldTypes ==
  /\ clock \in 0 .. MaxTime /\ booking \in [Workshop -> Plan]
  /\ isOver \subseteq Workshop /\ exists \subseteq Workshop /\ indexed \subseteq Workshop
RecordTypes ==
  /\ fleetState \in [Workshop -> {"none", "warming", "ready", "draining", "done"}]
  /\ standing \subseteq Workshop /\ instances \in [Workshop -> SUBSET Machine]
  /\ deferral \in [Workshop -> {"no", "waiting", "expired"}]
  /\ binding \in [Workshop -> {"none", "standing", "own"}]
MachineTypes ==
  /\ ec2 \in [Machine -> Workshop \cup {"unborn", "dead"}]
  /\ registered \subseteq Machine /\ cordoned \subseteq Machine
  /\ sess \in [Workshop -> SessionStates] /\ host \in [Workshop -> Machine \cup {Nobody}]
PassTypes ==
  /\ tickNow \in 0 .. MaxTime /\ indexSeen \subseteq Workshop /\ indexOk \in BOOLEAN
  /\ todo \subseteq Workshop
VisitTypes ==
  /\ at \in LoopSteps
  /\ cur \in Workshop \cup {Nobody} /\ seats \in Nat
  /\ batch \in [left : Nat, got : SUBSET Machine]
  /\ poolWorkers \subseteq Machine /\ found \subseteq Machine /\ finished \in BOOLEAN
BoundTypes ==
  /\ blind \subseteq Workshop /\ updates \in 0 .. MaxUpdates /\ faults \in 0 .. MaxFaults

Types == /\ WorldTypes /\ RecordTypes /\ MachineTypes /\ PassTypes /\ VisitTypes /\ BoundTypes

LEMMA TypesTogether == (FleetTypeOK <=> Types) /\ (Types' => FleetTypeOK')
BY DEF FleetTypeOK, Types, WorldTypes, RecordTypes, MachineTypes, PassTypes, VisitTypes,
       BoundTypes

LEMMA InitTypes == FleetInit => Types
<1> SUFFICES ASSUME FleetInit PROVE Types
  OBVIOUS
<1>1. 0 \in 0 .. MaxTime /\ 0 \in 0 .. MaxUpdates /\ 0 \in 0 .. MaxFaults
  BY FleetAssumption
<1>2. WorldTypes /\ RecordTypes
  BY <1>1 DEF FleetInit, WorldTypes, RecordTypes
<1>3. MachineTypes
  BY DEF FleetInit, MachineTypes, SessionStates
<1>4. VisitTypes
  BY DEF FleetInit, VisitTypes, LoopSteps
<1>5. PassTypes /\ BoundTypes
  BY <1>1 DEF FleetInit, PassTypes, BoundTypes
<1> QED BY <1>2, <1>3, <1>4, <1>5 DEF Types

LEMMA FaultFacts ==
  ASSUME BoundTypes, Fault \/ NoFault PROVE faults' \in 0 .. MaxFaults
BY FleetAssumption DEF BoundTypes, Fault, NoFault

(* A visit that is over leaves nothing behind. *)
LEMMA ReturnFacts ==
  ASSUME Return \/ (Forgotten /\ at' = "idle") PROVE VisitTypes'
<1>1. /\ cur' = Nobody /\ seats' = 0 /\ batch' = [left |-> 0, got |-> {}]
      /\ poolWorkers' = {} /\ found' = {} /\ finished' = FALSE
  BY DEF Return, Forgotten
<1>2. at' \in LoopSteps
  BY DEF Return, LoopSteps
<1>3. batch' \in [left : Nat, got : SUBSET Machine]
  BY <1>1
<1> QED BY <1>1, <1>2, <1>3 DEF VisitTypes

LEMMA PassStepTypes ==
  ASSUME Types, \/ TickBegins \/ OrphanPass \/ TickEnds \/ DashboardCrash
                \/ \E w \in Workshop : Visit(w) \/ CheckOrphan(w)
  PROVE  Types'
<1> USE DEF Types, fleetWorld, fleetRecord, fleetMachines, fleetSessions, fleetVisit
<1>1. CASE TickBegins
  <2>1. faults' \in 0 .. MaxFaults
    BY <1>1, FaultFacts DEF TickBegins
  <2> QED BY <1>1, <2>1 DEF TickBegins, WorldTypes, RecordTypes, MachineTypes, PassTypes, VisitTypes,
             BoundTypes, LoopSteps
<1>2. CASE OrphanPass
  <2>1. faults' \in 0 .. MaxFaults
    BY <1>2, FaultFacts DEF OrphanPass
  <2>2. 0 \in 0 .. MaxTime
    BY FleetAssumption
  <2> QED BY <1>2, <2>1, <2>2 DEF OrphanPass, OrphanCandidates, WorldTypes, RecordTypes,
             MachineTypes, PassTypes, VisitTypes, BoundTypes, LoopSteps
<1>3. CASE TickEnds
  BY <1>3 DEF TickEnds, WorldTypes, RecordTypes, MachineTypes, PassTypes, VisitTypes,
     BoundTypes, LoopSteps
<1>4. CASE DashboardCrash
  <2>1. faults' \in 0 .. MaxFaults /\ VisitTypes'
    BY <1>4, FaultFacts, ReturnFacts DEF DashboardCrash
  <2>2. 0 \in 0 .. MaxTime
    BY FleetAssumption
  <2> QED BY <1>4, <2>1, <2>2 DEF DashboardCrash, WorldTypes, RecordTypes, MachineTypes, PassTypes,
             BoundTypes
<1>5. ASSUME NEW w \in Workshop, Visit(w) PROVE Types'
  <2>1. booking[w] \in Plan
    BY DEF WorldTypes
  <2>2. PlannedSeats(booking[w]) \in Nat
    BY <2>1, BookingFacts
  <2>3. UNCHANGED <<fleetWorld, standing, instances, deferral, binding, fleetMachines,
                    fleetSessions, tickNow, indexSeen, indexOk, batch, poolWorkers,
                    found, blind, updates, faults>> /\ todo' = todo \ {w}
    BY <1>5 DEF Visit
  <2>4. fleetState' \in [Workshop -> {"none", "warming", "ready", "draining", "done"}]
        /\ at' \in LoopSteps /\ cur' \in Workshop \cup {Nobody} /\ seats' \in Nat
        /\ finished' \in BOOLEAN
    <3>1. CASE w \notin exists
      BY <1>5, <3>1 DEF Visit, RecordTypes, VisitTypes
    <3>2. ASSUME w \in exists, NEW warm \in BOOLEAN, NEW tooLong \in BOOLEAN,
                 SetState(w, RolledOver(w, warm, tooLong)),
                 at' = Branch(w, RolledOver(w, warm, tooLong)),
                 IF at' = "index" THEN UNCHANGED <<cur, seats, finished>>
                 ELSE /\ cur' = w /\ finished' = IsFinished(w)
                      /\ seats' = IF at' = "provision" THEN PlannedSeats(booking[w]) ELSE 0
          PROVE  /\ fleetState' \in [Workshop -> {"none", "warming", "ready", "draining", "done"}]
                 /\ at' \in LoopSteps /\ cur' \in Workshop \cup {Nobody} /\ seats' \in Nat
                 /\ finished' \in BOOLEAN
      <4>1. RolledOver(w, warm, tooLong) \in {"none", "warming", "ready", "draining", "done"}
        BY DEF RolledOver, RecordTypes
      <4>2. fleetState' \in [Workshop -> {"none", "warming", "ready", "draining", "done"}]
        BY <3>2, <4>1 DEF SetState, RecordTypes
      <4>3. at' \in LoopSteps
        BY <3>2 DEF Branch, LoopSteps
      <4>4. IsFinished(w) \in BOOLEAN
        BY DEF IsFinished
      <4>5. cur' \in Workshop \cup {Nobody} /\ seats' \in Nat /\ finished' \in BOOLEAN
        BY <2>2, <3>2, <4>4 DEF VisitTypes
      <4> QED BY <4>2, <4>3, <4>5
    <3> QED BY <1>5, <3>1, <3>2 DEF Visit
  <2> QED BY <2>3, <2>4 DEF WorldTypes, RecordTypes, MachineTypes, PassTypes, VisitTypes, BoundTypes
<1>6. ASSUME NEW w \in Workshop, CheckOrphan(w) PROVE Types'
  <2>1. faults' \in 0 .. MaxFaults
    BY <1>6, FaultFacts DEF CheckOrphan
  <2> QED BY <1>6, <2>1 DEF CheckOrphan, IsFinished, WorldTypes, RecordTypes, MachineTypes, PassTypes,
             VisitTypes, BoundTypes, LoopSteps
<1> QED BY <1>1, <1>2, <1>3, <1>4, <1>5, <1>6

(* While the loop is at a workshop it has one. *)
HasOne == at \in Visiting => cur \in Workshop

LEMMA ProvisionTypes ==
  ASSUME Types, HasOne, Provision PROVE Types'
<1> USE DEF Types, fleetWorld, fleetRecord, fleetMachines, fleetSessions, fleetVisit, fleetRest
<1>1. CASE Bind
  <2>1. WorkersFor(seats) \in Nat
    <3>1. SeatsPerWorker \in Nat \ {0} /\ seats \in Nat
      BY FleetAssumption DEF VisitTypes
    <3>2. seats + SeatsPerWorker - 1 \in Nat
      BY <3>1
    <3> QED BY <3>1, <3>2 DEF WorkersFor
  <2>2. VisitTypes'
    BY <1>1, <2>1, ReturnFacts DEF Bind, VisitTypes, LoopSteps
  <2>3. RecordTypes'
    BY <1>1 DEF Bind, RecordTypes
  <2>4. UNCHANGED <<fleetRest, blind, faults>>
    BY <1>1 DEF Bind
  <2>5. WorldTypes' /\ MachineTypes' /\ PassTypes' /\ BoundTypes'
    BY <2>4 DEF WorldTypes, MachineTypes, PassTypes, BoundTypes
  <2> QED BY <2>2, <2>3, <2>5
<1>2. CASE SaveStanding \/ SaveWarming
  <2>1. cur \in Workshop
    BY <1>2 DEF SaveStanding, SaveWarming, HasOne, Visiting
  <2>2. RecordTypes'
    BY <1>2, <2>1 DEF SaveStanding, SaveWarming, SaveNew, SetState, RecordTypes
  <2>3. VisitTypes'
    BY <1>2, ReturnFacts DEF SaveStanding, SaveWarming, VisitTypes, LoopSteps
  <2> QED BY <1>2, <2>2, <2>3 DEF SaveStanding, SaveWarming, SaveNew, WorldTypes, MachineTypes,
             PassTypes, BoundTypes
<1>3. CASE LaunchBatch
  <2>1. cur \in Workshop
    BY <1>3 DEF LaunchBatch, HasOne, Visiting
  <2>2. faults' \in 0 .. MaxFaults
    BY <1>3, FaultFacts DEF LaunchBatch
  <2>3. batch' \in [left : Nat, got : SUBSET Machine]
        /\ ec2' \in [Machine -> Workshop \cup {"unborn", "dead"}]
    <3> DEFINE n == Smaller(batch.left, MaxScaleUp)
    <3>1. batch.left \in Nat /\ batch.got \in SUBSET Machine /\ batch.left - n \in Nat
      BY FleetAssumption DEF VisitTypes, Smaller
    <3> HIDE DEF n
    <3>2. \/ \E ms \in SUBSET Unlaunched :
               /\ ec2' = [m \in Machine |-> IF m \in ms THEN cur ELSE ec2[m]]
               /\ batch' = [left |-> batch.left - n, got |-> batch.got \cup ms]
          \/ batch' = [left |-> 0, got |-> {}] /\ ec2' = ec2
      BY <1>3 DEF LaunchBatch, n
    <3> QED BY <2>1, <3>1, <3>2 DEF Unlaunched, MachineTypes
  <2> QED BY <1>3, <2>2, <2>3 DEF LaunchBatch, WorldTypes, RecordTypes, MachineTypes, PassTypes,
             VisitTypes, BoundTypes
<1>4. CASE SaveLaunch
  <2>1. VisitTypes'
    BY <1>4, ReturnFacts DEF SaveLaunch
  <2> QED BY <1>4, <2>1 DEF SaveLaunch, WorldTypes, RecordTypes, MachineTypes, PassTypes, BoundTypes,
             VisitTypes
<1> QED BY <1>1, <1>2, <1>3, <1>4 DEF Provision

LEMMA TeardownTypes ==
  ASSUME Types, HasOne, Teardown PROVE Types'
<1> USE DEF Types, fleetWorld, fleetRecord, fleetMachines, fleetSessions, fleetVisit, fleetRest
<1>1. cur \in Workshop
  BY DEF Teardown, SaveDraining, Unbind, Cordon, StopSessions, ListInstances, DeferOrGo,
     ScaleDown, ForgetWorkers, SaveDone, HasOne, Visiting, Tearing
<1>2. CASE SaveDraining \/ Unbind
  BY <1>1, <1>2 DEF SaveDraining, Unbind, SetState, WorldTypes, RecordTypes, MachineTypes, PassTypes,
     VisitTypes, BoundTypes, LoopSteps
<1>3. CASE Cordon \/ ForgetWorkers
  <2>1. faults' \in 0 .. MaxFaults
    BY <1>3, FaultFacts DEF Cordon, ForgetWorkers
  <2>2. /\ registered' \subseteq Machine /\ cordoned' \subseteq Machine
        /\ poolWorkers' \subseteq Machine
    BY <1>3 DEF Cordon, ForgetWorkers, PoolWorkerIds, MachineTypes, VisitTypes
  <2> QED BY <1>3, <2>1, <2>2 DEF Cordon, ForgetWorkers, WorldTypes, RecordTypes, MachineTypes,
             PassTypes, VisitTypes, BoundTypes, LoopSteps
<1>4. CASE StopSessions
  <2>1. \A s \in SessionStates : Stopped(s) \in SessionStates
    BY DEF Stopped, SessionStates
  <2>2. sess' \in [Workshop -> SessionStates]
    BY <1>4, <2>1 DEF StopSessions, TerminateSessions, MachineTypes
  <2>3. faults' \in 0 .. MaxFaults
    BY <1>4, FaultFacts DEF StopSessions, TerminateSessions
  <2> QED BY <1>4, <2>2, <2>3 DEF StopSessions, WorldTypes, RecordTypes, MachineTypes, PassTypes,
             VisitTypes, BoundTypes, LoopSteps
<1>5. CASE ListInstances
  <2>1. faults' \in 0 .. MaxFaults
    BY <1>5, FaultFacts DEF ListInstances
  <2>2. TaggedWith(cur) \subseteq Machine /\ instances[cur] \subseteq Machine
    BY <1>1 DEF TaggedWith, RecordTypes
  <2> QED BY <1>1, <1>5, <2>1, <2>2 DEF ListInstances, WorldTypes, RecordTypes, MachineTypes, PassTypes,
             VisitTypes, BoundTypes, LoopSteps
<1>6. CASE DeferOrGo
  <2>1. VisitTypes'
    BY <1>6, ReturnFacts DEF DeferOrGo, VisitTypes, LoopSteps
  <2>2. RecordTypes'
    BY <1>6 DEF DeferOrGo, RecordTypes
  <2>3. UNCHANGED <<fleetRest, blind, faults>>
    BY <1>6 DEF DeferOrGo
  <2>4. WorldTypes' /\ MachineTypes' /\ PassTypes' /\ BoundTypes'
    BY <2>3 DEF WorldTypes, MachineTypes, PassTypes, BoundTypes
  <2> QED BY <2>1, <2>2, <2>4
<1>7. CASE ScaleDown
  <2>1. faults' \in 0 .. MaxFaults
    BY <1>7, FaultFacts DEF ScaleDown
  <2>2. ec2' \in [Machine -> Workshop \cup {"unborn", "dead"}]
    BY <1>7 DEF ScaleDown, MachineTypes
  <2>3. sess' \in [Workshop -> SessionStates] /\ host' \in [Workshop -> Machine \cup {Nobody}]
    BY <1>7 DEF ScaleDown, MachineTypes, SessionStates
  <2> QED BY <1>1, <1>7, <2>1, <2>2, <2>3 DEF ScaleDown, WorldTypes, RecordTypes, MachineTypes,
             PassTypes, VisitTypes, BoundTypes, LoopSteps
<1>8. CASE SaveDone
  <2>1. VisitTypes' /\ RecordTypes'
    BY <1>1, <1>8, ReturnFacts DEF SaveDone, SetState, RecordTypes
  <2> QED BY <1>8, <2>1 DEF SaveDone, WorldTypes, MachineTypes, PassTypes, BoundTypes
<1> QED BY <1>2, <1>3, <1>4, <1>5, <1>6, <1>7, <1>8 DEF Teardown

LEMMA WorldStepTypes ==
  ASSUME Types, FleetWorldStep PROVE Types'
<1> USE DEF Types, fleetWorld, fleetRecord, fleetMachines, fleetSessions, fleetVisit,
            fleetIdle, fleetRests, fleetLoop, fleetLocals, fleetHistory
<1>1. CASE Clock
  BY <1>1, FleetAssumption DEF Clock, WorldTypes, RecordTypes, MachineTypes, PassTypes, VisitTypes, BoundTypes
<1>2. ASSUME NEW w \in Workshop, TrainerEnds(w) \/ EnqueueJob(w) \/ SessionEnds(w) PROVE Types'
  <2>1. \A s \in SessionStates : Stopped(s) \in SessionStates
    BY DEF Stopped, SessionStates
  <2>2. sess' \in [Workshop -> SessionStates] /\ host' \in [Workshop -> Machine \cup {Nobody}]
    BY <1>2, <2>1 DEF TrainerEnds, EnqueueJob, SessionEnds, TerminateSessions, MachineTypes,
       SessionStates
  <2>3. faults' \in 0 .. MaxFaults
    BY <1>2, FaultFacts DEF TrainerEnds, EnqueueJob, SessionEnds, TerminateSessions, BoundTypes
  <2> QED BY <1>2, <2>2, <2>3 DEF TrainerEnds, EnqueueJob, SessionEnds, WorldTypes, RecordTypes,
             MachineTypes, PassTypes, VisitTypes, BoundTypes
<1>3. ASSUME NEW w \in Workshop, TrainerUpdates(w) PROVE Types'
  BY <1>3, FleetAssumption DEF TrainerUpdates, WorldTypes, RecordTypes, MachineTypes, PassTypes,
     VisitTypes, BoundTypes
<1>4. ASSUME NEW w \in Workshop, TrainerDeletes(w) \/ Unindex(w) PROVE Types'
  BY <1>4 DEF TrainerDeletes, Unindex, WorldTypes, RecordTypes, MachineTypes, PassTypes,
     VisitTypes, BoundTypes
<1>5. ASSUME NEW w \in Workshop, DeferralExpires(w) PROVE Types'
  BY <1>5 DEF DeferralExpires, WorldTypes, RecordTypes, MachineTypes, PassTypes,
     VisitTypes, BoundTypes
<1>6. ASSUME NEW w \in Workshop, NEW m \in Machine, ClaimJob(w, m) PROVE Types'
  BY <1>6 DEF ClaimJob, WorldTypes, RecordTypes, MachineTypes, PassTypes,
     VisitTypes, BoundTypes, SessionStates
<1>7. ASSUME NEW m \in Machine, Register(m) \/ ApplyUncordons(m) PROVE Types'
  BY <1>7 DEF Register, ApplyUncordons, WorldTypes, RecordTypes, MachineTypes, PassTypes,
     VisitTypes, BoundTypes
<1> QED BY <1>1, <1>2, <1>3, <1>4, <1>5, <1>6, <1>7 DEF FleetWorldStep

LEMMA StutterTypes == ASSUME Types, UNCHANGED fleetVars PROVE Types'
BY DEF Types, fleetVars, fleetWorld, fleetRecord, fleetMachines, fleetSessions, fleetLoop,
   fleetLocals, fleetHistory, WorldTypes, RecordTypes, MachineTypes, PassTypes, VisitTypes,
   BoundTypes

LEMMA StepTypes == Types /\ HasOne /\ [FleetNext]_fleetVars => Types'
BY PassStepTypes, ProvisionTypes, TeardownTypes, WorldStepTypes, StutterTypes
   DEF FleetNext, FleetPass

-----------------------------------------------------------------------------
(* What the loop knows at each step of a visit.                             *)

Empty(w) == w \notin blind => TaggedWith(w) = {}
Named(w) == {m \in Machine : ec2[m] \in {w, "dead"}}

(* A record without own machines names a workshop without machines. *)
RecordInv ==
  /\ \A w \in Workshop : fleetState[w] \in {"none", "done"} \/ w \in standing => Empty(w)
  /\ \A w \in Workshop : instances[w] \subseteq Named(w)

PlaceInv ==
  /\ at \in Visiting => cur \in Workshop
  /\ tickNow <= clock
  /\ at \in {"provision", "saveStanding"} =>
       fleetState[cur] \in {"none", "done"} \/ cur \in standing
  /\ at = "saveWarming" => batch.got = {}
  /\ at = "launch" => /\ fleetState[cur] = "warming" /\ cur \notin standing
                      /\ batch.got \subseteq Named(cur)
  /\ at \in Tearing => finished
  /\ at \in Tearing \ {"teardown"} => fleetState[cur] = "draining"
  /\ at \in {"cordon", "list", "busy", "terminate", "forget"} => cur \notin standing
  /\ at \in {"busy", "terminate"} => cur \in blind \/ TaggedWith(cur) \subseteq found
  /\ at \in {"busy", "terminate"} => found \subseteq Named(cur)
  /\ at \in {"forget", "finish"} => Empty(cur)

FleetInv == Types /\ RecordInv /\ PlaceInv

LEMMA InitInv == FleetInit => FleetInv
<1> SUFFICES ASSUME FleetInit PROVE FleetInv
  OBVIOUS
<1>1. Types
  BY InitTypes
<1>2. \A w \in Workshop : TaggedWith(w) = {}
  BY FleetAssumption DEF FleetInit, TaggedWith
<1>3. RecordInv
  BY <1>2 DEF FleetInit, RecordInv, Empty
<1>4. PlaceInv
  BY DEF FleetInit, PlaceInv, Visiting, Tearing
<1> QED BY <1>1, <1>3, <1>4 DEF FleetInv

(* Trainers, agents and time touch neither a record nor a machine.          *)
LEMMA WorldStepInv ==
  ASSUME FleetInv, FleetWorldStep \/ UNCHANGED fleetVars
  PROVE  RecordInv' /\ PlaceInv'
<1> USE DEF fleetWorld, fleetRecord, fleetMachines, fleetSessions, fleetVisit,
            fleetIdle, fleetRests, fleetLoop, fleetLocals, fleetHistory
<1>1. /\ UNCHANGED <<fleetState, standing, instances, ec2, at, tickNow, cur, batch,
                     found, blind, finished>>
      /\ clock' \in {clock, clock + 1}
  BY DEF fleetVars, FleetWorldStep, Clock, TrainerEnds, TrainerUpdates, TrainerDeletes, Unindex,
     EnqueueJob, SessionEnds, DeferralExpires, ClaimJob, Register, ApplyUncordons
<1>2. tickNow' <= clock'
  BY <1>1, FleetAssumption DEF FleetInv, PlaceInv, Types, WorldTypes, PassTypes
<1> QED BY <1>1, <1>2 DEF FleetInv, RecordInv, PlaceInv, Empty, TaggedWith, Named

(* Only a workshop that is over is torn down.                               *)
LEMMA TornIsFinished ==
  ASSUME FleetInv, NEW w \in Workshop, NEW s \in {"none", "warming", "ready", "draining", "done"},
         Branch(w, s) = "teardown"
  PROVE  IsFinished(w)
<1> DEFINE p == booking[w]
<1>1. p \in Plan /\ clock \in Nat /\ tickNow \in Nat /\ tickNow <= clock
  BY DEF FleetInv, Types, WorldTypes, PassTypes, PlaceInv
<1>2. DueForTeardown(p, w \in isOver, tickNow)
  BY DEF Branch, ShouldTeardown
<1>3. CASE w \in isOver
  BY <1>3 DEF IsFinished
<1>4. CASE tickNow >= TeardownAt(p)
  <2>1. TeardownAt(p) \in Nat /\ TeardownAt(p) >= p.start + p.length + TeardownGrace
        /\ TeardownAt(p) >= p.start + HoldOf(p)
        /\ p.start \in Nat /\ p.length \in Nat /\ HoldOf(p) \in Nat /\ TeardownGrace \in Nat
    BY <1>1, BookingFacts, FleetAssumption
  <2>2. clock >= p.start + p.length + TeardownGrace /\ clock >= p.start + HoldOf(p)
    BY <1>1, <1>4, <2>1
  <2> QED BY <2>2 DEF IsFinished
<1> QED BY <1>2, <1>3, <1>4 DEF DueForTeardown

LEMMA PassStepInv ==
  ASSUME FleetInv, \/ TickBegins \/ OrphanPass \/ TickEnds \/ DashboardCrash
                   \/ \E w \in Workshop : Visit(w) \/ CheckOrphan(w)
  PROVE  RecordInv' /\ PlaceInv'
<1> USE DEF fleetWorld, fleetRecord, fleetMachines, fleetSessions, fleetVisit
<1>1. CASE TickBegins \/ OrphanPass \/ TickEnds \/ DashboardCrash
  <2>1. /\ UNCHANGED <<fleetState, standing, instances, ec2, blind, clock>>
        /\ at' \in {"idle", "index", "orphans"} /\ tickNow' \in {0, clock, tickNow}
    BY <1>1 DEF TickBegins, OrphanPass, TickEnds, DashboardCrash
  <2>2. tickNow' <= clock'
    BY <2>1 DEF FleetInv, PlaceInv, Types, WorldTypes, PassTypes
  <2> QED BY <2>1, <2>2 DEF FleetInv, RecordInv, PlaceInv, Empty, TaggedWith, Named, Visiting,
             Tearing
<1>2. ASSUME NEW w \in Workshop, Visit(w) PROVE RecordInv' /\ PlaceInv'
  <2>1. UNCHANGED <<clock, tickNow, standing, instances, ec2, blind>> /\ at = "index"
    BY <1>2 DEF Visit
  <2>2. CASE w \notin exists
    <3>1. UNCHANGED <<fleetState, at>>
      BY <1>2, <2>2 DEF Visit
    <3> QED BY <2>1, <3>1 DEF FleetInv, RecordInv, PlaceInv, Empty, TaggedWith, Named, Visiting,
               Tearing
  <2>3. CASE w \in exists
    <3>1. PICK warm, tooLong \in BOOLEAN :
            LET s == RolledOver(w, warm, tooLong) IN
            /\ SetState(w, s) /\ at' = Branch(w, s)
            /\ at' # "index" => cur' = w /\ finished' = IsFinished(w)
      BY <1>2, <2>3 DEF Visit
    <3> DEFINE s == RolledOver(w, warm, tooLong)
    <3>2. /\ s \in {"none", "warming", "ready", "draining", "done"}
          /\ s \in {"none", "done"} => fleetState[w] = s
      BY DEF RolledOver, FleetInv, Types, RecordTypes
    <3>3. fleetState' = [fleetState EXCEPT ![w] = s] /\ at' = Branch(w, s)
          /\ (at' # "index" => cur' = w /\ finished' = IsFinished(w))
      BY <3>1 DEF SetState
    <3> HIDE DEF s
    <3>4. fleetState' \in [Workshop -> {"none", "warming", "ready", "draining", "done"}]
          /\ fleetState'[w] = s /\ \A v \in Workshop \ {w} : fleetState'[v] = fleetState[v]
      BY <3>2, <3>3 DEF FleetInv, Types, RecordTypes
    <3>5. at' \in {"provision", "teardown", "index"}
          /\ (at' = "teardown" => finished')
          /\ (at' = "provision" => s \in {"none", "done"} \/ w \in standing)
      <4>1. at' = "provision" => s \in Prewarmable \/ w \in standing
        BY <3>3 DEF Branch, ShouldPrewarm, NeedsBiggerFleet
      <4> QED BY <3>2, <3>3, <4>1, TornIsFinished DEF Branch, Prewarmable
    <3>6. RecordInv'
      <4> SUFFICES ASSUME NEW v \in Workshop
                   PROVE  /\ fleetState'[v] \in {"none", "done"} \/ v \in standing => Empty(v)'
                          /\ instances[v] \subseteq Named(v)'
        BY <2>1 DEF RecordInv
      <4>1. Empty(v)' = Empty(v) /\ Named(v)' = Named(v)
        BY <2>1 DEF Empty, TaggedWith, Named
      <4> QED BY <3>2, <3>4, <4>1 DEF FleetInv, RecordInv
    <3>7. PlaceInv'
      <4>1. tickNow' <= clock'
        BY <2>1 DEF FleetInv, PlaceInv
      <4>2. at' # "index" => cur' = w
        BY <3>3
      <4> QED BY <2>1, <3>4, <3>5, <4>1, <4>2 DEF PlaceInv, Visiting, Tearing
    <3> QED BY <3>6, <3>7
  <2> QED BY <2>2, <2>3
<1>3. ASSUME NEW w \in Workshop, CheckOrphan(w) PROVE RecordInv' /\ PlaceInv'
  <2>1. /\ UNCHANGED <<clock, tickNow, fleetState, standing, instances, ec2, blind>>
        /\ at = "orphans"
        /\ \/ at' = at
           \/ at' = "teardown" /\ cur' = w /\ finished' = IsFinished(w) /\ w \notin exists
    BY <1>3 DEF CheckOrphan, IsOrphaned
  <2>2. at' = "teardown" => finished'
    BY <2>1 DEF IsFinished
  <2> QED BY <2>1, <2>2 DEF FleetInv, RecordInv, PlaceInv, Empty, TaggedWith, Named, Visiting,
             Tearing
<1> QED BY <1>1, <1>2, <1>3

LEMMA ProvisionInv ==
  ASSUME FleetInv, Provision PROVE RecordInv' /\ PlaceInv'
<1> USE DEF fleetWorld, fleetRecord, fleetMachines, fleetSessions, fleetVisit, fleetRest
<1>1. cur \in Workshop /\ at \notin Tearing
  BY DEF Provision, Bind, SaveStanding, SaveWarming, LaunchBatch, SaveLaunch, FleetInv, PlaceInv,
     Visiting, Tearing
<1>2. tickNow' <= clock'
  BY DEF Provision, Bind, SaveStanding, SaveWarming, SaveNew, LaunchBatch, SaveLaunch, FleetInv, PlaceInv
<1>3. CASE Bind
  <2>1. /\ UNCHANGED <<fleetState, standing, instances, ec2, blind>> /\ at = "provision"
        /\ \/ at' \in {"index", "orphans"}
           \/ at' \in {"saveStanding", "saveWarming"} /\ UNCHANGED cur
        /\ at' = "saveWarming" => batch'.got = {}
    BY <1>3 DEF Bind, Return
  <2>2. RecordInv'
    BY <2>1 DEF FleetInv, RecordInv, Empty, TaggedWith, Named
  <2>3. fleetState[cur] \in {"none", "done"} \/ cur \in standing
    BY <2>1 DEF FleetInv, PlaceInv
  <2>4. PlaceInv'
    BY <1>1, <1>2, <2>1, <2>3 DEF PlaceInv, Visiting, Tearing
  <2> QED BY <2>2, <2>4
<1>4. CASE SaveStanding \/ SaveWarming
  <2>1. /\ UNCHANGED <<ec2, blind>>
        /\ instances' = [instances EXCEPT ![cur] = {}]
        /\ \/ /\ at = "saveStanding" /\ fleetState' = [fleetState EXCEPT ![cur] = "ready"]
              /\ standing' = standing \cup {cur} /\ at' \in {"index", "orphans"}
           \/ /\ at = "saveWarming" /\ fleetState' = [fleetState EXCEPT ![cur] = "warming"]
              /\ standing' = standing \ {cur} /\ at' = "launch" /\ UNCHANGED <<cur, batch>>
    BY <1>4 DEF SaveStanding, SaveWarming, SaveNew, SetState, Return
  <2>2. /\ fleetState' \in [Workshop -> {"none", "warming", "ready", "draining", "done"}]
        /\ instances' \in [Workshop -> SUBSET Machine] /\ instances'[cur] = {}
        /\ \A v \in Workshop \ {cur} : fleetState'[v] = fleetState[v] /\ instances'[v] = instances[v]
        /\ fleetState'[cur] \in {"ready", "warming"}
        /\ at = "saveWarming" => fleetState'[cur] = "warming"
    BY <1>1, <2>1 DEF FleetInv, Types, RecordTypes
  <2>3. at = "saveStanding" => Empty(cur)
    BY <1>1 DEF FleetInv, PlaceInv, RecordInv
  <2>4. RecordInv'
    <3> SUFFICES ASSUME NEW v \in Workshop
                 PROVE  /\ (fleetState'[v] \in {"none", "done"} \/ v \in standing' => Empty(v)')
                        /\ instances'[v] \subseteq Named(v)'
      BY DEF RecordInv
    <3>1. Empty(v)' = Empty(v) /\ Named(v)' = Named(v)
      BY <2>1 DEF Empty, TaggedWith, Named
    <3>2. CASE v = cur
      BY <2>1, <2>2, <2>3, <3>1, <3>2
    <3>3. CASE v # cur
      BY <2>1, <2>2, <3>1, <3>3 DEF FleetInv, RecordInv
    <3> QED BY <3>2, <3>3
  <2>5. PlaceInv'
    <3>1. at' = "launch" => batch'.got = {}
      BY <2>1, <1>4 DEF FleetInv, PlaceInv, SaveWarming
    <3> QED BY <1>1, <1>2, <2>1, <2>2, <3>1 DEF PlaceInv, Visiting, Tearing
  <2> QED BY <2>4, <2>5
<1>5. CASE LaunchBatch
  <2>1. UNCHANGED <<fleetState, standing, instances, blind, at, cur>> /\ at = "launch"
    BY <1>5 DEF LaunchBatch
  <2>2. \/ \E ms \in SUBSET Unlaunched :
             /\ ec2' = [m \in Machine |-> IF m \in ms THEN cur ELSE ec2[m]]
             /\ batch'.got = batch.got \cup ms
        \/ batch'.got = {} /\ ec2' = ec2
    <3>1. CASE UNCHANGED ec2 /\ batch' = [left |-> 0, got |-> {}]
      BY <3>1
    <3>2. ASSUME NEW ms \in SUBSET Unlaunched, NEW n,
                 ec2' = [m \in Machine |-> IF m \in ms THEN cur ELSE ec2[m]],
                 batch' = [left |-> batch.left - n, got |-> batch.got \cup ms]
          PROVE  batch'.got = batch.got \cup ms
      BY <3>2
    <3> QED BY <1>5, <3>1, <3>2 DEF LaunchBatch
  <2>3. \A v \in Workshop : Named(v) \subseteq Named(v)'
    BY <1>1, <2>2, FleetAssumption DEF Named, Unlaunched
  <2>4. \A v \in Workshop \ {cur} : TaggedWith(v)' \subseteq TaggedWith(v)
    BY <1>1, <2>2 DEF TaggedWith
  <2>5. batch'.got \subseteq Named(cur)'
    <3>1. batch.got \subseteq Named(cur)
      BY <2>1 DEF FleetInv, PlaceInv
    <3>2. ASSUME NEW ms \in SUBSET Unlaunched,
                 ec2' = [m \in Machine |-> IF m \in ms THEN cur ELSE ec2[m]]
          PROVE  ms \subseteq Named(cur)'
      BY <2>1, <3>2 DEF Named, Unlaunched
    <3>3. cur' = cur
      BY <2>1
    <3>4. CASE batch'.got = {}
      BY <3>4
    <3>5. ASSUME NEW ms \in SUBSET Unlaunched,
                 ec2' = [m \in Machine |-> IF m \in ms THEN cur ELSE ec2[m]],
                 batch'.got = batch.got \cup ms
          PROVE  batch'.got \subseteq Named(cur)'
      <4>1. Named(cur) \subseteq Named(cur)'
        BY <1>1, <2>3, <3>3
      <4> QED BY <3>1, <3>2, <3>5, <4>1
    <3> QED BY <2>2, <3>4, <3>5
  <2>6. RecordInv'
    <3>1. fleetState[cur] = "warming" /\ cur \notin standing
      BY <2>1 DEF FleetInv, PlaceInv
    <3> QED BY <2>1, <2>3, <2>4, <3>1 DEF FleetInv, RecordInv, Empty
  <2> QED BY <1>2, <2>1, <2>5, <2>6 DEF FleetInv, PlaceInv, Visiting, Tearing
<1>6. CASE SaveLaunch
  <2>1. /\ UNCHANGED <<fleetState, standing, ec2, blind>> /\ at = "launch"
        /\ instances' = [instances EXCEPT ![cur] = batch.got] /\ at' \in {"index", "orphans"}
    BY <1>6 DEF SaveLaunch, Return
  <2>2. batch.got \subseteq Named(cur)
    BY <2>1 DEF FleetInv, PlaceInv
  <2>3. RecordInv'
    <3>1. \A v \in Workshop : Empty(v)' = Empty(v) /\ Named(v)' = Named(v)
      BY <2>1 DEF Empty, TaggedWith, Named
    <3>2. \A v \in Workshop : instances'[v] \subseteq Named(v)
      BY <2>1, <2>2 DEF FleetInv, RecordInv, Types, RecordTypes
    <3> QED BY <2>1, <3>1, <3>2 DEF FleetInv, RecordInv
  <2> QED BY <1>2, <2>1, <2>3 DEF PlaceInv, Visiting, Tearing
<1> QED BY <1>3, <1>4, <1>5, <1>6 DEF Provision

LEMMA TeardownInv ==
  ASSUME FleetInv, Teardown PROVE RecordInv' /\ PlaceInv'
<1> USE DEF fleetWorld, fleetRecord, fleetMachines, fleetSessions, fleetVisit, fleetRest
<1>1. cur \in Workshop /\ at \in Tearing /\ finished
  BY DEF Teardown, SaveDraining, Unbind, Cordon, StopSessions, ListInstances, DeferOrGo,
     ScaleDown, ForgetWorkers, SaveDone, FleetInv, PlaceInv, Visiting, Tearing
<1>2. tickNow' <= clock'
  BY DEF Teardown, SaveDraining, Unbind, Cordon, StopSessions, ListInstances, DeferOrGo,
     ScaleDown, ForgetWorkers, SaveDone, FleetInv, PlaceInv
<1>3. CASE SaveDraining
  <2>1. /\ UNCHANGED <<standing, instances, ec2, blind, cur, finished>>
        /\ fleetState' = [fleetState EXCEPT ![cur] = "draining"] /\ at' = "unbind"
    BY <1>3 DEF SaveDraining, SetState
  <2>2. fleetState'[cur] = "draining"
        /\ \A v \in Workshop \ {cur} : fleetState'[v] = fleetState[v]
    BY <1>1, <2>1 DEF FleetInv, Types, RecordTypes
  <2>3. \A v \in Workshop : Empty(v)' = Empty(v) /\ Named(v)' = Named(v)
    BY <2>1 DEF Empty, TaggedWith, Named
  <2>4. RecordInv'
    BY <2>1, <2>2, <2>3 DEF FleetInv, RecordInv
  <2> QED BY <1>1, <1>2, <2>1, <2>2, <2>4 DEF PlaceInv, Visiting, Tearing
<1>4. CASE Unbind \/ Cordon \/ StopSessions
  <2>1. /\ UNCHANGED <<fleetState, standing, instances, ec2, blind, cur, finished>>
        /\ \/ at = "unbind" /\ at' = (IF cur \in standing THEN "stop" ELSE "cordon")
           \/ at = "cordon" /\ at' = "stop"
           \/ at = "stop" /\ at' = (IF cur \in standing THEN "finish" ELSE "list")
        /\ found' = found
    BY <1>4 DEF Unbind, Cordon, StopSessions
  <2>2. fleetState[cur] = "draining"
    BY <2>1 DEF FleetInv, PlaceInv, Tearing
  <2>3. RecordInv'
    BY <2>1 DEF FleetInv, RecordInv, Empty, TaggedWith, Named
  <2>4. at' = "finish" => Empty(cur)'
    BY <1>1, <2>1, <2>3 DEF RecordInv
  <2> QED BY <1>1, <1>2, <2>1, <2>2, <2>3, <2>4 DEF PlaceInv, Visiting, Tearing
<1>5. CASE ListInstances
  <2>1. /\ UNCHANGED <<fleetState, standing, instances, ec2, cur, finished>>
        /\ at = "list" /\ at' = "busy"
        /\ \/ found' = instances[cur] \cup TaggedWith(cur) /\ blind' = blind \ {cur}
           \/ found' = instances[cur] /\ blind' = blind \cup {cur}
    BY <1>5 DEF ListInstances
  <2>2. fleetState[cur] = "draining" /\ cur \notin standing
    BY <2>1 DEF FleetInv, PlaceInv, Tearing
  <2>3. \A v \in Workshop : TaggedWith(v)' = TaggedWith(v) /\ Named(v)' = Named(v)
                           /\ TaggedWith(v) \subseteq Named(v)
    BY <2>1 DEF TaggedWith, Named
  <2>4. found' \subseteq Named(cur)'
    BY <1>1, <2>1, <2>3 DEF FleetInv, RecordInv
  <2>5. cur \in blind' \/ TaggedWith(cur)' \subseteq found'
    BY <1>1, <2>1, <2>3
  <2>6. RecordInv'
    <3> SUFFICES ASSUME NEW v \in Workshop
                 PROVE  /\ (fleetState[v] \in {"none", "done"} \/ v \in standing => Empty(v)')
                        /\ instances[v] \subseteq Named(v)
      BY <2>1, <2>3 DEF RecordInv
    <3>1. CASE v = cur
      BY <2>2, <3>1 DEF FleetInv, RecordInv
    <3>2. CASE v # cur
      BY <2>1, <2>3, <3>2 DEF FleetInv, RecordInv, Empty
    <3> QED BY <3>1, <3>2
  <2> QED BY <1>1, <1>2, <2>1, <2>2, <2>4, <2>5, <2>6 DEF PlaceInv, Visiting, Tearing
<1>6. CASE DeferOrGo
  <2>1. /\ UNCHANGED <<fleetState, standing, instances, ec2, blind>> /\ at = "busy"
        /\ \/ at' \in {"index", "orphans"}
           \/ at' = "terminate" /\ UNCHANGED <<cur, found, finished>>
    BY <1>6 DEF DeferOrGo, Return
  <2>2. RecordInv'
    BY <2>1 DEF FleetInv, RecordInv, Empty, TaggedWith, Named
  <2>3. \A v \in Workshop : TaggedWith(v)' = TaggedWith(v) /\ Named(v)' = Named(v)
    BY <2>1 DEF TaggedWith, Named
  <2> QED BY <1>1, <1>2, <2>1, <2>2, <2>3 DEF FleetInv, PlaceInv, Visiting, Tearing
<1>7. CASE ScaleDown
  <2>1. /\ UNCHANGED <<fleetState, standing, instances, cur, finished>>
        /\ at = "terminate" /\ at' = "forget"
        /\ \/ blind' = blind /\ ec2' = [m \in Machine |-> IF m \in found THEN "dead" ELSE ec2[m]]
           \/ blind' = blind \cup {cur} /\ ec2' = ec2
    BY <1>7 DEF ScaleDown
  <2>2. fleetState[cur] = "draining" /\ cur \notin standing
        /\ (cur \in blind \/ TaggedWith(cur) \subseteq found)
    BY <2>1 DEF FleetInv, PlaceInv, Tearing
  <2>3. \A v \in Workshop : TaggedWith(v)' \subseteq TaggedWith(v) /\ Named(v) \subseteq Named(v)'
    <3>1. \A v \in Workshop : v # "dead"
      BY FleetAssumption
    <3> QED BY <2>1, <3>1 DEF TaggedWith, Named
  <2>4. Empty(cur)'
    <3>1. CASE blind' = blind /\ ec2' = [m \in Machine |-> IF m \in found THEN "dead" ELSE ec2[m]]
      <4>1. cur # "dead" /\ cur' = cur
        BY <1>1, <2>1, FleetAssumption
      <4>2. TaggedWith(cur)' = TaggedWith(cur) \ found
        BY <3>1, <4>1 DEF TaggedWith
      <4> QED BY <2>2, <3>1, <4>1, <4>2 DEF Empty
    <3>2. CASE blind' = blind \cup {cur}
      BY <2>1, <3>2 DEF Empty
    <3> QED BY <2>1, <3>1, <3>2
  <2>5. RecordInv'
    <3> SUFFICES ASSUME NEW v \in Workshop
                 PROVE  /\ (fleetState[v] \in {"none", "done"} \/ v \in standing => Empty(v)')
                        /\ instances[v] \subseteq Named(v)'
      BY <2>1 DEF RecordInv
    <3>1. blind \subseteq blind'
      BY <2>1
    <3> QED BY <2>3, <3>1 DEF FleetInv, RecordInv, Empty
  <2> QED BY <1>1, <1>2, <2>1, <2>2, <2>4, <2>5 DEF PlaceInv, Visiting, Tearing
<1>8. CASE ForgetWorkers
  <2>1. /\ UNCHANGED <<fleetState, standing, instances, ec2, blind, cur, finished>>
        /\ at = "forget" /\ at' = "finish"
    BY <1>8 DEF ForgetWorkers
  <2>2. fleetState[cur] = "draining" /\ Empty(cur)'
    BY <2>1 DEF FleetInv, PlaceInv, Tearing, Empty, TaggedWith
  <2>3. RecordInv'
    BY <2>1 DEF FleetInv, RecordInv, Empty, TaggedWith, Named
  <2> QED BY <1>1, <1>2, <2>1, <2>2, <2>3 DEF PlaceInv, Visiting, Tearing
<1>9. CASE SaveDone
  <2>1. /\ UNCHANGED <<standing, instances, ec2, blind>>
        /\ fleetState' = [fleetState EXCEPT ![cur] = "done"]
        /\ at = "finish" /\ at' \in {"index", "orphans"}
    BY <1>9 DEF SaveDone, SetState, Return
  <2>2. Empty(cur)
    BY <2>1 DEF FleetInv, PlaceInv
  <2>3. \A v \in Workshop : Empty(v)' = Empty(v) /\ Named(v)' = Named(v)
    BY <2>1 DEF Empty, TaggedWith, Named
  <2>4. \A v \in Workshop \ {cur} : fleetState'[v] = fleetState[v]
    BY <2>1 DEF FleetInv, Types, RecordTypes
  <2>5. RecordInv'
    BY <2>1, <2>2, <2>3, <2>4 DEF FleetInv, RecordInv
  <2> QED BY <1>2, <2>1, <2>5 DEF PlaceInv, Visiting, Tearing
<1> QED BY <1>3, <1>4, <1>5, <1>6, <1>7, <1>8, <1>9 DEF Teardown

LEMMA StepInv == FleetInv /\ [FleetNext]_fleetVars => FleetInv'
<1> SUFFICES ASSUME FleetInv, [FleetNext]_fleetVars PROVE FleetInv'
  OBVIOUS
<1>1. Types'
  BY StepTypes DEF FleetInv, PlaceInv, HasOne
<1>2. RecordInv' /\ PlaceInv'
  BY PassStepInv, ProvisionInv, TeardownInv, WorldStepInv DEF FleetNext, FleetPass
<1> QED BY <1>1, <1>2 DEF FleetInv

-----------------------------------------------------------------------------
(* The invariant holds in every reachable state: the loop knows what it     *)
(* needs to know at each step of a visit, whatever races it.                *)
THEOREM FleetInvariant == FleetSpec => []FleetInv
<1> QED BY InitInv, StepInv, PTL DEF FleetSpec

(* Every variable keeps its type.                                           *)
THEOREM FleetTypeCorrect == FleetSpec => []FleetTypeOK
<1>1. FleetInv => FleetTypeOK
  BY TypesTogether DEF FleetInv
<1> QED BY <1>1, FleetInvariant, PTL

(* A fleet whose record says done holds no machine tagged with its          *)
(* workshop, unless an AWS call of its last teardown failed: for every      *)
(* number of crashes, rescheduled bookings and batches of a launch.         *)
THEOREM DoneFleetsHoldNothing == FleetSpec => []DoneHoldsNothing
<1>1. FleetInv => DoneHoldsNothing
  BY DEF FleetInv, RecordInv, DoneHoldsNothing, Empty
<1> QED BY <1>1, FleetInvariant, PTL

(* A step that takes a machine takes it from the workshop the loop is at,   *)
(* and that one was over when the loop came to it.                          *)
LEMMA TakenFromTheFinished ==
  FleetInv /\ [FleetNext]_fleetVars =>
    [\A m \in Machine : ec2[m] \in Workshop /\ ec2'[m] = "dead" =>
       ec2[m] = cur /\ finished]_fleetVars
<1> SUFFICES ASSUME FleetInv, [FleetNext]_fleetVars, NEW m \in Machine,
                    ec2[m] \in Workshop, ec2'[m] = "dead"
             PROVE  ec2[m] = cur /\ finished
  OBVIOUS
<1> USE DEF fleetWorld, fleetMachines, fleetSessions, fleetVisit, fleetRest, fleetIdle, fleetRests
<1>1. ec2[m] # "dead" /\ ec2'[m] # ec2[m]
  BY FleetAssumption
<1>2. LaunchBatch \/ ScaleDown
  <2>1. ~(UNCHANGED ec2)
    BY <1>1
  <2> QED BY <2>1 DEF fleetVars, FleetNext, FleetPass, TickBegins, OrphanPass, TickEnds, Visit,
             CheckOrphan, Provision, Bind, SaveStanding, SaveWarming, SaveNew, SaveLaunch,
             Teardown, SaveDraining, Unbind, Cordon, StopSessions, ListInstances, DeferOrGo,
             ForgetWorkers, SaveDone, DashboardCrash, FleetWorldStep, Clock, TrainerEnds,
             TrainerUpdates, TrainerDeletes, Unindex, EnqueueJob, SessionEnds,
             DeferralExpires, ClaimJob, Register, ApplyUncordons, Return
<1>3. CASE LaunchBatch
  <2>1. cur \in Workshop
    BY <1>3 DEF LaunchBatch, FleetInv, PlaceInv, Visiting
  <2>2. \A ms \in SUBSET Unlaunched :
           ec2' # [k \in Machine |-> IF k \in ms THEN cur ELSE ec2[k]]
    BY <1>1, <2>1, FleetAssumption
  <2> QED BY <1>1, <1>3, <2>2 DEF LaunchBatch
<1>4. CASE ScaleDown
  <2>1. at = "terminate" /\ m \in found
    BY <1>1, <1>4 DEF ScaleDown
  <2>2. found \subseteq Named(cur) /\ finished
    BY <2>1 DEF FleetInv, PlaceInv, Tearing
  <2> QED BY <1>1, <2>1, <2>2 DEF Named
<1> QED BY <1>2, <1>3, <1>4

(* Only machines of a finished workshop are ever terminated.                *)
THEOREM OnlyFinishedAreTorn == FleetSpec => OnlyTheFinishedAreTorn
<1> QED BY FleetInvariant, TakenFromTheFinished, PTL DEF FleetSpec, OnlyTheFinishedAreTorn

(***************************************************************************)
(* The machines of the self-service lane.                                  *)
(***************************************************************************)

FlagTypes ==
  /\ popping \in [Box -> {"no", "yes", "blind"}]
  /\ cordon \in [Box -> BOOLEAN] /\ bitten \in [Box -> 0 .. 1]

(* A worker that has taken a job since it was cordoned no longer waits for  *)
(* one after a look: it went back to look, and saw the cordon.             *)
Bitten == \A b \in Box : bitten[b] # 0 => cordon[b] /\ popping[b] # "yes"

CordonInv == FlagTypes /\ Bitten

flagVars == <<popping, cordon, bitten>>

(* Whoever writes the flags of a record, or removes it, writes no job.      *)
LEMMA SetCordonKeeps ==
  ASSUME CordonInv, NEW bs \in SUBSET Box, NEW v \in BOOLEAN, SetCordon(bs, v),
         popping' = popping
  PROVE  CordonInv'
<1>1. FlagTypes'
  BY DEF CordonInv, FlagTypes, SetCordon
<1>2. ASSUME NEW b \in Box, bitten'[b] # 0
      PROVE  cordon'[b] /\ popping'[b] # "yes"
  BY <1>2 DEF CordonInv, FlagTypes, Bitten, SetCordon
<1> QED BY <1>1, <1>2 DEF CordonInv, Bitten

LEMMA ErasedKeeps ==
  ASSUME CordonInv, NEW b \in Box, Erased(b),
         \/ popping' = popping
         \/ popping' = [popping EXCEPT ![b] = "no"]
  PROVE  CordonInv'
<1>1. FlagTypes'
  BY DEF CordonInv, FlagTypes, Erased
<1>2. ASSUME NEW c \in Box, bitten'[c] # 0
      PROVE  cordon'[c] /\ popping'[c] # "yes"
  BY <1>2 DEF CordonInv, FlagTypes, Bitten, Erased
<1> QED BY <1>1, <1>2 DEF CordonInv, Bitten

(* So does one who stops waiting.                                          *)
LEMMA StopsWaiting ==
  ASSUME CordonInv, NEW b \in Box, popping' = [popping EXCEPT ![b] = "no"],
         cordon' = cordon, bitten' = bitten
  PROVE  CordonInv'
<1>1. FlagTypes'
  BY DEF CordonInv, FlagTypes
<1>2. ASSUME NEW c \in Box, bitten'[c] # 0
      PROVE  cordon'[c] /\ popping'[c] # "yes"
  BY <1>2 DEF CordonInv, FlagTypes, Bitten
<1> QED BY <1>1, <1>2 DEF CordonInv, Bitten

LEMMA FlagsRest == CordonInv /\ UNCHANGED flagVars => CordonInv'
BY DEF CordonInv, FlagTypes, Bitten, flagVars

-----------------------------------------------------------------------------
LEMMA InitCordon == DailyInit => CordonInv
BY DEF DailyInit, CordonInv, FlagTypes, Bitten

LEMMA RegistersKeeps ==
  ASSUME CordonInv, NEW b \in Box, Registers(b)
  PROVE  CordonInv'
<1>1. FlagTypes'
  BY DEF CordonInv, FlagTypes, Registers, agentVars
<1>2. ASSUME NEW c \in Box, bitten'[c] # 0
      PROVE  cordon'[c] /\ popping'[c] # "yes"
  BY <1>2 DEF CordonInv, FlagTypes, Bitten, Registers, agentVars
<1> QED BY <1>1, <1>2 DEF CordonInv, Bitten

(* The look is where the cordon bites.                                     *)
LEMMA LooksKeeps ==
  ASSUME CordonInv, NEW b \in Box, Looks(b)
  PROVE  CordonInv'
<1>1. UNCHANGED <<cordon, bitten>>
  BY DEF Looks, recordVars
<1>2. PICK flag : /\ cordon[b] => flag # "neither"
                  /\ popping' = [popping EXCEPT ![b] = IF flag = "neither" THEN "yes" ELSE "no"]
  <2> DEFINE seen == IF cordon[b] THEN "cordon" ELSE IF brake[b] = "on" THEN "brake" ELSE "neither"
  <2>1. popping' = [popping EXCEPT ![b] = IF seen = "neither" THEN "yes" ELSE "no"]
    BY DEF Looks
  <2>2. cordon[b] => seen # "neither"
    OBVIOUS
  <2> QED BY <2>1, <2>2
<1>3. FlagTypes'
  BY <1>1, <1>2 DEF CordonInv, FlagTypes
<1>4. ASSUME NEW c \in Box, bitten'[c] # 0
      PROVE  cordon'[c] /\ popping'[c] # "yes"
  BY <1>1, <1>2, <1>4 DEF CordonInv, FlagTypes, Bitten
<1> QED BY <1>3, <1>4 DEF CordonInv, Bitten

LEMMA LooksInVainKeeps ==
  ASSUME CordonInv, NEW b \in Box, LooksInVain(b)
  PROVE  CordonInv'
<1>1. FlagTypes'
  BY DEF CordonInv, FlagTypes, LooksInVain, recordVars
<1>2. ASSUME NEW c \in Box, bitten'[c] # 0
      PROVE  cordon'[c] /\ popping'[c] # "yes"
  BY <1>2 DEF CordonInv, FlagTypes, Bitten, LooksInVain, recordVars
<1> QED BY <1>1, <1>2 DEF CordonInv, Bitten

LEMMA ClaimsKeeps ==
  ASSUME CordonInv, NEW b \in Box, Claims(b)
  PROVE  CordonInv'
<1>1. FlagTypes'
  <2>1. cordon[b] /\ popping[b] = "yes" => bitten[b] = 0
    BY DEF CordonInv, FlagTypes, Bitten
  <2> QED BY <2>1 DEF CordonInv, FlagTypes, Claims
<1>2. ASSUME NEW c \in Box, bitten'[c] # 0
      PROVE  cordon'[c] /\ popping'[c] # "yes"
  BY <1>2 DEF CordonInv, FlagTypes, Bitten, Claims
<1> QED BY <1>1, <1>2 DEF CordonInv, Bitten

LEMMA AgentKeeps ==
  ASSUME CordonInv, NEW b \in Box, AgentStep(b)
  PROVE  CordonInv'
<1>1. CASE Registers(b)
  BY <1>1, RegistersKeeps
<1>2. CASE Warms(b)
  BY <1>2, FlagsRest DEF Warms, flagVars, agentVars, recordVars
<1>3. CASE Heartbeat(b)
  BY <1>3, FlagsRest DEF Heartbeat, flagVars, agentVars
<1>4. CASE Looks(b)
  BY <1>4, LooksKeeps
<1>5. CASE LooksInVain(b)
  BY <1>5, LooksInVainKeeps
<1>6. CASE Claims(b)
  BY <1>6, ClaimsKeeps
<1>7. CASE FindsNone(b)
  BY <1>7, StopsWaiting DEF FindsNone, recordVars
<1>8. CASE JobEnds(b)
  BY <1>8, FlagsRest DEF JobEnds, flagVars, agentVars, recordVars
<1>9. CASE AgentRestarts(b)
  BY <1>9, ErasedKeeps, StopsWaiting DEF AgentRestarts, recordVars
<1>10. CASE Dies(b)
  BY <1>10, ErasedKeeps, StopsWaiting DEF Dies, recordVars
<1> QED BY <1>1, <1>2, <1>3, <1>4, <1>5, <1>6, <1>7, <1>8, <1>9, <1>10 DEF AgentStep

LEMMA RecordAgesKeeps ==
  ASSUME CordonInv, NEW b \in Box, RecordAges(b)
  PROVE  CordonInv'
<1>1. popping' = popping
  BY DEF RecordAges, agentVars
<1>2. CASE Erased(b)
  BY <1>1, <1>2, ErasedKeeps
<1>3. CASE UNCHANGED <<pub, cordon, brake, bitten>>
  BY <1>1, <1>3, FlagsRest DEF flagVars
<1> QED BY <1>2, <1>3 DEF RecordAges

LEMMA PassKeepsCordons ==
  ASSUME CordonInv, PassStep \/ PassFails
  PROVE  CordonInv'
<1>1. UNCHANGED flagVars
  BY DEF PassStep, PassFails, PassReads, PassKeeps, PassBuys, PassBrakes, PassUnbrakes,
         SetBrake, flagVars, agentVars, recordVars
<1> QED BY <1>1, FlagsRest

LEMMA OwnerKeepsCordons ==
  ASSUME CordonInv, OwnerStep
  PROVE  CordonInv'
<1>1. CASE \/ OwnerApplies \/ OwnerCordons \/ OwnerChooses \/ OwnerReaps
  BY <1>1, FlagsRest DEF OwnerApplies, OwnerCordons, OwnerChooses, OwnerReaps, OwnerCalls,
                         flagVars, agentVars, recordVars
<1>2. CASE OwnerLaunches \/ OwnerStops \/ OwnerReaped \/ OwnerLeaves
  BY <1>2, FlagsRest DEF OwnerLaunches, OwnerStops, OwnerReaped, OwnerLeaves,
                         flagVars, agentVars, recordVars
<1>3. ASSUME NEW b \in Box, OwnerUncordons(b) \/ OwnerMarks(b)
      PROVE  CordonInv'
  <2>1. popping' = popping /\ (SetCordon({b}, FALSE) \/ SetCordon({b}, TRUE))
    BY <1>3 DEF OwnerUncordons, OwnerMarks, agentVars
  <2> QED BY <2>1, SetCordonKeeps
<1>4. ASSUME NEW b \in Box, OwnerNotes(b) \/ OwnerKills(b)
      PROVE  CordonInv'
  BY <1>4, FlagsRest DEF OwnerNotes, OwnerKills, flagVars, agentVars, recordVars
<1>5. ASSUME NEW b \in Box, OwnerErases(b)
      PROVE  CordonInv'
  BY <1>5, ErasedKeeps DEF OwnerErases, agentVars
<1> QED BY <1>1, <1>2, <1>3, <1>4, <1>5 DEF OwnerStep

-----------------------------------------------------------------------------
(* What is known of a worker's jobs since it was cordoned is kept by every  *)
(* step of the loop, the owner, the agents and the records that age.       *)
THEOREM CordonInvariant == DailySpec => []CordonInv
<1>1. CordonInv /\ [DailyNext]_dailyVars => CordonInv'
  <2> SUFFICES ASSUME CordonInv, [DailyNext]_dailyVars
               PROVE  CordonInv'
    OBVIOUS
  <2>1. CASE PassStep \/ PassFails
    BY <2>1, PassKeepsCordons
  <2>2. CASE OwnerStep
    BY <2>2, OwnerKeepsCordons
  <2>3. ASSUME NEW b \in Box, AgentStep(b) \/ RecordAges(b)
        PROVE  CordonInv'
    BY <2>3, AgentKeeps, RecordAgesKeeps
  <2>4. ASSUME NEW b \in Box, NoteExpires(b)
        PROVE  CordonInv'
    BY <2>4, FlagsRest DEF NoteExpires, flagVars, agentVars, recordVars
  <2>5. CASE UNCHANGED dailyVars
    BY <2>5, FlagsRest DEF dailyVars, flagVars, agentVars, recordVars
  <2> QED BY <2>1, <2>2, <2>3, <2>4, <2>5 DEF DailyNext
<1> QED BY <1>1, InitCordon, PTL DEF DailySpec

(* A cordon bites within one turn of the consumer, for any number of       *)
(* workers, slots, brakes, restarts and calls of the owner.                *)
THEOREM CordonAlwaysBites == DailySpec => []CordonBites
<1>1. CordonInv => CordonBites
  BY DEF CordonInv, FlagTypes, CordonBites
<1> QED BY <1>1, CordonInvariant, PTL

-----------------------------------------------------------------------------
(* Types of the self-service lane, in the groups that the steps leave alone. *)
(* A worker has a slot for the job it waits for.                            *)

ReportType == [status : {"none", "warming", "ready", "busy", "draining"},
               ready : {0, Seats}, active : 0 .. Seats, load : Loads]

BoxTypes ==
  /\ box \in [Box -> BoxStates] /\ jobs \in [Box -> 0 .. Seats]
  /\ popping \in [Box -> {"no", "yes", "blind"}]
  /\ heeds \in [Box -> {"neither", "brake", "cordon"}]
  /\ \A b \in Box : popping[b] # "no" => jobs[b] < Seats

WorkerTypes ==
  /\ hash \in [Box -> {"none", "bare", "stale", "fresh"}] /\ pub \in [Box -> ReportType]
  /\ cordon \in [Box -> BOOLEAN] /\ brake \in [Box -> {"unset", "on", "off"}]
  /\ bitten \in [Box -> Nat]
ControlTypes ==
  /\ inflight \subseteq Box /\ pressure \in [Box -> 0 .. Sustain]
  /\ pass \in [step : {"idle", "keep", "act"}, ticks : [Box -> 0 .. Sustain],
               brake : SUBSET Box, unbrake : SUBSET Box, buy : BOOLEAN]
OwnerTypes ==
  /\ owner \in [step : {"idle", "uncordon", "note", "mark", "reap"}, todo : SUBSET Box,
                after : SUBSET Box, launch : Nat]
  /\ ownerCalls \in 0 .. MaxOwnerCalls /\ blips \in 0 .. MaxBlips

DailyTypes == BoxTypes /\ WorkerTypes /\ ControlTypes /\ OwnerTypes

LEMMA DailyTypesTogether == DailyTypes => DailyTypeOK
BY DEF DailyTypes, DailyTypeOK, BoxTypes, WorkerTypes, ControlTypes, OwnerTypes, ReportType

LEMMA SmallestOfTwo ==
  ASSUME NEW x \in Int, NEW y \in Int
  PROVE  Min({x, y}) \in {x, y} /\ Min({x, y}) <= x /\ Min({x, y}) <= y
<1>1. \E m \in {x, y} : \A z \in {x, y} : m =< z
  <2>1. CASE x <= y
    BY <2>1
  <2>2. CASE y <= x
    BY <2>2
  <2> QED BY <2>1, <2>2
<1> QED BY <1>1 DEF Min

LEMMA LaneConstants ==
  /\ Seats \in Nat \ {0} /\ Sustain \in Nat /\ PerCall \in Nat
  /\ MaxOwnerCalls \in Nat /\ MaxBlips \in Nat /\ {} \in Loads
BY DailyAssumption

LEMMA ReportFacts ==
  ASSUME NEW r \in ReportType
  PROVE  /\ \A s \in {"none", "warming", "ready", "busy", "draining"} :
              [r EXCEPT !.status = s] \in ReportType
         /\ \A n \in {0, Seats} : [r EXCEPT !.ready = n] \in ReportType
         /\ \A l \in Loads : [r EXCEPT !.load = l] \in ReportType
BY DEF ReportType

LEMMA ConstantTypes ==
  /\ NoReport \in ReportType /\ Idle \in ReportType
  /\ Calm \in [Box -> 0 .. Sustain]
  /\ Asleep \in [step : {"idle", "keep", "act"}, ticks : [Box -> 0 .. Sustain],
                 brake : SUBSET Box, unbrake : SUBSET Box, buy : BOOLEAN]
  /\ NoOwner \in [step : {"idle", "uncordon", "note", "mark", "reap"}, todo : SUBSET Box,
                  after : SUBSET Box, launch : Nat]
<1>1. NoReport \in ReportType
  BY LaneConstants DEF NoReport, ReportType
<1>2. [NoReport EXCEPT !.status = "ready"] \in ReportType
  BY <1>1, ReportFacts
<1>3. Idle \in ReportType
  BY <1>2, ReportFacts DEF Idle
<1>4. Calm \in [Box -> 0 .. Sustain]
  BY LaneConstants DEF Calm
<1> QED BY <1>1, <1>3, <1>4 DEF Asleep, NoOwner

LEMMA BlipFacts ==
  ASSUME OwnerTypes
  PROVE  (Blip \/ NoBlip) => blips' \in 0 .. MaxBlips
BY LaneConstants DEF OwnerTypes, Blip, NoBlip

(* What is written to a worker's record.                                    *)
LEMMA RecordWriteTypes ==
  ASSUME WorkerTypes
  PROVE  /\ \A v \in BOOLEAN : \A bs : SetCordon(bs, v) => WorkerTypes'
         /\ \A b \in Box, v \in {"on", "off"} : SetBrake(b, v) => WorkerTypes'
         /\ \A b \in Box : Erased(b) => WorkerTypes'
         /\ UNCHANGED recordVars => WorkerTypes'
<1>1. ASSUME NEW bs, NEW v \in BOOLEAN, SetCordon(bs, v)
      PROVE  WorkerTypes'
  BY <1>1 DEF SetCordon, Touched, WorkerTypes
<1>2. ASSUME NEW b \in Box, NEW v \in {"on", "off"}, SetBrake(b, v)
      PROVE  WorkerTypes'
  BY <1>2 DEF SetBrake, Touched, WorkerTypes
<1>3. ASSUME NEW b \in Box, Erased(b)
      PROVE  WorkerTypes'
  BY <1>3, ConstantTypes DEF Erased, WorkerTypes
<1>4. ASSUME UNCHANGED recordVars
      PROVE  WorkerTypes'
  BY <1>4 DEF recordVars, WorkerTypes
<1> QED BY <1>1, <1>2, <1>3, <1>4

LEMMA BoxWriteTypes ==
  ASSUME BoxTypes
  PROVE  /\ UNCHANGED <<boxVars, agentVars>> => BoxTypes'
         /\ \A bs : (Launched(bs) \/ Terminated(bs)) /\ UNCHANGED <<jobs, agentVars>> => BoxTypes'
         /\ box' = box /\ UNCHANGED <<jobs, agentVars>> => BoxTypes'
<1>1. UNCHANGED <<boxVars, agentVars>> => BoxTypes'
  BY DEF BoxTypes, boxVars, agentVars
<1>2. ASSUME NEW bs, Launched(bs) \/ Terminated(bs), UNCHANGED <<jobs, agentVars>>
      PROVE  BoxTypes'
  BY <1>2 DEF BoxTypes, BoxStates, Launched, Terminated, agentVars
<1> QED BY <1>1, <1>2 DEF boxVars

LEMMA InitDailyTypes == DailyInit => DailyTypes
<1> SUFFICES ASSUME DailyInit PROVE DailyTypes
  OBVIOUS
<1>1. BoxTypes
  BY LaneConstants DEF DailyInit, BoxTypes, BoxStates
<1>2. WorkerTypes
  BY ConstantTypes DEF DailyInit, WorkerTypes
<1>3. ControlTypes /\ OwnerTypes
  BY ConstantTypes, LaneConstants DEF DailyInit, ControlTypes, OwnerTypes
<1> QED BY <1>1, <1>2, <1>3 DEF DailyTypes

LEMMA AgentDailyTypes ==
  ASSUME DailyTypes, NEW b \in Box, AgentStep(b)
  PROVE  DailyTypes'
<1>0. BoxTypes /\ WorkerTypes /\ ControlTypes /\ OwnerTypes
  BY DEF DailyTypes
<1>c. UNCHANGED <<inflight, pressure, pass, owner, ownerCalls>> => ControlTypes'
  BY <1>0 DEF ControlTypes
<1>o. UNCHANGED <<owner, ownerCalls>> /\ (blips' = blips \/ Blip) => OwnerTypes'
  BY <1>0, BlipFacts DEF OwnerTypes, NoBlip
<1>1. CASE Registers(b)
  <2>1. [Warming EXCEPT !.load = pub[b].load] \in ReportType
    <3>1. Warming \in ReportType
      BY ConstantTypes, ReportFacts DEF Warming
    <3>2. pub[b].load \in Loads
      BY <1>0 DEF WorkerTypes, ReportType
    <3> QED BY <3>1, <3>2, ReportFacts
  <2>2. WorkerTypes'
    BY <1>0, <1>1, <2>1 DEF Registers, WorkerTypes
  <2>3. BoxTypes'
    BY <1>0, <1>1 DEF Registers, BoxTypes, BoxStates, agentVars
  <2> QED BY <1>1, <1>c, <1>o, <2>2, <2>3 DEF Registers, DailyTypes
<1>2. CASE Warms(b)
  <2>1. BoxTypes'
    BY <1>0, <1>2 DEF Warms, BoxTypes, BoxStates, agentVars
  <2> QED BY <1>0, <1>2, <1>c, <1>o, <2>1, RecordWriteTypes DEF Warms, DailyTypes
<1>3. CASE Heartbeat(b)
  <2>1. ASSUME NEW l \in Loads
        PROVE  Report(b, l) \in ReportType
    BY <1>0, <2>1, LaneConstants DEF Report, ReportType, BoxTypes
  <2>2. WorkerTypes'
    BY <1>0, <1>3, <2>1 DEF Heartbeat, WorkerTypes
  <2>3. BoxTypes'
    BY <1>0, <1>3, BoxWriteTypes DEF Heartbeat
  <2> QED BY <1>3, <1>c, <1>o, <2>2, <2>3 DEF Heartbeat, DailyTypes
<1>4. CASE Looks(b)
  <2> DEFINE flag == IF cordon[b] THEN "cordon" ELSE IF brake[b] = "on" THEN "brake" ELSE "neither"
  <2>1. /\ heeds' = [heeds EXCEPT ![b] = flag]
        /\ popping' = [popping EXCEPT ![b] = IF flag = "neither" THEN "yes" ELSE "no"]
        /\ UNCHANGED boxVars /\ jobs[b] < Seats
    BY <1>4 DEF Looks
  <2>2. flag \in {"neither", "brake", "cordon"}
    OBVIOUS
  <2> HIDE DEF flag
  <2>3. BoxTypes'
    BY <1>0, <2>1, <2>2 DEF BoxTypes, boxVars
  <2> QED BY <1>0, <1>4, <1>c, <1>o, <2>3, RecordWriteTypes DEF Looks, DailyTypes
<1>5. CASE LooksInVain(b)
  <2>1. BoxTypes'
    BY <1>0, <1>5 DEF LooksInVain, BoxTypes, boxVars
  <2> QED BY <1>0, <1>5, <1>c, <1>o, <2>1, RecordWriteTypes DEF LooksInVain, DailyTypes
<1>6. CASE Claims(b)
  <2>1. BoxTypes'
    BY <1>0, <1>6, LaneConstants DEF Claims, BoxTypes
  <2>2. WorkerTypes'
    BY <1>0, <1>6 DEF Claims, WorkerTypes
  <2> QED BY <1>6, <1>c, <1>o, <2>1, <2>2 DEF Claims, DailyTypes
<1>7. CASE FindsNone(b)
  <2>1. BoxTypes'
    BY <1>0, <1>7 DEF FindsNone, BoxTypes, boxVars
  <2> QED BY <1>0, <1>7, <1>c, <1>o, <2>1, RecordWriteTypes DEF FindsNone, DailyTypes
<1>8. CASE JobEnds(b)
  <2>1. BoxTypes'
    BY <1>0, <1>8, LaneConstants DEF JobEnds, BoxTypes, agentVars
  <2> QED BY <1>0, <1>8, <1>c, <1>o, <2>1, RecordWriteTypes DEF JobEnds, DailyTypes
<1>9. CASE AgentRestarts(b)
  <2>1. BoxTypes'
    BY <1>0, <1>9, LaneConstants DEF AgentRestarts, BoxTypes, BoxStates
  <2> QED BY <1>0, <1>9, <1>c, <1>o, <2>1, RecordWriteTypes DEF AgentRestarts, DailyTypes
<1>10. CASE Dies(b)
  <2>1. BoxTypes'
    BY <1>0, <1>10, LaneConstants DEF Dies, BoxTypes, BoxStates
  <2> QED BY <1>0, <1>10, <1>c, <1>o, <2>1, RecordWriteTypes DEF Dies, DailyTypes
<1> QED BY <1>1, <1>2, <1>3, <1>4, <1>5, <1>6, <1>7, <1>8, <1>9, <1>10 DEF AgentStep

LEMMA AgesTypes ==
  ASSUME DailyTypes, NEW b \in Box, RecordAges(b) \/ NoteExpires(b)
  PROVE  DailyTypes'
<1>0. BoxTypes /\ WorkerTypes /\ ControlTypes /\ OwnerTypes
  BY DEF DailyTypes
<1>1. CASE RecordAges(b)
  <2>1. WorkerTypes'
    <3>1. CASE Erased(b)
      BY <1>0, <3>1, RecordWriteTypes
    <3>2. CASE hash' = [hash EXCEPT ![b] = "stale"] /\ UNCHANGED <<pub, cordon, brake, bitten>>
      BY <1>0, <1>1, <3>2 DEF RecordAges, WorkerTypes
    <3> QED BY <1>1, <3>1, <3>2 DEF RecordAges
  <2> QED BY <1>0, <1>1, <2>1, BlipFacts, BoxWriteTypes
          DEF RecordAges, DailyTypes, ControlTypes, OwnerTypes
<1>2. CASE NoteExpires(b)
  BY <1>0, <1>2, RecordWriteTypes, BoxWriteTypes
     DEF NoteExpires, DailyTypes, ControlTypes, OwnerTypes
<1> QED BY <1>1, <1>2

LEMMA PassDailyTypes ==
  ASSUME DailyTypes, PassStep \/ PassFails
  PROVE  DailyTypes'
<1>0. BoxTypes /\ WorkerTypes /\ ControlTypes /\ OwnerTypes
  BY DEF DailyTypes
<1>1. CASE PassReads
  <2>1. \A b \in Box : Counted(b) \in 0 .. Sustain
    <3> TAKE b \in Box
    <3>1. pressure[b] \in 0 .. Sustain /\ pressure[b] + 1 \in Int /\ Sustain \in Int
      BY <1>0, LaneConstants DEF ControlTypes
    <3>2. Min({pressure[b] + 1, Sustain}) \in 0 .. Sustain
      <4> DEFINE n == pressure[b] + 1
      <4>1. Min({n, Sustain}) \in {n, Sustain} /\ Min({n, Sustain}) <= Sustain
        BY <3>1, SmallestOfTwo
      <4>2. n \in Nat
        BY <3>1
      <4> QED BY <4>1, <4>2, LaneConstants
    <3> QED BY <3>1, <3>2, LaneConstants DEF Counted
  <2>2. NotStale \subseteq Box
    BY DEF NotStale, Known
  <2>3. PICK hot \in SUBSET Box, unbrake \in SUBSET Box, buy \in BOOLEAN :
          pass' = [step |-> "keep", ticks |-> [b \in Box |-> Counted(b)], brake |-> hot,
                   unbrake |-> unbrake, buy |-> buy]
    <3>1. \A lent : BuysOne(lent) \in BOOLEAN
      BY DEF BuysOne
    <3>2. /\ {b \in NotStale : Sustained(b) /\ "cpu" \in pub[b].load} \in SUBSET Box
          /\ \A hot : {b \in NotStale \ hot : brake[b] # "unset"} \in SUBSET Box
      BY <2>2
    <3> QED BY <1>1, <3>1, <3>2 DEF PassReads
  <2>4. pressure' = Calm /\ inflight' = inflight
    BY <1>1 DEF PassReads
  <2>5. ControlTypes'
    BY <1>0, <2>1, <2>3, <2>4, ConstantTypes DEF ControlTypes
  <2> QED BY <1>0, <1>1, <2>5, RecordWriteTypes, BoxWriteTypes DEF PassReads, DailyTypes, OwnerTypes
<1>2. CASE PassKeeps
  <2>1. ControlTypes'
    BY <1>0, <1>2, ConstantTypes DEF PassKeeps, ControlTypes
  <2> QED BY <1>0, <1>2, <2>1, RecordWriteTypes, BoxWriteTypes DEF PassKeeps, DailyTypes, OwnerTypes
<1>3. CASE PassBuys
  <2>1. ControlTypes' /\ OwnerTypes'
    BY <1>0, <1>3, ConstantTypes, BlipFacts DEF PassBuys, ControlTypes, OwnerTypes
  <2>2. UNCHANGED <<jobs, agentVars>> /\ (box' = box \/ \E bs : Launched(bs))
    BY <1>3 DEF PassBuys
  <2> QED BY <1>0, <1>3, <2>1, <2>2, RecordWriteTypes, BoxWriteTypes DEF PassBuys, DailyTypes
<1>4. ASSUME NEW b \in Box, PassBrakes(b) \/ PassUnbrakes(b)
      PROVE  DailyTypes'
  <2>1. ControlTypes'
    BY <1>0, <1>4 DEF PassBrakes, PassUnbrakes, ControlTypes
  <2>2. OwnerTypes'
    BY <1>0, <1>4, BlipFacts DEF PassBrakes, PassUnbrakes, OwnerTypes
  <2>3. WorkerTypes'
    BY <1>0, <1>4, RecordWriteTypes DEF PassBrakes, PassUnbrakes
  <2> QED BY <1>0, <1>4, <2>1, <2>2, <2>3, BoxWriteTypes DEF PassBrakes, PassUnbrakes, DailyTypes
<1>5. CASE PassFails
  <2>1. ControlTypes' /\ OwnerTypes'
    BY <1>0, <1>5, ConstantTypes, BlipFacts DEF PassFails, ControlTypes, OwnerTypes
  <2> QED BY <1>0, <1>5, <2>1, RecordWriteTypes, BoxWriteTypes DEF PassFails, DailyTypes
<1> QED BY <1>1, <1>2, <1>3, <1>4, <1>5 DEF PassStep

LEMMA OwnerDailyTypes ==
  ASSUME DailyTypes, OwnerStep
  PROVE  DailyTypes'
<1>0. BoxTypes /\ WorkerTypes /\ ControlTypes /\ OwnerTypes
  BY DEF DailyTypes
<1>k. Known \subseteq Box /\ NotStale \subseteq Box /\ Cordoned \subseteq Box /\ Unborn \subseteq Box
  BY DEF Known, NotStale, Cordoned, Unborn
<1>1. ASSUME NEW step \in {"uncordon", "mark", "reap"}, NEW bs \in SUBSET Box,
             NEW after \in SUBSET Box, NEW n \in Nat, OwnerCalls(step, bs, after, n)
      PROVE  DailyTypes'
  <2>1. OwnerTypes'
    BY <1>0, <1>1, LaneConstants DEF OwnerCalls, OwnerTypes
  <2> QED BY <1>0, <1>1, <2>1, RecordWriteTypes, BoxWriteTypes
          DEF OwnerCalls, DailyTypes, ControlTypes
<1>2. CASE OwnerApplies
  <2>1. PICK bs \in SUBSET Cordoned, n \in 0 .. PerCall : OwnerCalls("uncordon", bs, {}, n)
    BY <1>2 DEF OwnerApplies
  <2> QED BY <1>1, <1>k, <2>1, LaneConstants
<1>3. CASE OwnerCordons
  <2>1. PICK bs \in SUBSET NotStale : OwnerCalls("mark", bs, {}, 0)
    BY <1>3 DEF OwnerCordons
  <2> QED BY <1>1, <1>k, <2>1
<1>4. CASE OwnerChooses
  <2>1. PICK bs \in SUBSET Box, after \in SUBSET Box : OwnerCalls("mark", bs, after, 0)
    BY <1>4 DEF OwnerChooses
  <2> QED BY <1>1, <2>1
<1>5. CASE OwnerReaps
  <2>1. PICK bs \in SUBSET Cordoned : OwnerCalls("reap", bs, {}, 0)
    BY <1>5 DEF OwnerReaps
  <2> QED BY <1>1, <1>k, <2>1
<1>6. CASE OwnerLaunches
  <2>1. OwnerTypes'
    BY <1>0, <1>k, <1>6, ConstantTypes, BlipFacts DEF OwnerLaunches, OwnerDone, OwnerTypes
  <2>2. UNCHANGED <<jobs, agentVars>> /\ (box' = box \/ \E bs : Launched(bs))
    BY <1>6 DEF OwnerLaunches
  <2> QED BY <1>0, <1>6, <2>1, <2>2, RecordWriteTypes, BoxWriteTypes
          DEF OwnerLaunches, DailyTypes, ControlTypes
<1>7. CASE OwnerStops
  <2>1. OwnerTypes'
    BY <1>0, <1>7, ConstantTypes, BlipFacts DEF OwnerStops, OwnerDone, OwnerTypes
  <2>2. UNCHANGED <<jobs, agentVars>> /\ (box' = box \/ \E bs : Terminated(bs))
    BY <1>7 DEF OwnerStops
  <2> QED BY <1>0, <1>7, <2>1, <2>2, RecordWriteTypes, BoxWriteTypes
          DEF OwnerStops, DailyTypes, ControlTypes
<1>8. CASE OwnerReaped \/ OwnerLeaves
  <2>1. OwnerTypes'
    BY <1>0, <1>8, ConstantTypes, BlipFacts DEF OwnerReaped, OwnerLeaves, OwnerDone, OwnerTypes
  <2> QED BY <1>0, <1>8, <2>1, RecordWriteTypes, BoxWriteTypes
          DEF OwnerReaped, OwnerLeaves, DailyTypes, ControlTypes
<1>9. ASSUME NEW b \in Box, OwnerUncordons(b) \/ OwnerMarks(b)
      PROVE  DailyTypes'
  <2>1. OwnerTypes'
    BY <1>0, <1>9 DEF OwnerUncordons, OwnerMarks, OwnerTypes
  <2> QED BY <1>0, <1>9, <2>1, RecordWriteTypes, BoxWriteTypes
          DEF OwnerUncordons, OwnerMarks, DailyTypes, ControlTypes
<1>10. ASSUME NEW b \in Box, OwnerNotes(b)
       PROVE  DailyTypes'
  <2>1. OwnerTypes' /\ ControlTypes'
    BY <1>0, <1>10, ConstantTypes DEF OwnerNotes, OwnerTypes, ControlTypes
  <2> QED BY <1>0, <1>10, <2>1, RecordWriteTypes, BoxWriteTypes DEF OwnerNotes, DailyTypes
<1>11. ASSUME NEW b \in Box, OwnerKills(b)
       PROVE  DailyTypes'
  <2>1. OwnerTypes'
    <3>1. /\ blips' \in 0 .. MaxBlips /\ ownerCalls' = ownerCalls
          /\ \/ owner' = [owner EXCEPT !.todo = @ \ {b}, !.after = {b}]
             \/ owner' = [owner EXCEPT !.todo = @ \ {b}]
      BY <1>0, <1>11, BlipFacts DEF OwnerKills
    <3>2. owner.todo \ {b} \in SUBSET Box /\ {b} \in SUBSET Box
      BY <1>0 DEF OwnerTypes
    <3> QED BY <1>0, <3>1, <3>2 DEF OwnerTypes
  <2>2. UNCHANGED <<jobs, agentVars>> /\ (box' = box \/ \E bs : Terminated(bs))
    BY <1>11 DEF OwnerKills
  <2> QED BY <1>0, <1>11, <2>1, <2>2, RecordWriteTypes, BoxWriteTypes
          DEF OwnerKills, DailyTypes, ControlTypes
<1>12. ASSUME NEW b \in Box, OwnerErases(b)
       PROVE  DailyTypes'
  <2>1. OwnerTypes'
    BY <1>0, <1>12 DEF OwnerErases, OwnerTypes
  <2> QED BY <1>0, <1>12, <2>1, RecordWriteTypes, BoxWriteTypes
          DEF OwnerErases, DailyTypes, ControlTypes
<1> QED BY <1>2, <1>3, <1>4, <1>5, <1>6, <1>7, <1>8, <1>9, <1>10, <1>11, <1>12 DEF OwnerStep

LEMMA StepDailyTypes == DailyTypes /\ [DailyNext]_dailyVars => DailyTypes'
<1> SUFFICES ASSUME DailyTypes, [DailyNext]_dailyVars PROVE DailyTypes'
  OBVIOUS
<1>1. CASE UNCHANGED dailyVars
  BY <1>1, RecordWriteTypes, BoxWriteTypes DEF dailyVars, DailyTypes, ControlTypes, OwnerTypes
<1> QED BY <1>1, AgentDailyTypes, AgesTypes, PassDailyTypes, OwnerDailyTypes DEF DailyNext

(* Every variable of the self-service lane keeps its type; so a worker never *)
(* runs or reports more sessions than it has slots.                         *)
THEOREM DailyTypeCorrect == DailySpec => []DailyTypeOK
BY InitDailyTypes, StepDailyTypes, DailyTypesTogether, PTL DEF DailySpec

(***************************************************************************)
(* Both halves.  A behaviour of the loop is one of either: of the other's  *)
(* steps it takes none, or rests.                                          *)
(***************************************************************************)

LEMMA StepOfBothHalves ==
  [Next]_vars => [FleetNext]_fleetVars /\ [DailyNext]_dailyVars
BY DEF Next, OfWorkshops, OfDaily, vars

(* The composition implements each half's specification.                    *)
THEOREM FleetsOfBoth == Spec => FleetSpec /\ DailySpec
<1>1. Init => FleetInit /\ DailyInit
  BY DEF Init
<1> QED BY <1>1, StepOfBothHalves, PTL DEF Spec, FleetSpec, DailySpec

(* Every variable of the loop keeps its type.                               *)
THEOREM FleetsTypeOK == Spec => []TypeOK
<1>1. FleetTypeOK /\ DailyTypeOK => TypeOK
  BY DEF TypeOK
<1> QED BY <1>1, FleetsOfBoth, FleetTypeCorrect, DailyTypeCorrect, PTL

(* What is proved of a half holds of the loop: a fleet that is done holds   *)
(* nothing, only finished workshops lose machines, and a cordon bites.      *)
THEOREM FleetsKeep ==
  Spec => []DoneHoldsNothing /\ OnlyTheFinishedAreTorn /\ []CordonBites
BY FleetsOfBoth, DoneFleetsHoldNothing, OnlyFinishedAreTorn, CordonAlwaysBites, PTL
=============================================================================
