------------------------- MODULE WeightedScheduler -------------------------
(***************************************************************************)
(* The admission control of a worker (ops-server/worker-agent/scheduler.py)*)
(*                                                                         *)
(* A job coroutine awaits acquire(job) before it takes a physical slot and *)
(* awaits release(job) when it ends.  Two gates sit behind one asyncio     *)
(* Condition: a budget for the summed cost of the jobs in flight, and a    *)
(* lane of MaxHeavy permits that only heavy jobs take.                     *)
(*                                                                         *)
(* asyncio runs one coroutine at a time and the Condition's lock covers    *)
(* both methods, so a step of this module is what happens between taking   *)
(* the lock and giving it up (on return, or inside wait_for).              *)
(***************************************************************************)
EXTENDS Integers, FiniteSets

CONSTANTS
  Job,         \* the jobs handed to the scheduler
  Desc,        \* per job, the fields the classification reads
  Capacity,    \* WORKER_CAPACITY
  BudgetArg,   \* the configured budget, or NotSet
  MaxHeavyArg, \* the configured size of the heavy lane, or NotSet
  NotSet       \* Python's None: a field or argument that is absent

-----------------------------------------------------------------------------
(* Classification.  A suite stands for its cost tier: "bats" is the light  *)
(* suite of the table, "engines" one of the four medium ones, "dt-cnfs"    *)
(* the heavy one.  An explicit cost that is not a number reads as absent.  *)

COST_LIGHT  == 1
COST_MEDIUM == 2
COST_HEAVY  == 4
HEAVY_THRESHOLD == COST_HEAVY

HEAVY_SUITES  == {"dt-cnfs"}
MEDIUM_SUITES == {"engines"}
LIGHT_SUITES  == {"bats"}
SUITES == LIGHT_SUITES \cup MEDIUM_SUITES \cup HEAVY_SUITES

SUITE_COST == [s \in SUITES |->
  IF s \in HEAVY_SUITES THEN COST_HEAVY
  ELSE IF s \in MEDIUM_SUITES THEN COST_MEDIUM ELSE COST_LIGHT]

TYPE_COST == [t \in {"framework-test", "integration-test", "daemon"} |->
                COST_MEDIUM]

Descriptors ==
  [cost : Int \cup {NotSet}, suite : SUITES \cup {NotSet},
   type : DOMAIN TYPE_COST \cup {NotSet}, lane : {"heavy", "light", NotSet},
   requires_native : BOOLEAN]

AtLeast(n, floor) == IF n < floor THEN floor ELSE n

(* Mutant: an explicit cost is taken as it comes. *)
cost_of_NoFloor(j) ==
  IF Desc[j].cost # NotSet THEN Desc[j].cost ELSE COST_LIGHT

cost_of(j) ==
  IF Desc[j].cost # NotSet THEN AtLeast(Desc[j].cost, 1)
  ELSE IF Desc[j].suite \in SUITES THEN SUITE_COST[Desc[j].suite]
  ELSE IF Desc[j].type \in DOMAIN TYPE_COST THEN TYPE_COST[Desc[j].type]
  ELSE COST_LIGHT

IsHeavy(j) ==
  \/ Desc[j].lane = "heavy"
  \/ /\ Desc[j].lane = NotSet
     /\ \/ Desc[j].suite \in HEAVY_SUITES
        \/ Desc[j].requires_native
        \/ cost_of(j) >= HEAVY_THRESHOLD

(* from_capacity and __init__: defaults first, then the floors that keep a *)
(* heavy job admissible.                                                   *)
DefaultBudget   == AtLeast(Capacity, 1) * COST_MEDIUM
DefaultMaxHeavy == AtLeast(AtLeast(Capacity, 1) \div 3, 1)
Budget   == AtLeast(IF BudgetArg = NotSet THEN DefaultBudget ELSE BudgetArg,
                    COST_HEAVY)
(* Mutant: the configured lane is used as it is. *)
MaxHeavy_NoFloor == IF MaxHeavyArg = NotSet THEN DefaultMaxHeavy ELSE MaxHeavyArg
MaxHeavy == AtLeast(IF MaxHeavyArg = NotSet THEN DefaultMaxHeavy
                    ELSE MaxHeavyArg, 1)

ASSUME JobAssumption ==
  /\ IsFiniteSet(Job)
  /\ NotSet \notin Int
  /\ Desc \in [Job -> Descriptors]

ASSUME CapacityAssumption ==
  /\ Capacity \in Int
  /\ BudgetArg \in Int \cup {NotSet}
  /\ MaxHeavyArg \in Int \cup {NotSet}

-----------------------------------------------------------------------------
(* The state.  A job is                                                    *)
(*   "idle"     not submitted,                                             *)
(*   "ready"    in acquire, due to evaluate the predicate of wait_for,     *)
(*   "asleep"   inside Condition.wait, off the lock until notified,        *)
(*   "admitted" returned from acquire, its cost and lane reserved,         *)
(*   "done"     released.                                                  *)

VARIABLES job, inFlightCost, heavyInFlight
vars == <<job, inFlightCost, heavyInFlight>>

InFlight == {j \in Job : job[j] = "admitted"}

CanAdmit(j) ==
  /\ IsHeavy(j) => heavyInFlight < MaxHeavy
  /\ \/ inFlightCost = 0
     \/ inFlightCost + cost_of(j) <= Budget

Init ==
  /\ job = [j \in Job |-> "idle"]
  /\ inFlightCost = 0
  /\ heavyInFlight = 0

(* The agent's coroutine calls acquire. *)
Submit(j) ==
  /\ job[j] = "idle"
  /\ job' = [job EXCEPT ![j] = "ready"]
  /\ UNCHANGED <<inFlightCost, heavyInFlight>>

(* wait_for's predicate holds: reserve the cost and, for a heavy job, a    *)
(* permit of the lane.                                                     *)
Admit(j) ==
  /\ job[j] = "ready"
  /\ CanAdmit(j)
  /\ job' = [job EXCEPT ![j] = "admitted"]
  /\ inFlightCost' = inFlightCost + cost_of(j)
  /\ heavyInFlight' = IF IsHeavy(j) THEN heavyInFlight + 1 ELSE heavyInFlight

(* The predicate fails: give up the lock and wait for a notification. *)
Wait(j) ==
  /\ job[j] = "ready"
  /\ ~CanAdmit(j)
  /\ job' = [job EXCEPT ![j] = "asleep"]
  /\ UNCHANGED <<inFlightCost, heavyInFlight>>

(* Mutant: notify() instead of notify_all(). *)
Woken_Notify(j) ==
  IF job[j] = "asleep" /\ j = (CHOOSE k \in Job : job[k] = "asleep")
  THEN "ready" ELSE job[j]

(* notify_all: every sleeper will evaluate its predicate again. *)
Woken(j) == IF job[j] = "asleep" THEN "ready" ELSE job[j]

(* Mutant: the lane of the finished job guessed from its cost. *)
Release_LaneByCost(j) ==
  /\ job[j] = "admitted"
  /\ job' = [k \in Job |-> IF k = j THEN "done" ELSE Woken(k)]
  /\ inFlightCost' = AtLeast(inFlightCost - cost_of(j), 0)
  /\ heavyInFlight' = IF cost_of(j) >= HEAVY_THRESHOLD
                      THEN AtLeast(heavyInFlight - 1, 0) ELSE heavyInFlight

Release(j) ==
  /\ job[j] = "admitted"
  /\ job' = [k \in Job |-> IF k = j THEN "done" ELSE Woken(k)]
  /\ inFlightCost' = AtLeast(inFlightCost - cost_of(j), 0)
  /\ heavyInFlight' = IF IsHeavy(j) THEN AtLeast(heavyInFlight - 1, 0)
                      ELSE heavyInFlight

Next == \E j \in Job : Submit(j) \/ Admit(j) \/ Wait(j) \/ Release(j)

Spec == Init /\ [][Next]_vars

(* The event loop resumes every coroutine that can go on, and a job that   *)
(* was admitted ends: its executor has a timeout and its finally releases. *)
Fairness == \A j \in Job : WF_vars(Admit(j) \/ Wait(j)) /\ WF_vars(Release(j))

FairSpec == Spec /\ Fairness

-----------------------------------------------------------------------------
(* Properties.                                                             *)

States == {"idle", "ready", "asleep", "admitted", "done"}

(* The counters are naturals and every job is in a known state. *)
TypeOK ==
  /\ job \in [Job -> States]
  /\ inFlightCost \in Nat
  /\ heavyInFlight \in Nat

(* The cost of a set of jobs, as a set with one pair per unit of cost. *)
CostUnits(S) == UNION {{j} \X (1 .. cost_of(j)) : j \in S}
HeavyIn(S) == {j \in S : IsHeavy(j)}

(* What __init__, acquire and release keep in the two counters is exactly  *)
(* what the jobs between acquire and release amount to: the floors at zero *)
(* in release never hide a double release, and a job that is heavy by one  *)
(* rule on the way in is heavy by the same rule on the way out.            *)
CountersExact ==
  /\ inFlightCost = Cardinality(CostUnits(InFlight))
  /\ heavyInFlight = Cardinality(HeavyIn(InFlight))

(* "This stops several memory-hungry jobs from co-scheduling even when the *)
(* cost budget alone would allow it": at most MaxHeavy heavy jobs run.     *)
HeavyLaneBounded == Cardinality(HeavyIn(InFlight)) <= MaxHeavy

(* can_admit: the summed cost exceeds the budget only for one oversize job *)
(* that runs alone, so packing never oversubscribes the worker.            *)
OverBudgetRunsAlone ==
  Cardinality(CostUnits(InFlight)) > Budget => \E j \in Job : InFlight = {j}

(* A coroutine left inside Condition.wait is one that could not be         *)
(* admitted now: no release frees room without waking it.                  *)
NoLostWakeup == \A j \in Job : job[j] = "asleep" => ~CanAdmit(j)

(* "else heavy jobs would deadlock forever", "an oversized job can still   *)
(* make progress alone": with finitely many submissions every job that     *)
(* calls acquire gets its reservation, whatever the configured numbers.    *)
EveryJobAdmitted ==
  \A j \in Job : job[j] = "ready" ~> job[j] \in {"admitted", "done"}

=============================================================================
