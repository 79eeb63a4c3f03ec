---------------------- MODULE WeightedSchedulerProofs ----------------------
(***************************************************************************)
(* Proofs about the worker's admission control, for every finite set of    *)
(* jobs, every descriptor and every configured budget, lane and capacity.  *)
(***************************************************************************)
EXTENDS WeightedScheduler, FiniteSetTheorems, TLAPS

-----------------------------------------------------------------------------
(* The classification. *)

(* cost_of: a job costs at least one unit. *)
LEMMA CostPositive == \A j \in Job : cost_of(j) \in Nat /\ cost_of(j) >= 1
<1> SUFFICES ASSUME NEW j \in Job PROVE cost_of(j) \in Nat /\ cost_of(j) >= 1
  OBVIOUS
<1>1. Desc[j] \in Descriptors
  BY JobAssumption
<1>2. Desc[j].cost \in Int \cup {NotSet}
  BY <1>1 DEF Descriptors
<1>3. CASE Desc[j].cost # NotSet
  BY <1>2, <1>3 DEF cost_of, AtLeast
<1>4. CASE Desc[j].cost = NotSet
  BY <1>4 DEF cost_of, SUITE_COST, TYPE_COST, COST_LIGHT, COST_MEDIUM, COST_HEAVY
<1> QED BY <1>3, <1>4

(* __init__: whatever is configured, the budget holds a heavy job and the  *)
(* lane holds one.                                                         *)
LEMMA Floors == /\ Budget \in Nat /\ Budget >= COST_HEAVY
                /\ MaxHeavy \in Nat /\ MaxHeavy >= 1
<1>1. DefaultBudget \in Int
  BY CapacityAssumption DEF DefaultBudget, AtLeast, COST_MEDIUM
<1>2. DefaultMaxHeavy \in Int
  <2>1. AtLeast(Capacity, 1) \in Int
    BY CapacityAssumption DEF AtLeast
  <2>2. ASSUME NEW d \in Int PROVE AtLeast(d \div 3, 1) \in Int
    <3>1. d \div 3 \in Int
      OBVIOUS
    <3> QED BY <3>1 DEF AtLeast
  <2> QED BY <2>1, <2>2 DEF DefaultMaxHeavy
<1> QED BY <1>1, <1>2, CapacityAssumption DEF Budget, MaxHeavy, AtLeast, COST_HEAVY

-----------------------------------------------------------------------------
(* Sets of cost units. *)

(* One job stands for as many units as it costs. *)
LEMMA UnitsOfOne ==
  ASSUME NEW j \in Job
  PROVE  /\ IsFiniteSet(CostUnits({j}))
         /\ Cardinality(CostUnits({j})) = cost_of(j)
<1> DEFINE I == 1 .. cost_of(j)
           f == [i \in I |-> <<j, i>>]
<1>1. IsFiniteSet(I) /\ Cardinality(I) = cost_of(j)
  BY CostPositive, FS_Interval
<1>2. f \in Bijection(I, CostUnits({j}))
  <2>1. CostUnits({j}) = {j} \X I
    BY DEF CostUnits
  <2>2. f \in [I -> CostUnits({j})]
    BY <2>1
  <2>3. \A a, b \in I : f[a] = f[b] => a = b
    OBVIOUS
  <2>4. \A u \in CostUnits({j}) : \E i \in I : f[i] = u
    <3> TAKE u \in CostUnits({j})
    <3>1. PICK i \in I : u = <<j, i>>
      BY <2>1
    <3> QED BY <3>1
  <2> HIDE DEF f
  <2> QED BY <2>2, <2>3, <2>4 DEF Bijection, Injection, Surjection, IsInjective
<1>3. ExistsBijection(I, CostUnits({j}))
  BY <1>2 DEF ExistsBijection
<1> QED BY <1>1, <1>3, FS_Bijection

(* Adding a job adds its cost. *)
LEMMA UnitsOfAnother ==
  ASSUME NEW S \in SUBSET Job, NEW j \in Job \ S, IsFiniteSet(CostUnits(S))
  PROVE  /\ IsFiniteSet(CostUnits(S \cup {j}))
         /\ Cardinality(CostUnits(S \cup {j})) =
              Cardinality(CostUnits(S)) + cost_of(j)
<1>1. CostUnits(S \cup {j}) = CostUnits(S) \cup CostUnits({j})
  BY DEF CostUnits
<1>2. CostUnits(S) \cap CostUnits({j}) = {}
  BY DEF CostUnits
<1>3. /\ IsFiniteSet(CostUnits({j}))
      /\ Cardinality(CostUnits({j})) = cost_of(j)
  BY UnitsOfOne
<1>4. Cardinality({}) = 0
  BY FS_EmptySet
<1>5. /\ IsFiniteSet(CostUnits(S) \cup CostUnits({j}))
      /\ Cardinality(CostUnits(S) \cup CostUnits({j})) =
           Cardinality(CostUnits(S)) + Cardinality(CostUnits({j}))
             - Cardinality(CostUnits(S) \cap CostUnits({j}))
  BY <1>3, FS_Union
<1>6. Cardinality(CostUnits(S)) \in Nat
  BY FS_CardinalityType
<1>7. Cardinality(CostUnits(S) \cap CostUnits({j})) = 0
  BY <1>2, <1>4
<1>8. cost_of(j) \in Nat
  BY CostPositive
<1>9. Cardinality(CostUnits(S) \cup CostUnits({j})) =
        Cardinality(CostUnits(S)) + cost_of(j)
  BY <1>3, <1>5, <1>6, <1>7, <1>8
<1> QED BY <1>1, <1>5, <1>9

-----------------------------------------------------------------------------
(* The inductive invariant.  HeavyLaneBounded and OverBudgetRunsAlone are  *)
(* about the jobs in flight while the guard reads the two counters, so     *)
(* neither is inductive without CountersExact, and CountersExact needs the *)
(* typing of the counters.                                                 *)

UnitsFinite == IsFiniteSet(CostUnits(InFlight))

IInv == /\ TypeOK
        /\ UnitsFinite
        /\ CountersExact
        /\ HeavyLaneBounded
        /\ OverBudgetRunsAlone
        /\ NoLostWakeup

(* What removing a job from the jobs in flight takes from the two sums. *)
LEMMA WithoutOne ==
  ASSUME NEW S \in SUBSET Job, NEW j \in S, IsFiniteSet(CostUnits(S))
  PROVE  /\ IsFiniteSet(CostUnits(S \ {j}))
         /\ Cardinality(CostUnits(S)) =
              Cardinality(CostUnits(S \ {j})) + cost_of(j)
         /\ Cardinality(CostUnits(S \ {j})) \in Nat
<1> DEFINE T == S \ {j}
<1>1. CostUnits(T) \in SUBSET CostUnits(S)
  BY DEF CostUnits
<1>2. IsFiniteSet(CostUnits(T))
  BY <1>1, FS_Subset
<1>3. T \in SUBSET Job /\ j \in Job \ T /\ S = T \cup {j}
  OBVIOUS
<1> HIDE DEF T
<1>4. Cardinality(CostUnits(S)) = Cardinality(CostUnits(T)) + cost_of(j)
  BY <1>2, <1>3, UnitsOfAnother
<1>5. Cardinality(CostUnits(T)) \in Nat
  BY <1>2, FS_CardinalityType
<1> QED BY <1>2, <1>4, <1>5 DEF T

(* The heavy jobs of a set, counted. *)
LEMMA HeavyCount ==
  ASSUME NEW S \in SUBSET Job, NEW j \in Job \ S
  PROVE  /\ Cardinality(HeavyIn(S)) \in Nat
         /\ Cardinality(HeavyIn(S \cup {j})) =
              IF IsHeavy(j) THEN Cardinality(HeavyIn(S)) + 1
              ELSE Cardinality(HeavyIn(S))
<1>1. HeavyIn(S) \in SUBSET Job
  BY DEF HeavyIn
<1>2. IsFiniteSet(HeavyIn(S))
  BY <1>1, JobAssumption, FS_Subset
<1>3. Cardinality(HeavyIn(S)) \in Nat
  BY <1>2, FS_CardinalityType
<1>4. CASE IsHeavy(j)
  <2>1. HeavyIn(S \cup {j}) = HeavyIn(S) \cup {j} /\ j \notin HeavyIn(S)
    BY <1>4 DEF HeavyIn
  <2> QED BY <1>2, <1>3, <1>4, <2>1, FS_AddElement
<1>5. CASE ~IsHeavy(j)
  <2>1. HeavyIn(S \cup {j}) = HeavyIn(S)
    BY <1>5 DEF HeavyIn
  <2> QED BY <1>3, <1>5, <2>1
<1> QED BY <1>4, <1>5

LEMMA InitIInv == Init => IInv
<1> SUFFICES ASSUME Init PROVE IInv
  OBVIOUS
<1>1. InFlight = {}
  BY DEF Init, InFlight
<1>2. CostUnits(InFlight) = {} /\ HeavyIn(InFlight) = {}
  BY <1>1 DEF CostUnits, HeavyIn
<1>3. IsFiniteSet({}) /\ Cardinality({}) = 0
  BY FS_EmptySet
<1>4. TypeOK
  BY DEF Init, TypeOK, States
<1>5. UnitsFinite /\ CountersExact
  BY <1>2, <1>3 DEF Init, UnitsFinite, CountersExact
<1>6. HeavyLaneBounded /\ OverBudgetRunsAlone
  BY <1>2, <1>3, Floors DEF HeavyLaneBounded, OverBudgetRunsAlone
<1>7. NoLostWakeup
  BY DEF Init, NoLostWakeup
<1> QED BY <1>4, <1>5, <1>6, <1>7 DEF IInv

(* A step that leaves the jobs in flight and the counters alone keeps      *)
(* everything said of them.                                                *)
LEMMA SameFlight ==
  ASSUME IInv, InFlight' = InFlight, UNCHANGED <<inFlightCost, heavyInFlight>>
  PROVE  UnitsFinite' /\ CountersExact' /\ HeavyLaneBounded' /\ OverBudgetRunsAlone'
BY DEF IInv, UnitsFinite, CountersExact, HeavyLaneBounded, OverBudgetRunsAlone,
       CostUnits, HeavyIn

LEMMA StepIInv == IInv /\ [Next]_vars => IInv'
<1> SUFFICES ASSUME IInv, [Next]_vars PROVE IInv'
  OBVIOUS
<1> USE DEF IInv
<1>t. TypeOK /\ InFlight \in SUBSET Job
  BY DEF InFlight
<1>0. CASE UNCHANGED vars
  <2>1. InFlight' = InFlight
    BY <1>0 DEF vars, InFlight
  <2>2. TypeOK' /\ NoLostWakeup'
    BY <1>0 DEF vars, TypeOK, NoLostWakeup, CanAdmit
  <2> QED BY <1>0, <2>1, <2>2, SameFlight DEF vars
<1>1. ASSUME NEW j \in Job, Submit(j) PROVE IInv'
  <2>1. InFlight' = InFlight
    BY <1>1 DEF Submit, InFlight, TypeOK
  <2>2. TypeOK' /\ NoLostWakeup'
    BY <1>1 DEF Submit, TypeOK, States, NoLostWakeup, CanAdmit
  <2> QED BY <1>1, <2>1, <2>2, SameFlight DEF Submit
<1>2. ASSUME NEW j \in Job, Admit(j) PROVE IInv'
  <2>1. InFlight' = InFlight \cup {j} /\ j \in Job \ InFlight
    BY <1>2 DEF Admit, InFlight, TypeOK
  <2>2. /\ inFlightCost \in Nat /\ heavyInFlight \in Nat
        /\ cost_of(j) \in Nat /\ cost_of(j) >= 1
        /\ Budget \in Nat /\ MaxHeavy \in Nat
    BY CostPositive, Floors DEF TypeOK
  <2>3. TypeOK'
    BY <1>2, <2>2 DEF Admit, TypeOK, States
  <2>4. /\ IsFiniteSet(CostUnits(InFlight \cup {j}))
        /\ Cardinality(CostUnits(InFlight \cup {j})) = inFlightCost + cost_of(j)
    BY <1>t, <2>1, UnitsOfAnother DEF UnitsFinite, CountersExact
  <2>5. Cardinality(HeavyIn(InFlight \cup {j})) =
          IF IsHeavy(j) THEN heavyInFlight + 1 ELSE heavyInFlight
    BY <1>t, <2>1, HeavyCount DEF CountersExact
  <2>6. CostUnits(InFlight)' = CostUnits(InFlight \cup {j})
    BY <2>1 DEF CostUnits
  <2>7. HeavyIn(InFlight)' = HeavyIn(InFlight \cup {j})
    BY <2>1 DEF HeavyIn
  <2>8. UnitsFinite' /\ CountersExact'
    BY <1>2, <2>4, <2>5, <2>6, <2>7 DEF Admit, UnitsFinite, CountersExact
  <2>9. HeavyLaneBounded'
    BY <1>2, <2>2, <2>5, <2>7 DEF Admit, CanAdmit, HeavyLaneBounded, CountersExact
  <2>10. OverBudgetRunsAlone'
    <3>1. CASE inFlightCost = 0
      <4>1. CostUnits(InFlight) = {}
        BY <3>1, FS_EmptySet DEF UnitsFinite, CountersExact
      <4>2. InFlight = {}
        <5>1. ASSUME NEW k \in InFlight PROVE FALSE
          <6>1. cost_of(k) \in Nat /\ cost_of(k) >= 1
            BY <1>t, CostPositive
          <6>2. <<k, 1>> \in CostUnits(InFlight)
            BY <6>1 DEF CostUnits
          <6> QED BY <4>1, <6>2
        <5> QED BY <5>1
      <4>3. InFlight' = {j}
        BY <2>1, <4>2
      <4> QED BY <4>3 DEF OverBudgetRunsAlone
    <3>2. CASE inFlightCost + cost_of(j) <= Budget
      <4>1. ~(Cardinality(CostUnits(InFlight))' > Budget)
        BY <2>2, <2>4, <2>6, <3>2
      <4> QED BY <4>1 DEF OverBudgetRunsAlone
    <3> QED BY <1>2, <3>1, <3>2 DEF Admit, CanAdmit
  <2>11. NoLostWakeup'
    <3> SUFFICES ASSUME NEW k \in Job, job'[k] = "asleep" PROVE ~CanAdmit(k)'
      BY DEF NoLostWakeup
    <3>1. job[k] = "asleep" /\ ~CanAdmit(k)
      BY <1>2 DEF Admit, TypeOK, NoLostWakeup
    <3>2. cost_of(k) \in Nat
      BY CostPositive
    <3>3. CASE IsHeavy(k) /\ ~(heavyInFlight < MaxHeavy)
      BY <1>2, <2>2, <3>3 DEF Admit, CanAdmit
    <3>4. CASE inFlightCost # 0 /\ ~(inFlightCost + cost_of(k) <= Budget)
      BY <1>2, <2>2, <3>2, <3>4 DEF Admit, CanAdmit
    <3> QED BY <3>1, <3>3, <3>4 DEF CanAdmit
  <2> QED BY <2>3, <2>8, <2>9, <2>10, <2>11
<1>3. ASSUME NEW j \in Job, Wait(j) PROVE IInv'
  <2>1. InFlight' = InFlight
    BY <1>3 DEF Wait, InFlight, TypeOK
  <2>2. TypeOK' /\ NoLostWakeup'
    BY <1>3 DEF Wait, TypeOK, States, NoLostWakeup, CanAdmit
  <2> QED BY <1>3, <2>1, <2>2, SameFlight DEF Wait
<1>4. ASSUME NEW j \in Job, Release(j) PROVE IInv'
  <2> DEFINE T == InFlight \ {j}
  <2>1. InFlight' = T /\ j \in InFlight
    BY <1>4 DEF Release, Woken, InFlight, TypeOK
  <2>2. /\ inFlightCost \in Nat /\ heavyInFlight \in Nat
        /\ cost_of(j) \in Nat /\ cost_of(j) >= 1
        /\ Budget \in Nat /\ MaxHeavy \in Nat
    BY CostPositive, Floors DEF TypeOK
  <2>3. TypeOK'
    BY <1>4, <2>2 DEF Release, Woken, AtLeast, TypeOK, States
  <2>4. /\ IsFiniteSet(CostUnits(T))
        /\ inFlightCost = Cardinality(CostUnits(T)) + cost_of(j)
        /\ Cardinality(CostUnits(T)) \in Nat
    BY <1>t, <2>1, WithoutOne DEF UnitsFinite, CountersExact
  <2>5. /\ Cardinality(HeavyIn(T)) \in Nat
        /\ heavyInFlight = IF IsHeavy(j) THEN Cardinality(HeavyIn(T)) + 1
                           ELSE Cardinality(HeavyIn(T))
    <3>1. T \in SUBSET Job /\ j \in Job \ T /\ InFlight = T \cup {j}
      BY <1>t, <2>1
    <3> HIDE DEF T
    <3> QED BY <3>1, HeavyCount DEF CountersExact
  <2>6. CostUnits(InFlight)' = CostUnits(T)
    BY <2>1 DEF CostUnits
  <2>7. HeavyIn(InFlight)' = HeavyIn(T)
    BY <2>1 DEF HeavyIn
  <2>8. /\ inFlightCost' = Cardinality(CostUnits(T))
        /\ heavyInFlight' = Cardinality(HeavyIn(T))
    BY <1>4, <2>2, <2>4, <2>5 DEF Release, AtLeast
  <2>9. UnitsFinite' /\ CountersExact'
    BY <2>4, <2>6, <2>7, <2>8 DEF UnitsFinite, CountersExact
  <2>10. HeavyLaneBounded'
    BY <2>2, <2>5, <2>7 DEF HeavyLaneBounded, CountersExact
  <2>11. OverBudgetRunsAlone'
    <3> SUFFICES ASSUME Cardinality(CostUnits(T)) > Budget PROVE FALSE
      BY <2>6 DEF OverBudgetRunsAlone
    <3>1. inFlightCost > Budget
      BY <2>2, <2>4
    <3>2. PICK k \in Job : InFlight = {k}
      BY <3>1 DEF OverBudgetRunsAlone, CountersExact
    <3>3. T = {}
      BY <2>1, <3>2
    <3>4. Cardinality(CostUnits(T)) = 0
      BY <3>3, FS_EmptySet DEF CostUnits
    <3> QED BY <2>2, <3>4
  <2>12. NoLostWakeup'
    BY <1>4 DEF Release, Woken, NoLostWakeup
  <2> QED BY <2>3, <2>9, <2>10, <2>11, <2>12
<1> QED BY <1>0, <1>1, <1>2, <1>3, <1>4 DEF Next

(* scheduler.py, for every set of jobs and every configuration: the two    *)
(* counters are what the jobs in flight amount to, the heavy lane and the  *)
(* budget hold, and no sleeper was left behind.                            *)
THEOREM SchedulerInvariant == Spec => []IInv
BY InitIInv, StepIInv, PTL DEF Spec

(* The state is well typed and the counters are never negative. *)
THEOREM SchedulerTypeOK == Spec => []TypeOK
BY SchedulerInvariant, PTL DEF IInv

(* acquire and release keep exact books. *)
THEOREM SchedulerCountersExact == Spec => []CountersExact
BY SchedulerInvariant, PTL DEF IInv

(* At most MaxHeavy heavy jobs are ever in flight. *)
THEOREM SchedulerHeavyLane == Spec => []HeavyLaneBounded
BY SchedulerInvariant, PTL DEF IInv

(* More than the budget is in flight only as one job alone. *)
THEOREM SchedulerBudget == Spec => []OverBudgetRunsAlone
BY SchedulerInvariant, PTL DEF IInv

(* A job asleep in the Condition could not be admitted. *)
THEOREM SchedulerNoLostWakeup == Spec => []NoLostWakeup
BY SchedulerInvariant, PTL DEF IInv
=============================================================================
